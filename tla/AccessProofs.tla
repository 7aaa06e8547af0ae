---------------------------- MODULE AccessProofs ----------------------------
(***************************************************************************)
(* What holds of access for any devices, requests, roles and bounds.       *)
(*                                                                         *)
(* Sessions: pairs, versions and requests fit together, the guard follows  *)
(* the user's version, a family has one live refresh token, and what a     *)
(* device holds is live.                                                   *)
(*                                                                         *)
(* Permissions: a permission has the widest scope it is given with, in     *)
(* whatever order the roles are read, and what a list shows opens.         *)
(***************************************************************************)
EXTENDS AuthSession, AccessReads, FiniteSetTheorems, SequenceTheorems, WellFoundedInduction,
        TLAPS

\* What a request is, but for one that is idle.
State == {"sent", "loading", "passed", "refused", "invalidating", "forcing", "forced", "found",
          "done", "waiting"}
Issued == [dev : Device, family : Nat, v : Nat, live : BOOLEAN, fresh : BOOLEAN]
Call == [at : State, dev : Device, kind : Kind, with : Nat, body : Nat, v : Nat, seen : Nat,
         new : Nat, again : BOOLEAN, heard : BOOLEAN]

\* The pairs of a family are of one device, and carry versions there have been.
PairsOK(tp, ver) ==
    /\ tp \in Seq(Issued)
    /\ \A i \in 1 .. Len(tp) :
          /\ tp[i].family \in 1 .. i /\ tp[i].v \in 1 .. ver
          /\ tp[tp[i].family].dev = tp[i].dev

\* A request names pairs of its own device; the one a refresh issued is in the family of
\* the one it was sent with, the one a sign-in issued begins a family.
Names(r, tp) ==
    /\ r.with \in 0 .. Len(tp) /\ r.body \in 0 .. Len(tp) /\ r.new \in 0 .. Len(tp)
    /\ r.with # 0 => tp[r.with].dev = r.dev
    /\ r.body # 0 => tp[r.body].dev = r.dev
    /\ r.new # 0 => /\ tp[r.new].dev = r.dev
                    /\ tp[r.new].family = IF r.kind = "refresh" THEN tp[r.with].family ELSE r.new

\* What a request has read, found or issued goes with the step it is at.
StageOK(r, ver) ==
    /\ r.v \in 0 .. ver /\ r.seen \in 0 .. ver
    /\ r.at = "loading" => r.v # 0 /\ r.with # 0
    /\ r.at = "found" => r.kind = "refresh" /\ r.v # 0
    /\ r.at \in {"forcing", "forced"} => r.kind \in {"login", "refresh"} /\ (r.kind = "login" => r.v # 0)
    /\ r.at = "forced" => r.seen # 0
    /\ r.at = "waiting" => r.kind \in {"data", "logout", "change"}
    /\ r.at = "passed" /\ r.with = 0 => r.kind = "login"
    /\ r.kind = "refresh" => r.with # 0
    /\ r.kind # "refresh" => r.heard
    /\ r.new # 0 => \/ r.at = "done" /\ r.kind = "login"
                    \/ r.at \in {"forcing", "forced", "done"} /\ r.kind = "refresh"

CallOK(r, tp, ver) == r \in Call /\ Names(r, tp) /\ StageOK(r, ver)

Active(r) == r.at # "idle"
Refreshes(r) == r.at # "idle" /\ r.kind = "refresh"

HeldOK(h, tp) == /\ h \in [Device -> 0 .. Len(tp)]
                 /\ \A d \in Device : h[d] # 0 => tp[h[d]].dev = d

\* A refresh somebody waits for is the one its device waits for; the families of the
\* others are excused.
FlightOK(q, refr, tp, exc) ==
    /\ refr \in [Device -> Request \cup {NoRequest}]
    /\ \A d \in Device : refr[d] # NoRequest =>
          /\ Refreshes(q[refr[d]]) /\ q[refr[d]].dev = d /\ q[refr[d]].heard
    /\ \A k \in Request : Refreshes(q[k]) =>
          IF q[k].heard THEN refr[q[k].dev] = k ELSE tp[q[k].with].family \in exc

CallsOK(q, tp, ver) ==
    /\ q = [k \in Request |-> q[k]]
    /\ \A k \in Request : q[k] = IdleRequest \/ CallOK(q[k], tp, ver)

\* Versions, caches, pairs and the requests that have read them fit together.
AuthInv ==
    /\ version \in 1 .. MaxVersion /\ cache \in 0 .. version
    /\ PairsOK(tokenPair, version)
    /\ HeldOK(held, tokenPair)
    /\ CallsOK(req, tokenPair, version)
    /\ FlightOK(req, refreshing, tokenPair, excused)
    /\ excused \subseteq 1 .. Len(tokenPair) /\ overtaken \in BOOLEAN

\* A pair that is issued and not yet answered is known to nobody else; one that begins a
\* family is alone in it.
Secret(q, h, tp) ==
    \A k \in Request : Active(q[k]) /\ q[k].new # 0 =>
      /\ \A d \in Device : h[d] # q[k].new
      /\ \A j \in Request : Active(q[j]) =>
           /\ q[j].with # q[k].new /\ q[j].body # q[k].new
           /\ j # k => q[j].new # q[k].new
      /\ q[k].kind = "login" => \A i \in 1 .. Len(tp) : tp[i].family = q[k].new => i = q[k].new

LiveOnly(f, n, tp) == \A i \in 1 .. Len(tp) : tp[i].family = f /\ tp[i].live => i = n

SignsOut(d, q) == \E k \in Request : Active(q[k]) /\ q[k].dev = d /\ q[k].kind = "logout"

\* A family has one live pair; one that is found to be rotated was it ...
OneLive(q, tp, exc) ==
    /\ \A i, j \in 1 .. Len(tp) :
          i # j /\ tp[i].family = tp[j].family /\ tp[i].family \notin exc => ~(tp[i].live /\ tp[j].live)
    /\ \A k \in Request : Active(q[k]) /\ q[k].at = "found" /\ tp[q[k].with].family \notin exc =>
          LiveOnly(tp[q[k].with].family, q[k].with, tp)

\* ... and what a device holds, or is about to, is live, unless the refresh its device
\* waits for is of this family.
HeldLive(q, h, refr, tp, exc) ==
    /\ \A k \in Request : Active(q[k]) /\ q[k].heard /\ q[k].new # 0 =>
          tp[q[k].new].live \/ tp[q[k].new].family \in exc
    /\ \A d \in Device : h[d] # 0 /\ tp[h[d]].family \notin exc /\ ~SignsOut(d, q) =>
          \/ tp[h[d]].live
          \/ refr[d] # NoRequest /\ tp[q[refr[d]].with].family = tp[h[d]].family

\* Who knows a pair, which pair of a family is live, and which of them a device holds.
SessionInv ==
    /\ Secret(req, held, tokenPair)
    /\ OneLive(req, tokenPair, excused)
    /\ HeldLive(req, held, refreshing, tokenPair, excused)

----------------------------------------------------------------------------
(* Pairs *)

\* What a step may do to the pairs there are: end their lives.
Onward(tp, up) ==
    /\ Len(up) \in Nat /\ Len(up) >= Len(tp)
    /\ \A i \in 1 .. Len(tp) :
          /\ up[i].dev = tp[i].dev /\ up[i].family = tp[i].family /\ up[i].v = tp[i].v
          /\ up[i].live => tp[i].live

\* A request stays right as pairs and versions go onward.
LEMMA CallOnward ==
  ASSUME NEW tp \in Seq(Issued), NEW up, Onward(tp, up), NEW ver \in Nat, NEW next \in Nat, ver <= next,
         NEW r, CallOK(r, tp, ver)
  PROVE  CallOK(r, up, next)
<1>1. Len(tp) \in Nat /\ r \in Call
  BY DEF CallOK
<1>2. Names(r, tp) /\ StageOK(r, ver)
  BY DEF CallOK
<1>3. Names(r, up)
  <2>1. r.with \in 0 .. Len(up) /\ r.body \in 0 .. Len(up) /\ r.new \in 0 .. Len(up)
    BY <1>1, <1>2 DEF Names, Onward
  <2>2. /\ r.with # 0 => r.with \in 1 .. Len(tp)
        /\ r.body # 0 => r.body \in 1 .. Len(tp)
        /\ r.new # 0 => r.new \in 1 .. Len(tp)
    BY <1>1, <1>2 DEF Names
  <2>3. r.kind = "refresh" => r.with # 0
    BY <1>2 DEF StageOK
  <2> QED BY <1>2, <2>1, <2>2, <2>3 DEF Names, Onward
<1>4. StageOK(r, next)
  BY <1>1, <1>2 DEF StageOK, Call
<1> QED BY <1>1, <1>3, <1>4 DEF CallOK

\* So does what the devices hold.
LEMMA HeldOnward ==
  ASSUME NEW tp \in Seq(Issued), NEW up, Onward(tp, up), NEW h, HeldOK(h, tp)
  PROVE  HeldOK(h, up)
<1>1. Len(tp) \in Nat /\ Len(up) \in Nat /\ Len(up) >= Len(tp)
  BY DEF Onward
<1>2. \A d \in Device : h[d] \in 0 .. Len(tp) /\ (h[d] # 0 => h[d] \in 1 .. Len(tp))
  <2>1. \A d \in Device : h[d] \in 0 .. Len(tp)
    BY DEF HeldOK
  <2>2. ASSUME NEW n \in 0 .. Len(tp), n # 0
        PROVE  n \in 1 .. Len(tp)
    BY <1>1, <2>2
  <2> QED BY <2>1, <2>2
<1> QED BY <1>1, <1>2 DEF HeldOK, Onward

\* A function on the numbers up to n is a sequence.
LEMMA SequenceOf ==
  ASSUME NEW S, NEW n \in Nat, NEW f, f = [i \in 1 .. n |-> f[i]], \A i \in 1 .. n : f[i] \in S
  PROVE  f \in Seq(S) /\ Len(f) = n
  OBVIOUS

\* Pairs go onward when each keeps what it says ...
LEMMA Keeping ==
  ASSUME NEW ver, NEW tp, PairsOK(tp, ver), NEW up, up = [i \in 1 .. Len(tp) |-> up[i]],
         \A i \in 1 .. Len(tp) :
            /\ up[i] \in Issued
            /\ up[i].dev = tp[i].dev /\ up[i].family = tp[i].family /\ up[i].v = tp[i].v
            /\ up[i].live => tp[i].live
  PROVE  Onward(tp, up) /\ PairsOK(up, ver) /\ Len(up) = Len(tp)
<1>1. tp \in Seq(Issued) /\ Len(tp) \in Nat
  BY DEF PairsOK
<1>2. up \in Seq(Issued) /\ Len(up) = Len(tp)
  BY <1>1, SequenceOf
<1>3. PairsOK(up, ver)
  <2> SUFFICES ASSUME NEW i \in 1 .. Len(up)
               PROVE  up[i].family \in 1 .. i /\ up[i].v \in 1 .. ver /\ up[up[i].family].dev = up[i].dev
    BY <1>2 DEF PairsOK
  <2>1. tp[i].family \in 1 .. i /\ tp[i].v \in 1 .. ver /\ tp[tp[i].family].dev = tp[i].dev
    BY <1>2 DEF PairsOK
  <2>2. i \in 1 .. Len(tp) /\ tp[i].family \in 1 .. Len(tp)
    BY <1>1, <1>2, <2>1
  <2> QED BY <2>1, <2>2
<1> QED BY <1>1, <1>2, <1>3 DEF Onward

\* ... some are revoked, and no others lose their lives ...
LEMMA Revoking ==
  ASSUME PairsOK(tokenPair, version), NEW I, NEW up, up = Revoked(I)
  PROVE  /\ Onward(tokenPair, up) /\ PairsOK(up, version) /\ Len(up) = Len(tokenPair)
         /\ \A i \in Pair : up[i].live <=> tokenPair[i].live /\ i \notin I
<1>1. tokenPair \in Seq(Issued) /\ Len(tokenPair) \in Nat
  BY DEF PairsOK
<1>2. \A i \in Pair : tokenPair[i] \in Issued
  BY <1>1 DEF Pair
<1>3. ASSUME NEW i \in Pair
      PROVE  /\ up[i] \in Issued
             /\ up[i].dev = tokenPair[i].dev /\ up[i].family = tokenPair[i].family
             /\ up[i].v = tokenPair[i].v
             /\ up[i].live <=> tokenPair[i].live /\ i \notin I
  <2>1. PICK b \in BOOLEAN : b <=> (tokenPair[i].live /\ i \notin I)
    OBVIOUS
  <2>2. tokenPair[i] \in Issued /\ tokenPair[i].live \in BOOLEAN
    BY <1>2 DEF Issued
  <2>3. b = (tokenPair[i].live /\ i \notin I)
    BY <2>1, <2>2, Zenon
  <2>4. up[i] = [tokenPair[i] EXCEPT !.live = b]
    BY <2>3 DEF Revoked
  <2>5. up[i].live = b
    BY <2>2, <2>4 DEF Issued
  <2>6. up[i].live <=> tokenPair[i].live /\ i \notin I
    BY <2>1, <2>5
  <2> QED BY <2>2, <2>4, <2>6 DEF Issued
<1>4. up = [i \in 1 .. Len(tokenPair) |-> up[i]]
  BY DEF Revoked, Pair
<1> QED BY <1>3, <1>4, Keeping DEF Pair

\* ... and when one is issued.
LEMMA Issuing ==
  ASSUME NEW ver \in Nat, NEW tp, PairsOK(tp, ver), NEW p \in Issued, NEW up, up = Append(tp, p),
         p.v \in 1 .. ver,
         \/ p.family = Len(tp) + 1
         \/ p.family \in 1 .. Len(tp) /\ tp[p.family].dev = p.dev
  PROVE  Onward(tp, up) /\ PairsOK(up, ver)
<1>1. tp \in Seq(Issued) /\ Len(tp) \in Nat
  BY DEF PairsOK
<1>2. /\ up \in Seq(Issued) /\ Len(up) = Len(tp) + 1 /\ up[Len(tp) + 1] = p
      /\ \A i \in 1 .. Len(tp) : up[i] = tp[i]
  BY <1>1
<1>3. ASSUME NEW i \in 1 .. Len(up)
      PROVE  up[i].family \in 1 .. i /\ up[i].v \in 1 .. ver /\ up[up[i].family].dev = up[i].dev
  <2>1. CASE i = Len(tp) + 1
    BY <1>1, <1>2, <2>1
  <2>2. CASE i \in 1 .. Len(tp)
    <3>1. tp[i].family \in 1 .. i /\ tp[i].v \in 1 .. ver /\ tp[tp[i].family].dev = tp[i].dev
      BY <2>2 DEF PairsOK
    <3>2. tp[i].family \in 1 .. Len(tp)
      BY <1>1, <2>2, <3>1
    <3> QED BY <1>2, <2>2, <3>1, <3>2
  <2> QED BY <1>1, <1>2, <2>1, <2>2
<1> QED BY <1>1, <1>2, <1>3 DEF Onward, PairsOK

\* Pairs that stay as they are, and versions that grow.
LEMMA Staying ==
  ASSUME NEW ver \in Nat, NEW next \in Nat, ver <= next, NEW tp, PairsOK(tp, ver)
  PROVE  Onward(tp, tp) /\ PairsOK(tp, next)
<1>1. tp \in Seq(Issued) /\ Len(tp) \in Nat
  BY DEF PairsOK
<1> QED BY <1>1 DEF PairsOK, Onward

\* An access token that expires leaves its pair as it is.
LEMMA Expiring ==
  ASSUME PairsOK(tokenPair, version), NEW i \in Pair, NEW up, up = [tokenPair EXCEPT ![i].fresh = FALSE]
  PROVE  /\ Onward(tokenPair, up) /\ PairsOK(up, version) /\ Len(up) = Len(tokenPair)
         /\ \A j \in Pair : up[j].live = tokenPair[j].live
<1>1. tokenPair \in [Pair -> Issued]
  BY DEF PairsOK, Pair
<1>2. PICK p : p = [tokenPair[i] EXCEPT !.fresh = FALSE]
  OBVIOUS
<1>3. /\ p \in Issued /\ p.dev = tokenPair[i].dev /\ p.family = tokenPair[i].family
      /\ p.v = tokenPair[i].v /\ p.live = tokenPair[i].live
  BY <1>1, <1>2 DEF Issued
<1>4. PICK w : w = [tokenPair EXCEPT ![i] = p]
  OBVIOUS
<1>5. w = up
  BY <1>2, <1>4
<1>6. ASSUME NEW j \in Pair
      PROVE  /\ w[j] \in Issued
             /\ w[j].dev = tokenPair[j].dev /\ w[j].family = tokenPair[j].family
             /\ w[j].v = tokenPair[j].v /\ w[j].live = tokenPair[j].live
  BY <1>1, <1>3, <1>4
<1>7. w = [j \in 1 .. Len(tokenPair) |-> w[j]]
  BY <1>1, <1>4 DEF Pair
<1>8. Onward(tokenPair, w) /\ PairsOK(w, version) /\ Len(w) = Len(tokenPair)
  BY <1>6, <1>7, Keeping DEF Pair
<1> QED BY <1>5, <1>6, <1>8

----------------------------------------------------------------------------
(* The server's steps *)

\* Request k goes on as r, for the same caller.
Advance(k, r) ==
    /\ Active(req[k])
    /\ r.at # "idle"
    /\ r.dev = req[k].dev /\ r.kind = req[k].kind /\ r.with = req[k].with /\ r.body = req[k].body
    /\ r.heard = req[k].heard
    /\ req' = [req EXCEPT ![k] = r]

\* A step that changes no pair, and neither issues nor finds one.
Quiet(k) ==
    \/ GuardCheck(k) \/ GuardRead(k) \/ GuardStore(k) \/ DataServed(k) \/ Invalidate(k)
    \/ LoginRead(k) \/ ForceRead(k) \/ RefreshAnswer(k) \/ JoinRefresh(k)

\* A request that is not idle is one.
LEMMA ActiveCall ==
  ASSUME AuthInv, NEW k \in Request, req[k].at # "idle"
  PROVE  /\ CallOK(req[k], tokenPair, version) /\ Active(req[k])
         /\ req[k] \in Call /\ Names(req[k], tokenPair) /\ StageOK(req[k], version)
<1>1. req[k] # IdleRequest
  BY DEF IdleRequest
<1> QED BY <1>1 DEF AuthInv, CallsOK, CallOK, Active

\* A request that moves on without a read is one wherever it may go.
LEMMA MovedCall ==
  ASSUME AuthInv, NEW k \in Request, req[k].at # "idle",
         NEW at \in {"passed", "refused", "invalidating", "done", "waiting"}, Moved(k, at),
         at = "waiting" => req[k].kind \in {"data", "logout", "change"},
         at = "passed" /\ req[k].with = 0 => req[k].kind = "login",
         req[k].new # 0 => at = "done"
  PROVE  \E r : /\ Advance(k, r) /\ CallOK(r, tokenPair, version)
                /\ r.new = req[k].new /\ r.at = at
<1>1. /\ Active(req[k]) /\ req[k] \in Call /\ Names(req[k], tokenPair) /\ StageOK(req[k], version)
  BY ActiveCall
<1>2. PICK r : r = [req[k] EXCEPT !.at = at, !.v = 0, !.seen = 0]
  OBVIOUS
<1>3. req' = [req EXCEPT ![k] = r]
  BY <1>2 DEF Moved
<1>4. /\ r \in Call /\ r.at = at /\ r.v = 0 /\ r.seen = 0 /\ r.dev = req[k].dev /\ r.kind = req[k].kind
      /\ r.with = req[k].with /\ r.body = req[k].body /\ r.heard = req[k].heard /\ r.new = req[k].new
  BY <1>1, <1>2 DEF Call, State
<1>5. Names(r, tokenPair)
  BY <1>1, <1>4 DEF Names
<1>6. StageOK(r, version)
  BY <1>1, <1>4 DEF StageOK, AuthInv
<1> QED BY <1>1, <1>3, <1>4, <1>5, <1>6 DEF CallOK, Advance

\* What a quiet step leaves.
LEMMA QuietCall ==
  ASSUME AuthInv, NEW k \in Request, Quiet(k)
  PROVE  /\ \E r : /\ Advance(k, r) /\ CallOK(r, tokenPair, version)
                   /\ r.new = req[k].new /\ r.at # "found"
         /\ UNCHANGED <<version, tokenPair, held, refreshing, excused>>
         /\ cache' \in 0 .. version /\ overtaken' \in BOOLEAN
<1>1. version \in Nat \ {0} /\ cache \in 0 .. version /\ overtaken \in BOOLEAN
  BY AuthAssumption DEF AuthInv, AuthAssumption
<1>2. CASE GuardCheck(k)
  <2>1. /\ req[k].at = "sent" /\ UNCHANGED <<version, tokenPair, cache, held, refreshing, excused, overtaken>>
    BY <1>2 DEF GuardCheck
  <2>2. StageOK(req[k], version)
    BY <2>1, ActiveCall
  <2>3. PICK at \in {"passed", "refused"} :
           Moved(k, at) /\ (at = "passed" /\ req[k].with = 0 => req[k].kind = "login")
    <3>1. CASE req[k].with = 0 /\ Moved(k, IF req[k].kind \in {"login", "refresh"} THEN "passed" ELSE "refused")
      BY <2>2, <3>1 DEF StageOK
    <3>2. CASE req[k].with # 0 /\ Moved(k, "refused")
      BY <3>2
    <3>3. CASE req[k].with # 0 /\ Moved(k, Verdict(k, cache))
      BY <3>3 DEF Verdict
    <3> QED BY <1>2, <3>1, <3>2, <3>3 DEF GuardCheck
  <2>4. req[k].new = 0
    BY <2>1, <2>2 DEF StageOK
  <2>5. \E r : Advance(k, r) /\ CallOK(r, tokenPair, version) /\ r.new = req[k].new /\ r.at = at
    BY <2>1, <2>3, <2>4, MovedCall
  <2> QED BY <1>1, <2>1, <2>3, <2>5
<1>3. CASE GuardRead(k)
  <2>1. /\ req[k].at = "sent" /\ req[k].with # 0
        /\ req' = [req EXCEPT ![k].at = "loading", ![k].v = version]
        /\ UNCHANGED <<version, tokenPair, cache, held, refreshing, excused, overtaken>>
    BY <1>3 DEF GuardRead
  <2>2. Active(req[k]) /\ req[k] \in Call /\ Names(req[k], tokenPair) /\ StageOK(req[k], version)
    BY <2>1, ActiveCall
  <2>3. PICK r : r = [req[k] EXCEPT !.at = "loading", !.v = version]
    OBVIOUS
  <2>4. /\ r \in Call /\ r.at = "loading" /\ r.v = version /\ r.seen = req[k].seen
        /\ r.dev = req[k].dev /\ r.kind = req[k].kind
        /\ r.with = req[k].with /\ r.body = req[k].body /\ r.heard = req[k].heard /\ r.new = req[k].new
    BY <1>1, <2>2, <2>3 DEF Call, State
  <2>5. Names(r, tokenPair)
    BY <2>2, <2>4 DEF Names
  <2>6. StageOK(r, version)
    BY <1>1, <2>1, <2>2, <2>4 DEF StageOK
  <2>7. Advance(k, r)
    BY <2>1, <2>2, <2>3, <2>4 DEF Advance
  <2> QED BY <1>1, <2>1, <2>4, <2>5, <2>6, <2>7 DEF CallOK
<1>4. CASE GuardStore(k)
  <2>1. /\ req[k].at = "loading" /\ cache' = req[k].v /\ overtaken' = (req[k].v # version)
        /\ UNCHANGED <<version, tokenPair, held, refreshing, excused>>
    BY <1>4 DEF GuardStore, Cached
  <2>2. StageOK(req[k], version)
    BY <2>1, ActiveCall
  <2>3. PICK at \in {"passed", "refused"} : Moved(k, at)
    BY <1>4 DEF GuardStore, Verdict
  <2>4. \E r : Advance(k, r) /\ CallOK(r, tokenPair, version) /\ r.new = req[k].new /\ r.at = at
    BY <2>1, <2>2, <2>3, MovedCall DEF StageOK
  <2> QED BY <2>1, <2>2, <2>3, <2>4 DEF StageOK
<1>5. CASE DataServed(k) \/ JoinRefresh(k)
  <2>1. PICK at \in {"done", "waiting"} :
           /\ Moved(k, at) /\ req[k].at # "idle"
           /\ at = "waiting" => req[k].kind \in {"data", "logout", "change"} /\ req[k].at = "refused"
           /\ UNCHANGED <<version, tokenPair, cache, held, refreshing, excused, overtaken>>
    BY <1>5 DEF DataServed, JoinRefresh, RefusedOnce
  <2>2. StageOK(req[k], version)
    BY <2>1, ActiveCall
  <2>3. \E r : Advance(k, r) /\ CallOK(r, tokenPair, version) /\ r.new = req[k].new /\ r.at = at
    BY <2>1, <2>2, MovedCall DEF StageOK
  <2> QED BY <1>1, <2>1, <2>3
<1>6. CASE Invalidate(k) \/ RefreshAnswer(k)
  <2>1. /\ req[k].at # "idle" /\ Moved(k, "done")
        /\ UNCHANGED <<version, tokenPair, held, refreshing, excused>>
    BY <1>6 DEF Invalidate, RefreshAnswer
  <2>2. StageOK(req[k], version)
    BY <2>1, ActiveCall
  <2>3. cache' \in {0, req[k].seen} /\ overtaken' \in BOOLEAN
    BY <1>6 DEF Invalidate, RefreshAnswer, Cached
  <2>4. \E r : Advance(k, r) /\ CallOK(r, tokenPair, version) /\ r.new = req[k].new /\ r.at = "done"
    BY <2>1, MovedCall
  <2> QED BY <1>1, <2>1, <2>2, <2>3, <2>4 DEF StageOK
<1>7. CASE LoginRead(k)
  <2>1. /\ req[k].at = "passed" /\ req[k].kind = "login"
        /\ req' = [req EXCEPT ![k].at = "forcing", ![k].v = version]
        /\ UNCHANGED <<version, tokenPair, cache, held, refreshing, excused, overtaken>>
    BY <1>7 DEF LoginRead
  <2>2. Active(req[k]) /\ req[k] \in Call /\ Names(req[k], tokenPair) /\ StageOK(req[k], version)
    BY <2>1, ActiveCall
  <2>3. PICK r : r = [req[k] EXCEPT !.at = "forcing", !.v = version]
    OBVIOUS
  <2>4. /\ r \in Call /\ r.at = "forcing" /\ r.v = version /\ r.seen = req[k].seen
        /\ r.dev = req[k].dev /\ r.kind = req[k].kind
        /\ r.with = req[k].with /\ r.body = req[k].body /\ r.heard = req[k].heard /\ r.new = req[k].new
    BY <1>1, <2>2, <2>3 DEF Call, State
  <2>5. Names(r, tokenPair)
    BY <2>2, <2>4 DEF Names
  <2>6. StageOK(r, version)
    BY <1>1, <2>1, <2>2, <2>4 DEF StageOK
  <2>7. Advance(k, r)
    BY <2>1, <2>2, <2>3, <2>4 DEF Advance
  <2> QED BY <1>1, <2>1, <2>4, <2>5, <2>6, <2>7 DEF CallOK
<1>8. CASE ForceRead(k)
  <2>1. /\ req[k].at = "forcing" /\ req' = [req EXCEPT ![k].at = "forced", ![k].seen = version]
        /\ UNCHANGED <<version, tokenPair, cache, held, refreshing, excused, overtaken>>
    BY <1>8 DEF ForceRead
  <2>2. Active(req[k]) /\ req[k] \in Call /\ Names(req[k], tokenPair) /\ StageOK(req[k], version)
    BY <2>1, ActiveCall
  <2>3. PICK r : r = [req[k] EXCEPT !.at = "forced", !.seen = version]
    OBVIOUS
  <2>4. /\ r \in Call /\ r.at = "forced" /\ r.seen = version /\ r.v = req[k].v
        /\ r.dev = req[k].dev /\ r.kind = req[k].kind
        /\ r.with = req[k].with /\ r.body = req[k].body /\ r.heard = req[k].heard /\ r.new = req[k].new
    BY <1>1, <2>2, <2>3 DEF Call, State
  <2>5. Names(r, tokenPair)
    BY <2>2, <2>4 DEF Names
  <2>6. StageOK(r, version)
    BY <1>1, <2>1, <2>2, <2>4 DEF StageOK
  <2>7. Advance(k, r)
    BY <2>1, <2>2, <2>3, <2>4 DEF Advance
  <2> QED BY <1>1, <2>1, <2>4, <2>5, <2>6, <2>7 DEF CallOK
<1> QED BY <1>2, <1>3, <1>4, <1>5, <1>6, <1>7, <1>8 DEF Quiet

\* What a step of the server leaves right.
LEMMA ServerKeeps ==
  ASSUME AuthInv, NEW k \in Request, NEW r, Advance(k, r), CallOK(r, tokenPair', version'),
         UNCHANGED <<held, refreshing>>,
         version' \in version .. MaxVersion, cache' \in 0 .. version', overtaken' \in BOOLEAN,
         Onward(tokenPair, tokenPair'), PairsOK(tokenPair', version'),
         excused \subseteq excused', excused' \subseteq 1 .. Len(tokenPair')
  PROVE  AuthInv'
<1>1. /\ version \in Nat \ {0} /\ version' \in Nat \ {0} /\ version' \in 1 .. MaxVersion /\ version <= version'
      /\ tokenPair \in Seq(Issued)
  BY AuthAssumption DEF AuthInv, AuthAssumption, PairsOK
<1>2. HeldOK(held', tokenPair')
  BY <1>1, HeldOnward DEF AuthInv
<1>3. /\ req = [j \in Request |-> req[j]] /\ req' = [req EXCEPT ![k] = r]
      /\ req'[k] = r /\ \A j \in Request \ {k} : req'[j] = req[j]
  BY DEF AuthInv, CallsOK, Advance
<1>4. CallsOK(req', tokenPair', version')
  <2>1. req' = [j \in Request |-> req'[j]]
    BY <1>3
  <2>2. \A j \in Request \ {k} : req'[j] = IdleRequest \/ CallOK(req'[j], tokenPair', version')
    BY <1>1, <1>3, CallOnward DEF AuthInv, CallsOK
  <2> QED BY <1>3, <2>1, <2>2 DEF CallsOK
<1>5. FlightOK(req', refreshing', tokenPair', excused')
  <2>1. FlightOK(req, refreshing, tokenPair, excused)
    BY DEF AuthInv
  <2>2. \A j \in Request : /\ Refreshes(req'[j]) <=> Refreshes(req[j])
                           /\ Refreshes(req[j]) => /\ req'[j].dev = req[j].dev /\ req'[j].heard = req[j].heard
                                                   /\ req'[j].with = req[j].with
    BY <1>3 DEF Advance, Refreshes, Active
  <2>3. ASSUME NEW j \in Request, Refreshes(req[j])
        PROVE  tokenPair'[req[j].with].family = tokenPair[req[j].with].family
    <3>1. Names(req[j], tokenPair) /\ StageOK(req[j], version)
      BY <2>3, ActiveCall DEF Refreshes
    <3>2. req[j].with \in 1 .. Len(tokenPair)
      BY <1>1, <2>3, <3>1 DEF Names, StageOK, Refreshes
    <3> QED BY <3>2 DEF Onward
  <2>4. ASSUME NEW d \in Device, refreshing[d] # NoRequest
        PROVE  /\ Refreshes(req'[refreshing[d]]) /\ req'[refreshing[d]].dev = d /\ req'[refreshing[d]].heard
    <3>1. /\ refreshing[d] \in Request /\ Refreshes(req[refreshing[d]])
          /\ req[refreshing[d]].dev = d /\ req[refreshing[d]].heard
      BY <2>1, <2>4 DEF FlightOK
    <3> QED BY <2>2, <3>1
  <2>5. ASSUME NEW j \in Request, Refreshes(req'[j])
        PROVE  IF req'[j].heard THEN refreshing'[req'[j].dev] = j ELSE tokenPair'[req'[j].with].family \in excused'
    <3>1. /\ Refreshes(req[j]) /\ req'[j].dev = req[j].dev /\ req'[j].heard = req[j].heard
          /\ req'[j].with = req[j].with
      BY <2>2, <2>5
    <3>2. tokenPair'[req[j].with].family = tokenPair[req[j].with].family
      BY <2>3, <3>1
    <3>3. IF req[j].heard THEN refreshing[req[j].dev] = j ELSE tokenPair[req[j].with].family \in excused
      BY <2>1, <3>1 DEF FlightOK
    <3>4. CASE req[j].heard
      BY <3>1, <3>3, <3>4
    <3>5. CASE ~req[j].heard
      BY <3>1, <3>2, <3>3, <3>5
    <3> QED BY <3>4, <3>5
  <2>6. refreshing' \in [Device -> Request \cup {NoRequest}]
    BY <2>1 DEF FlightOK
  <2> QED BY <2>4, <2>5, <2>6 DEF FlightOK
<1> QED BY <1>1, <1>2, <1>4, <1>5 DEF AuthInv

\* The steps that revoke: a sign-out, a change of the password, a refresh that shows a
\* revoked pair.
Revokes(k) ==
    LogoutServed(k) \/ ChangePassword(k) \/ (RefreshFind(k) /\ ~tokenPair[req[k].with].live)

\* Which pairs a step revokes.
LEMMA RevokingCall ==
  ASSUME AuthInv, NEW k \in Request, Revokes(k)
  PROVE  /\ \E r, I : /\ Advance(k, r) /\ CallOK(r, tokenPair, version)
                      /\ r.new = req[k].new /\ r.at # "found"
                      /\ tokenPair' = Revoked(I)
                      /\ \/ req[k].kind = "logout" /\ I = {req[k].body}
                         \/ /\ req[k].with # 0 /\ I = RevokedByChange(req[k].dev)
                            /\ \A i \in Pair : tokenPair[i].dev # req[k].dev => tokenPair[i].family \in excused'
                         \/ req[k].kind = "refresh" /\ req[k].new = 0 /\ I = FamilyOf(req[k].with)
         /\ UNCHANGED <<cache, held, refreshing, overtaken>>
         /\ version' \in version .. MaxVersion
         /\ excused \subseteq excused' /\ excused' \subseteq Pair
<1>1. version \in Nat /\ version \in 1 .. MaxVersion /\ excused \subseteq Pair
  BY AuthAssumption DEF AuthInv, AuthAssumption, Pair
<1>2. CASE LogoutServed(k)
  <2>1. /\ req[k].at = "passed" /\ req[k].kind = "logout" /\ tokenPair' = Revoked({req[k].body})
        /\ Moved(k, "done") /\ UNCHANGED <<version, cache, held, refreshing, excused, overtaken>>
    BY <1>2 DEF LogoutServed
  <2>2. \E r : Advance(k, r) /\ CallOK(r, tokenPair, version) /\ r.new = req[k].new /\ r.at = "done"
    BY <2>1, MovedCall
  <2>3. version' \in version .. MaxVersion
    BY <1>1, <2>1, AuthAssumption DEF AuthAssumption
  <2> QED BY <1>1, <2>1, <2>2, <2>3
<1>3. CASE ChangePassword(k)
  <2>1. /\ req[k].at = "passed" /\ req[k].kind = "change" /\ version < MaxVersion
        /\ tokenPair' = Revoked(RevokedByChange(tokenPair[req[k].with].dev))
        /\ excused' = excused \cup {tokenPair[i].family : i \in {j \in Pair : tokenPair[j].dev # tokenPair[req[k].with].dev}}
        /\ version' = version + 1 /\ Moved(k, "invalidating")
        /\ UNCHANGED <<cache, held, refreshing, overtaken>>
    BY <1>3 DEF ChangePassword
  <2>2. Names(req[k], tokenPair) /\ StageOK(req[k], version)
    BY <2>1, ActiveCall
  <2>3. req[k].with # 0 /\ tokenPair[req[k].with].dev = req[k].dev /\ req[k].new = 0
    BY <2>1, <2>2 DEF Names, StageOK
  <2>4. \E r : Advance(k, r) /\ CallOK(r, tokenPair, version) /\ r.new = req[k].new /\ r.at = "invalidating"
    BY <2>1, <2>3, MovedCall
  <2>5. version' \in version .. MaxVersion
    BY <1>1, <2>1, AuthAssumption DEF AuthAssumption
  <2>6. \A i \in Pair : tokenPair[i].family \in Pair
    BY DEF AuthInv, PairsOK, Pair
  <2>7. excused' \subseteq Pair
    BY <1>1, <2>1, <2>6
  <2> QED BY <2>1, <2>3, <2>4, <2>5, <2>7
<1>4. CASE RefreshFind(k) /\ ~tokenPair[req[k].with].live
  <2>1. /\ req[k].at = "passed" /\ req[k].kind = "refresh" /\ tokenPair' = Revoked(FamilyOf(req[k].with))
        /\ Moved(k, "refused") /\ UNCHANGED <<version, cache, held, refreshing, excused, overtaken>>
    BY <1>4 DEF RefreshFind
  <2>2. StageOK(req[k], version)
    BY <2>1, ActiveCall
  <2>3. req[k].new = 0
    BY <2>1, <2>2 DEF StageOK
  <2>4. \E r : Advance(k, r) /\ CallOK(r, tokenPair, version) /\ r.new = req[k].new /\ r.at = "refused"
    BY <2>1, <2>3, MovedCall
  <2>5. version' \in version .. MaxVersion
    BY <1>1, <2>1, AuthAssumption DEF AuthAssumption
  <2> QED BY <1>1, <2>1, <2>3, <2>4, <2>5
<1> QED BY <1>2, <1>3, <1>4 DEF Revokes

\* A refresh finds its pair live.
LEMMA FindingCall ==
  ASSUME AuthInv, NEW k \in Request, RefreshFind(k), tokenPair[req[k].with].live
  PROVE  /\ \E r : /\ Advance(k, r) /\ CallOK(r, tokenPair, version)
                   /\ r.new = 0 /\ req[k].new = 0 /\ r.kind = "refresh"
         /\ UNCHANGED <<version, tokenPair, cache, held, refreshing, excused, overtaken>>
<1>1. /\ req[k].at = "passed" /\ req[k].kind = "refresh"
      /\ req' = [req EXCEPT ![k].at = "found", ![k].v = version]
      /\ UNCHANGED <<version, tokenPair, cache, held, refreshing, excused, overtaken>>
  BY DEF RefreshFind
<1>2. Active(req[k]) /\ req[k] \in Call /\ Names(req[k], tokenPair) /\ StageOK(req[k], version)
  BY <1>1, ActiveCall
<1>3. PICK r : r = [req[k] EXCEPT !.at = "found", !.v = version]
  OBVIOUS
<1>4. version \in Nat \ {0}
  BY AuthAssumption DEF AuthInv, AuthAssumption
<1>5. /\ r \in Call /\ r.at = "found" /\ r.v = version /\ r.seen = req[k].seen
      /\ r.dev = req[k].dev /\ r.kind = req[k].kind
      /\ r.with = req[k].with /\ r.body = req[k].body /\ r.heard = req[k].heard /\ r.new = req[k].new
  BY <1>2, <1>3, <1>4 DEF Call, State
<1>6. req[k].new = 0
  BY <1>1, <1>2 DEF StageOK
<1>7. Names(r, tokenPair)
  BY <1>2, <1>5 DEF Names
<1>8. StageOK(r, version)
  BY <1>1, <1>2, <1>4, <1>5 DEF StageOK
<1>9. Advance(k, r)
  BY <1>1, <1>2, <1>3, <1>5 DEF Advance
<1> QED BY <1>1, <1>5, <1>6, <1>7, <1>8, <1>9 DEF CallOK

\* The steps that issue: a sign-in, and a refresh that rotates its pair.
Issues(k) == LoginIssue(k) \/ RefreshRotate(k)

\* What is issued, and from which pairs.
LEMMA IssuingCall ==
  ASSUME AuthInv, NEW k \in Request, Issues(k)
  PROVE  /\ \E r, tp, p :
               /\ Advance(k, r) /\ CallOK(r, tokenPair', version)
               /\ r.new = Len(tokenPair) + 1 /\ req[k].new = 0 /\ r.at # "found"
               /\ Onward(tokenPair, tp) /\ PairsOK(tp, version) /\ Len(tp) = Len(tokenPair)
               /\ tokenPair' = Append(tp, p) /\ Onward(tp, tokenPair') /\ PairsOK(tokenPair', version)
               /\ p.live
               /\ \/ /\ req[k].kind = "login" /\ tp = tokenPair /\ p.family = Len(tokenPair) + 1
                  \/ /\ req[k].kind = "refresh" /\ req[k].at = "found" /\ tp = Revoked({req[k].with})
                     /\ p.family = tokenPair[req[k].with].family
         /\ UNCHANGED <<version, held, refreshing, excused>>
         /\ cache' \in 0 .. version /\ overtaken' \in BOOLEAN
<1>1. /\ version \in Nat \ {0} /\ tokenPair \in Seq(Issued) /\ Len(tokenPair) \in Nat
      /\ PairsOK(tokenPair, version)
      /\ cache \in 0 .. version /\ overtaken \in BOOLEAN
  BY AuthAssumption DEF AuthInv, AuthAssumption, PairsOK
<1>2. req[k].at # "idle"
  BY DEF Issues, LoginIssue, RefreshRotate
<1>3. /\ Active(req[k]) /\ req[k] \in Call /\ Names(req[k], tokenPair) /\ StageOK(req[k], version)
  BY <1>2, ActiveCall
<1>4. CASE LoginIssue(k)
  <2>1. PICK p : p = NewPair(req[k].dev, Len(tokenPair) + 1, req[k].v)
    OBVIOUS
  <2>2. PICK n, r : n = Len(tokenPair) + 1 /\ r = [req[k] EXCEPT !.at = "done", !.v = 0, !.seen = 0, !.new = n]
    OBVIOUS
  <2>3. /\ req[k].at = "forced" /\ req[k].kind = "login" /\ tokenPair' = Append(tokenPair, p)
        /\ cache' = req[k].seen /\ overtaken' = (req[k].seen # version)
        /\ req' = [req EXCEPT ![k] = r] /\ UNCHANGED <<version, held, refreshing, excused>>
    BY <1>4, <2>1, <2>2 DEF LoginIssue, Cached
  <2>4. req[k].v \in 1 .. version /\ req[k].seen \in 0 .. version
    BY <1>1, <1>3, <2>3 DEF StageOK
  <2>5. /\ p \in Issued /\ p.v \in 1 .. version /\ p.family = Len(tokenPair) + 1
        /\ p.live /\ p.dev = req[k].dev
    BY <1>1, <1>3, <2>1, <2>4 DEF NewPair, Issued, Call
  <2>6. /\ Onward(tokenPair, tokenPair') /\ PairsOK(tokenPair', version)
        /\ tokenPair'[Len(tokenPair) + 1] = p /\ Len(tokenPair') = Len(tokenPair) + 1
    <3>1. PICK up : up = Append(tokenPair, p)
      OBVIOUS
    <3>2. version \in Nat
      BY <1>1
    <3>3. Onward(tokenPair, up) /\ PairsOK(up, version)
      <4>1. PairsOK(tokenPair, version) /\ p \in Issued /\ p.v \in 1 .. version /\ p.family = Len(tokenPair) + 1
        BY <1>1, <2>5
      <4> QED BY <3>1, <3>2, <4>1, Issuing
    <3>4. up[Len(tokenPair) + 1] = p /\ Len(up) = Len(tokenPair) + 1
      BY <1>1, <2>5, <3>1
    <3> QED BY <2>3, <3>1, <3>3, <3>4
  <2>7. /\ r \in Call /\ r.at = "done" /\ r.v = 0 /\ r.seen = 0 /\ r.new = Len(tokenPair) + 1
        /\ r.dev = req[k].dev /\ r.kind = req[k].kind
        /\ r.with = req[k].with /\ r.body = req[k].body /\ r.heard = req[k].heard
    <3>1. n \in Nat /\ 0 \in Nat
      BY <1>1, <2>2
    <3> QED BY <1>3, <2>2, <3>1 DEF Call, State
  <2>8. CallOK(req[k], tokenPair', version)
    BY <1>1, <1>3, <2>6, CallOnward DEF CallOK
  <2>9. Names(r, tokenPair')
    <3>1. Names(req[k], tokenPair')
      BY <2>8 DEF CallOK
    <3>2. Len(tokenPair) + 1 \in 0 .. Len(tokenPair')
      BY <1>1, <2>6
    <3>3. tokenPair'[r.new].dev = r.dev /\ tokenPair'[r.new].family = r.new
      BY <2>5, <2>6, <2>7
    <3>4. r.kind # "refresh"
      BY <2>3, <2>7
    <3> QED BY <2>7, <3>1, <3>2, <3>3, <3>4 DEF Names
  <2>10. StageOK(r, version)
    BY <1>1, <1>3, <2>3, <2>7 DEF StageOK
  <2>11. Advance(k, r)
    BY <1>3, <2>3, <2>7 DEF Advance
  <2>12. Onward(tokenPair, tokenPair)
    BY <1>1 DEF Onward
  <2>13. req[k].new = 0
    BY <1>3, <2>3 DEF StageOK
  <2> QED BY <1>1, <2>3, <2>4, <2>5, <2>6, <2>7, <2>9, <2>10, <2>11, <2>12, <2>13 DEF CallOK
<1>5. CASE RefreshRotate(k)
  <2>1. PICK p : p = NewPair(req[k].dev, tokenPair[req[k].with].family, req[k].v)
    OBVIOUS
  <2>2. PICK n, r : n = Len(tokenPair) + 1 /\ r = [req[k] EXCEPT !.at = "forcing", !.v = 0, !.new = n]
    OBVIOUS
  <2>3. PICK tp : tp = Revoked({req[k].with})
    OBVIOUS
  <2>4. /\ req[k].at = "found" /\ tokenPair' = Append(tp, p) /\ req' = [req EXCEPT ![k] = r]
        /\ UNCHANGED <<version, cache, held, refreshing, excused, overtaken>>
    BY <1>5, <2>1, <2>2, <2>3 DEF RefreshRotate
  <2>5. /\ req[k].kind = "refresh" /\ req[k].v \in 1 .. version /\ req[k].new = 0
        /\ req[k].with \in 1 .. Len(tokenPair) /\ tokenPair[req[k].with].dev = req[k].dev
    BY <1>1, <1>3, <2>4 DEF StageOK, Names
  <2>6. Onward(tokenPair, tp) /\ PairsOK(tp, version) /\ Len(tp) = Len(tokenPair)
    BY <1>1, <2>3, Revoking
  <2>7. PICK f : f = tokenPair[req[k].with].family
    OBVIOUS
  <2>8. f \in 1 .. Len(tokenPair) /\ tokenPair[f].dev = req[k].dev
    <3>1. f \in 1 .. req[k].with
      BY <2>5, <2>7 DEF PairsOK, AuthInv
    <3>2. tokenPair[f].dev = req[k].dev
      BY <1>1, <2>5, <2>7 DEF PairsOK
    <3> QED BY <1>1, <2>5, <3>1, <3>2
  <2>9. tp[f].dev = req[k].dev
    BY <2>6, <2>8 DEF Onward
  <2>10. /\ p \in Issued /\ p.v \in 1 .. version /\ p.family = f /\ p.live /\ p.dev = req[k].dev
    BY <1>1, <1>3, <2>1, <2>5, <2>7, <2>8 DEF NewPair, Issued, Call
  <2>11. /\ Onward(tp, tokenPair') /\ PairsOK(tokenPair', version)
         /\ tokenPair'[Len(tokenPair) + 1] = p /\ Len(tokenPair') = Len(tokenPair) + 1
    <3>1. PICK up : up = Append(tp, p)
      OBVIOUS
    <3>2. version \in Nat
      BY <1>1
    <3>3. p.family \in 1 .. Len(tp) /\ tp[p.family].dev = p.dev
      BY <2>6, <2>8, <2>9, <2>10
    <3>4. Onward(tp, up) /\ PairsOK(up, version)
      <4>1. PairsOK(tp, version) /\ p \in Issued /\ p.v \in 1 .. version
        BY <2>6, <2>10
      <4> QED BY <3>1, <3>2, <3>3, <4>1, Issuing
    <3>5. tp \in Seq(Issued)
      BY <2>6 DEF PairsOK
    <3>6. up[Len(tp) + 1] = p /\ Len(up) = Len(tp) + 1
      BY <2>10, <3>1, <3>5
    <3> QED BY <2>4, <2>6, <3>1, <3>4, <3>6
  <2>12. /\ r \in Call /\ r.at = "forcing" /\ r.v = 0 /\ r.seen = req[k].seen /\ r.new = Len(tokenPair) + 1
         /\ r.dev = req[k].dev /\ r.kind = req[k].kind
         /\ r.with = req[k].with /\ r.body = req[k].body /\ r.heard = req[k].heard
    <3>1. n \in Nat /\ 0 \in Nat
      BY <1>1, <2>2
    <3> QED BY <1>3, <2>2, <3>1 DEF Call, State
  <2>13. CallOK(req[k], tp, version)
    BY <1>1, <1>3, <2>6, CallOnward DEF CallOK
  <2>14. CallOK(req[k], tokenPair', version)
    <3>1. tp \in Seq(Issued)
      BY <2>6 DEF PairsOK
    <3> QED BY <1>1, <2>11, <2>13, <3>1, CallOnward
  <2>15. Names(r, tokenPair')
    <3>1. Names(req[k], tokenPair')
      BY <2>14 DEF CallOK
    <3>2. Len(tokenPair) + 1 \in 0 .. Len(tokenPair')
      BY <1>1, <2>11
    <3>3. tokenPair'[r.new].dev = r.dev /\ tokenPair'[r.new].family = f
      BY <2>10, <2>11, <2>12
    <3>4. tokenPair'[r.with].family = f
      BY <2>5, <2>6, <2>7, <2>11, <2>12 DEF Onward
    <3>5. r.kind = "refresh"
      BY <2>5, <2>12
    <3> QED BY <2>12, <3>1, <3>2, <3>3, <3>4, <3>5 DEF Names
  <2>16. StageOK(r, version)
    BY <1>1, <1>3, <2>4, <2>5, <2>12 DEF StageOK
  <2>17. Advance(k, r)
    BY <1>3, <2>4, <2>12 DEF Advance
  <2> QED BY <1>1, <2>3, <2>4, <2>5, <2>6, <2>7, <2>10, <2>11, <2>12, <2>15, <2>16, <2>17 DEF CallOK
<1> QED BY <1>4, <1>5 DEF Issues

----------------------------------------------------------------------------
(* The client's steps *)

\* The refreshes other than k's stay what they are.
OthersFly(q, u, k) ==
    \A j \in Request \ {k} :
      /\ Refreshes(u[j]) <=> Refreshes(q[j])
      /\ Refreshes(q[j]) => u[j].dev = q[j].dev /\ u[j].with = q[j].with /\ u[j].heard = q[j].heard

\* One flight at a time goes on when the refresh in k is none, starts, ends or is given up.
LEMMA FlightGoesOn ==
  ASSUME NEW q, NEW refr, NEW tp, NEW exc, FlightOK(q, refr, tp, exc),
         NEW u, NEW land, NEW more, exc \subseteq more, NEW k \in Request, OthersFly(q, u, k),
         NoRequest \notin Request, q[k].dev \in Device \/ ~Refreshes(q[k]),
         \/ ~Refreshes(q[k]) /\ ~Refreshes(u[k]) /\ land = refr
         \/ /\ Refreshes(q[k]) /\ ~Refreshes(u[k])
            /\ land = IF q[k].heard THEN [refr EXCEPT ![q[k].dev] = NoRequest] ELSE refr
         \/ /\ ~Refreshes(q[k]) /\ Refreshes(u[k]) /\ u[k].heard /\ u[k].dev \in Device
            /\ refr[u[k].dev] = NoRequest /\ land = [refr EXCEPT ![u[k].dev] = k]
         \/ /\ Refreshes(q[k]) /\ q[k].heard /\ Refreshes(u[k]) /\ ~u[k].heard
            /\ tp[u[k].with].family \in more
            /\ land = [refr EXCEPT ![q[k].dev] = NoRequest]
  PROVE  FlightOK(u, land, tp, more)
<1>1. /\ refr \in [Device -> Request \cup {NoRequest}]
      /\ \A d \in Device : refr[d] # NoRequest =>
            refr[d] \in Request /\ Refreshes(q[refr[d]]) /\ q[refr[d]].dev = d /\ q[refr[d]].heard
      /\ \A j \in Request : Refreshes(q[j]) =>
            IF q[j].heard THEN refr[q[j].dev] = j ELSE tp[q[j].with].family \in exc
  BY DEF FlightOK
<1>2. \A j \in Request \ {k} :
        /\ Refreshes(u[j]) <=> Refreshes(q[j])
        /\ Refreshes(q[j]) => u[j].dev = q[j].dev /\ u[j].with = q[j].with /\ u[j].heard = q[j].heard
  BY DEF OthersFly
<1>3. CASE ~Refreshes(q[k]) /\ ~Refreshes(u[k]) /\ land = refr
  <2>1. ASSUME NEW d \in Device, refr[d] = k
        PROVE  FALSE
    <3>1. Refreshes(q[refr[d]])
      BY <1>1, <2>1
    <3> QED BY <1>3, <2>1, <3>1
  <2> QED BY <1>1, <1>2, <1>3, <2>1 DEF FlightOK
<1>4. CASE /\ Refreshes(q[k]) /\ ~Refreshes(u[k])
           /\ land = IF q[k].heard THEN [refr EXCEPT ![q[k].dev] = NoRequest] ELSE refr
  <2>1. \A d \in Device : land[d] # NoRequest => land[d] = refr[d] /\ refr[d] # k
    BY <1>1, <1>4
  <2>2. land \in [Device -> Request \cup {NoRequest}]
    <3>1. [refr EXCEPT ![q[k].dev] = NoRequest] \in [Device -> Request \cup {NoRequest}]
      BY <1>1
    <3> QED BY <1>1, <1>4, <3>1
  <2>3. ASSUME NEW j \in Request, Refreshes(u[j]), u[j].heard
        PROVE  land[u[j].dev] = j
    <3>1. j # k /\ Refreshes(q[j]) /\ u[j].dev = q[j].dev /\ q[j].heard /\ refr[q[j].dev] = j
      BY <1>1, <1>2, <1>4, <2>3
    <3>2. q[j].dev # q[k].dev \/ ~q[k].heard
      BY <1>1, <1>4, <3>1
    <3> QED BY <1>1, <1>4, <3>1, <3>2
  <2>4. ASSUME NEW j \in Request, Refreshes(u[j]), ~u[j].heard
        PROVE  tp[u[j].with].family \in more
    BY <1>1, <1>2, <1>4, <2>4
  <2> QED BY <1>1, <1>2, <2>1, <2>2, <2>3, <2>4 DEF FlightOK
<1>5. CASE /\ ~Refreshes(q[k]) /\ Refreshes(u[k]) /\ u[k].heard /\ u[k].dev \in Device
           /\ refr[u[k].dev] = NoRequest /\ land = [refr EXCEPT ![u[k].dev] = k]
  <2>1. land \in [Device -> Request \cup {NoRequest}] /\ land[u[k].dev] = k
    BY <1>1, <1>5
  <2>2. \A d \in Device : land[d] # NoRequest /\ d # u[k].dev => land[d] = refr[d] /\ refr[d] # k
    BY <1>1, <1>5
  <2>3. ASSUME NEW j \in Request, Refreshes(u[j]), u[j].heard
        PROVE  land[u[j].dev] = j
    <3>1. CASE j # k
      <4>1. Refreshes(q[j]) /\ u[j].dev = q[j].dev /\ q[j].heard /\ refr[q[j].dev] = j
        BY <1>1, <1>2, <2>3, <3>1
      <4>2. q[j].dev # u[k].dev
        BY <1>5, <4>1
      <4> QED BY <1>1, <1>5, <4>1, <4>2
    <3> QED BY <2>1, <3>1
  <2>4. ASSUME NEW j \in Request, Refreshes(u[j]), ~u[j].heard
        PROVE  tp[u[j].with].family \in more
    BY <1>1, <1>2, <1>5, <2>4
  <2> QED BY <1>1, <1>2, <1>5, <2>1, <2>2, <2>3, <2>4 DEF FlightOK
<1>6. CASE /\ Refreshes(q[k]) /\ q[k].heard /\ Refreshes(u[k]) /\ ~u[k].heard
           /\ tp[u[k].with].family \in more
           /\ land = [refr EXCEPT ![q[k].dev] = NoRequest]
  <2>1. \A d \in Device : land[d] # NoRequest => land[d] = refr[d] /\ refr[d] # k
    BY <1>1, <1>6
  <2>2. land \in [Device -> Request \cup {NoRequest}]
    BY <1>1, <1>6
  <2>3. ASSUME NEW j \in Request, Refreshes(u[j]), u[j].heard
        PROVE  land[u[j].dev] = j
    <3>1. j # k /\ Refreshes(q[j]) /\ u[j].dev = q[j].dev /\ q[j].heard /\ refr[q[j].dev] = j
      BY <1>1, <1>2, <1>6, <2>3
    <3>2. q[j].dev # q[k].dev
      BY <1>1, <1>6, <3>1
    <3> QED BY <1>1, <1>6, <3>1, <3>2
  <2>4. ASSUME NEW j \in Request, Refreshes(u[j]), ~u[j].heard
        PROVE  tp[u[j].with].family \in more
    BY <1>1, <1>2, <1>6, <2>4
  <2> QED BY <1>1, <1>2, <2>1, <2>2, <2>3, <2>4 DEF FlightOK
<1> QED BY <1>3, <1>4, <1>5, <1>6

\* A call of the program is one.
LEMMA NewCall ==
  ASSUME AuthInv, NEW d \in Device, NEW kind \in Kind, kind = "refresh" => held[d] # 0,
         NEW r, r = NewRequest(d, kind)
  PROVE  /\ CallOK(r, tokenPair, version)
         /\ r.at = "sent" /\ r.dev = d /\ r.kind = kind /\ r.with = held[d] /\ r.body = held[d]
         /\ r.new = 0 /\ r.heard
<1>1. version \in Nat /\ Len(tokenPair) \in Nat
  BY AuthAssumption DEF AuthInv, AuthAssumption, PairsOK
<1>2. held[d] \in 0 .. Len(tokenPair) /\ (held[d] # 0 => tokenPair[held[d]].dev = d)
  BY DEF AuthInv, HeldOK
<1>3. /\ r.at = "sent" /\ r.dev = d /\ r.kind = kind /\ r.with = held[d] /\ r.body = held[d]
      /\ r.new = 0 /\ r.heard /\ r.v = 0 /\ r.seen = 0
  BY DEF NewRequest
<1>4. r \in Call
  BY <1>1, <1>2 DEF NewRequest, Call, State
<1>5. Names(r, tokenPair)
  BY <1>1, <1>2, <1>3 DEF Names
<1>6. StageOK(r, version)
  BY <1>1, <1>3 DEF StageOK
<1> QED BY <1>3, <1>4, <1>5, <1>6 DEF CallOK

\* The calls that waited are sent once more, or end; the others stay.
LEMMA ResumedCalls ==
  ASSUME AuthInv, NEW d \in Device, NEW pair \in 0 .. Len(tokenPair),
         pair # 0 => tokenPair[pair].dev = d,
         NEW q, q = Resumed(d, pair)
  PROVE  /\ q = [j \in Request |-> q[j]]
         /\ \A j \in Request : q[j] = IdleRequest \/ CallOK(q[j], tokenPair, version)
         /\ \A j \in Request :
              \/ q[j] = req[j] /\ j \notin Waiting(d)
              \/ /\ j \in Waiting(d) /\ req[j].dev = d /\ req[j].at = "waiting"
                 /\ req[j].kind \in {"data", "logout", "change"}
                 /\ \/ q[j] = IdleRequest /\ pair = 0
                    \/ /\ pair # 0 /\ q[j].at = "sent" /\ q[j].dev = d /\ q[j].kind = req[j].kind
                       /\ q[j].with = pair /\ q[j].body = req[j].body /\ q[j].new = 0 /\ req[j].new = 0
<1>1. q = [j \in Request |-> q[j]]
  BY DEF Resumed
<1>2. ASSUME NEW j \in Request, j \notin Waiting(d)
      PROVE  q[j] = req[j] /\ (q[j] = IdleRequest \/ CallOK(q[j], tokenPair, version))
  BY <1>2 DEF Resumed, AuthInv, CallsOK
<1>3. ASSUME NEW j \in Request, j \in Waiting(d)
      PROVE  /\ q[j] = IdleRequest \/ CallOK(q[j], tokenPair, version)
             /\ req[j].dev = d /\ req[j].at = "waiting" /\ req[j].kind \in {"data", "logout", "change"}
             /\ \/ q[j] = IdleRequest /\ pair = 0
                \/ /\ pair # 0 /\ q[j].at = "sent" /\ q[j].dev = d /\ q[j].kind = req[j].kind
                   /\ q[j].with = pair /\ q[j].body = req[j].body /\ q[j].new = 0 /\ req[j].new = 0
  <2>1. req[j].at = "waiting" /\ req[j].dev = d
    BY <1>3 DEF Waiting
  <2>2. req[j] \in Call /\ Names(req[j], tokenPair) /\ StageOK(req[j], version)
    BY <2>1, ActiveCall
  <2>3. req[j].kind \in {"data", "logout", "change"} /\ req[j].new = 0
    BY <2>1, <2>2 DEF StageOK
  <2>4. CASE pair = 0
    BY <1>3, <2>1, <2>3, <2>4 DEF Resumed
  <2>5. CASE pair # 0
    <3>1. PICK r : r = [req[j] EXCEPT !.at = "sent", !.with = pair, !.again = TRUE]
      OBVIOUS
    <3>2. q[j] = r
      BY <1>3, <2>5, <3>1 DEF Resumed
    <3>3. Len(tokenPair) \in Nat /\ pair \in Nat
      BY DEF AuthInv, PairsOK
    <3>4. /\ r \in Call /\ r.at = "sent" /\ r.dev = d /\ r.kind = req[j].kind /\ r.with = pair
          /\ r.body = req[j].body /\ r.new = 0 /\ r.heard = req[j].heard /\ r.v = req[j].v /\ r.seen = req[j].seen
      BY <2>1, <2>2, <2>3, <3>1, <3>3 DEF Call, State
    <3>5. Names(r, tokenPair)
      BY <2>1, <2>2, <2>5, <3>3, <3>4 DEF Names
    <3>6. StageOK(r, version)
      BY <2>2, <2>3, <3>4 DEF StageOK
    <3> QED BY <2>1, <2>3, <2>5, <3>2, <3>4, <3>5, <3>6 DEF CallOK
  <2> QED BY <2>4, <2>5
<1> QED BY <1>1, <1>2, <1>3

\* Requests that stay as they are, but for some that are no refreshes.
Beside(q) ==
    /\ CallsOK(q, tokenPair, version)
    /\ \A j \in Request : q[j] = req[j] \/ (~Refreshes(q[j]) /\ ~Refreshes(req[j]))

\* The requests themselves are, and those a refresh has answered.
LEMMA BesideStays ==
  ASSUME AuthInv
  PROVE  Beside(req)
  BY DEF AuthInv, Beside

LEMMA BesideResumed ==
  ASSUME AuthInv, NEW d \in Device, NEW pair \in 0 .. Len(tokenPair),
         pair # 0 => tokenPair[pair].dev = d
  PROVE  Beside(Resumed(d, pair))
<1>1. PICK q : q = Resumed(d, pair)
  OBVIOUS
<1>2. /\ CallsOK(q, tokenPair, version)
      /\ \A j \in Request : \/ q[j] = req[j]
                            \/ /\ req[j].kind \in {"data", "logout", "change"}
                               /\ q[j] = IdleRequest \/ q[j].kind = req[j].kind
  BY <1>1, ResumedCalls DEF CallsOK
<1>3. IdleRequest.at = "idle"
  BY DEF IdleRequest
<1>4. Beside(q)
  BY <1>2, <1>3 DEF Beside, Refreshes
<1> QED BY <1>1, <1>4

\* One request more changes.
Changed(q, k, r, u) == u = [q EXCEPT ![k] = r]

\* What that leaves.
LEMMA AfterCall ==
  ASSUME NEW q, Beside(q), NEW k \in Request, NEW r, r = IdleRequest \/ CallOK(r, tokenPair, version),
         NEW u, Changed(q, k, r, u)
  PROVE  /\ CallsOK(u, tokenPair, version) /\ OthersFly(req, u, k)
         /\ u[k] = r /\ \A j \in Request \ {k} : u[j] = q[j]
<1>1. q = [j \in Request |-> q[j]] /\ \A j \in Request : q[j] = IdleRequest \/ CallOK(q[j], tokenPair, version)
  BY DEF Beside, CallsOK
<1>2. u[k] = r /\ (\A j \in Request \ {k} : u[j] = q[j]) /\ u = [j \in Request |-> u[j]]
  BY <1>1 DEF Changed
<1>3. CallsOK(u, tokenPair, version)
  BY <1>1, <1>2 DEF CallsOK
<1>4. OthersFly(req, u, k)
  BY <1>2 DEF OthersFly, Beside
<1> QED BY <1>2, <1>3, <1>4

\* What a step of the client leaves right.
LEMMA ClientKeeps ==
  ASSUME AuthInv, NEW k \in Request, UNCHANGED <<version, tokenPair, cache, overtaken>>,
         excused \subseteq excused', excused' \subseteq 1 .. Len(tokenPair),
         HeldOK(held', tokenPair), CallsOK(req', tokenPair, version), OthersFly(req, req', k),
         \/ ~Refreshes(req[k]) /\ ~Refreshes(req'[k]) /\ refreshing' = refreshing
         \/ /\ Refreshes(req[k]) /\ ~Refreshes(req'[k])
            /\ refreshing' = IF req[k].heard THEN [refreshing EXCEPT ![req[k].dev] = NoRequest] ELSE refreshing
         \/ /\ ~Refreshes(req[k]) /\ Refreshes(req'[k]) /\ req'[k].heard /\ req'[k].dev \in Device
            /\ refreshing[req'[k].dev] = NoRequest /\ refreshing' = [refreshing EXCEPT ![req'[k].dev] = k]
         \/ /\ Refreshes(req[k]) /\ req[k].heard /\ Refreshes(req'[k]) /\ ~req'[k].heard
            /\ tokenPair[req'[k].with].family \in excused'
            /\ refreshing' = [refreshing EXCEPT ![req[k].dev] = NoRequest]
  PROVE  AuthInv'
<1>1. PICK u, land, more : u = req' /\ land = refreshing' /\ more = excused'
  OBVIOUS
<1>2. FlightOK(req, refreshing, tokenPair, excused) /\ NoRequest \notin Request
  BY AuthAssumption DEF AuthInv, AuthAssumption
<1>3. req[k].dev \in Device \/ ~Refreshes(req[k])
  BY ActiveCall DEF Refreshes, Call
<1>4. \/ ~Refreshes(req[k]) /\ ~Refreshes(u[k]) /\ land = refreshing
      \/ /\ Refreshes(req[k]) /\ ~Refreshes(u[k])
         /\ land = IF req[k].heard THEN [refreshing EXCEPT ![req[k].dev] = NoRequest] ELSE refreshing
      \/ /\ ~Refreshes(req[k]) /\ Refreshes(u[k]) /\ u[k].heard /\ u[k].dev \in Device
         /\ refreshing[u[k].dev] = NoRequest /\ land = [refreshing EXCEPT ![u[k].dev] = k]
      \/ /\ Refreshes(req[k]) /\ req[k].heard /\ Refreshes(u[k]) /\ ~u[k].heard
         /\ tokenPair[u[k].with].family \in more
         /\ land = [refreshing EXCEPT ![req[k].dev] = NoRequest]
  BY <1>1
<1>5. excused \subseteq more /\ OthersFly(req, u, k)
  BY <1>1
<1>6. FlightOK(u, land, tokenPair, more)
  BY <1>2, <1>3, <1>4, <1>5, FlightGoesOn
<1>7. FlightOK(req', refreshing', tokenPair, excused')
  BY <1>1, <1>6
<1> QED BY <1>7 DEF AuthInv

\* What a device signs out of, or is given, is still held right.
LEMMA HeldChanges ==
  ASSUME AuthInv, NEW d \in Device, NEW n \in 0 .. Len(tokenPair), n # 0 => tokenPair[n].dev = d,
         NEW h, h = held \/ h = [held EXCEPT ![d] = n]
  PROVE  HeldOK(h, tokenPair)
<1>1. held \in [Device -> 0 .. Len(tokenPair)] /\ \A e \in Device : held[e] # 0 => tokenPair[held[e]].dev = e
  BY DEF AuthInv, HeldOK
<1>2. CASE h = held
  BY <1>1, <1>2 DEF HeldOK
<1>3. CASE h = [held EXCEPT ![d] = n]
  <2>1. h \in [Device -> 0 .. Len(tokenPair)] /\ h[d] = n /\ \A e \in Device \ {d} : h[e] = held[e]
    BY <1>1, <1>3
  <2> QED BY <1>1, <2>1 DEF HeldOK
<1> QED BY <1>2, <1>3

\* A call of the program keeps the invariant.
LEMMA SendKeeps ==
  ASSUME AuthInv, NEW k \in Request, NEW d \in Device, NEW kind \in Kind, Send(k, d, kind)
  PROVE  AuthInv'
<1>1. /\ req[k].at = "idle" /\ kind # "refresh" /\ req' = [req EXCEPT ![k] = NewRequest(d, kind)]
      /\ UNCHANGED <<version, tokenPair, cache, held, refreshing, excused, overtaken>>
  BY DEF Send
<1>2. PICK r : r = NewRequest(d, kind)
  OBVIOUS
<1>3. CallOK(r, tokenPair, version) /\ r.kind = kind
  BY <1>1, <1>2, NewCall
<1>4. PICK u : Changed(req, k, r, u)
  BY DEF Changed
<1>5. CallsOK(u, tokenPair, version) /\ OthersFly(req, u, k) /\ u[k] = r
  BY <1>3, <1>4, BesideStays, AfterCall
<1>6. req' = u
  BY <1>1, <1>2, <1>4 DEF Changed
<1>7. ~Refreshes(req[k]) /\ ~Refreshes(u[k])
  BY <1>1, <1>3, <1>5 DEF Refreshes
<1>8. HeldOK(held', tokenPair) /\ excused' \subseteq 1 .. Len(tokenPair)
  BY <1>1 DEF AuthInv
<1> QED BY <1>1, <1>5, <1>6, <1>7, <1>8, ClientKeeps

\* Steps that end a request, and answer the calls that waited for it.
Ends(k) == Answered(k) \/ Failed(k) \/ RefreshRefused(k) \/ Unheard(k)

\* What a request that ends leaves: the calls that waited, if somebody waited, and the
\* pair its device holds.
LEMMA Ending ==
  ASSUME AuthInv, NEW k \in Request, Ends(k)
  PROVE  /\ \E q, r :
              /\ req' = [q EXCEPT ![k] = r]
              /\ r = IdleRequest \/ (req[k].kind = "change" /\ r = NewRequest(req[k].dev, "login"))
              /\ IF req[k].kind = "refresh" /\ req[k].heard
                 THEN \/ req[k].at = "done" /\ q = Resumed(req[k].dev, req[k].new)
                      \/ req[k].at = "refused" /\ q = Resumed(req[k].dev, 0)
                 ELSE q = req
         /\ req[k].at # "idle" /\ UNCHANGED <<version, tokenPair, cache, excused, overtaken>>
         /\ refreshing' = IF req[k].kind = "refresh" /\ req[k].heard
                          THEN [refreshing EXCEPT ![req[k].dev] = NoRequest] ELSE refreshing
         /\ \/ /\ req[k].kind \in {"login", "refresh"} /\ req[k].at = "done" /\ req[k].heard
               /\ held' = [held EXCEPT ![req[k].dev] = req[k].new]
            \/ /\ req[k].kind \in {"logout", "refresh"} /\ req[k].heard
               /\ req[k].kind = "refresh" => req[k].at = "refused"
               /\ held' = [held EXCEPT ![req[k].dev] = 0]
            \/ /\ held' = held /\ (req[k].heard => req[k].kind \notin {"logout", "refresh"})
<1>1. req[k].at # "idle"
  BY DEF Ends, Answered, Failed, RefreshRefused, Unheard
<1>2. req[k].heard \in BOOLEAN /\ req[k].kind \in Kind /\ (req[k].kind # "refresh" => req[k].heard)
  BY <1>1, ActiveCall DEF Call, StageOK
<1>3. CASE Answered(k)
  <2>1. CASE req[k].kind = "refresh"
    <3>1. PICK q : q = Resumed(req[k].dev, req[k].new)
      OBVIOUS
    <3>2. req' = [q EXCEPT ![k] = IdleRequest]
      BY <1>3, <2>1, <3>1 DEF Answered
    <3>3. /\ req[k].at = "done" /\ req[k].heard /\ UNCHANGED <<version, tokenPair, cache, excused, overtaken>>
          /\ held' = [held EXCEPT ![req[k].dev] = req[k].new]
          /\ refreshing' = [refreshing EXCEPT ![req[k].dev] = NoRequest]
      BY <1>3, <2>1 DEF Answered, HeldAfter
    <3> QED BY <1>1, <2>1, <3>1, <3>2, <3>3
  <2>2. CASE req[k].kind # "refresh"
    <3>1. PICK r : r = IF req[k].kind = "change" THEN NewRequest(req[k].dev, "login") ELSE IdleRequest
      OBVIOUS
    <3>2. req' = [req EXCEPT ![k] = r]
      BY <1>3, <2>2, <3>1 DEF Answered
    <3>3. /\ req[k].at = "done" /\ req[k].heard /\ UNCHANGED <<version, tokenPair, cache, excused, overtaken>>
          /\ held' = HeldAfter(k) /\ refreshing' = refreshing
      BY <1>3, <2>2 DEF Answered
    <3>4. \/ req[k].kind = "login" /\ held' = [held EXCEPT ![req[k].dev] = req[k].new]
          \/ req[k].kind = "logout" /\ held' = [held EXCEPT ![req[k].dev] = 0]
          \/ req[k].kind \notin {"login", "logout"} /\ held' = held
      BY <1>2, <2>2, <3>3 DEF HeldAfter, Kind
    <3> QED BY <1>1, <2>2, <3>1, <3>2, <3>3, <3>4
  <2> QED BY <2>1, <2>2
<1>4. CASE Failed(k)
  <2>1. /\ req[k].kind # "refresh" /\ req' = [req EXCEPT ![k] = IdleRequest]
        /\ held' = IF req[k].kind = "logout" THEN [held EXCEPT ![req[k].dev] = 0] ELSE held
        /\ UNCHANGED <<version, tokenPair, cache, refreshing, excused, overtaken>>
    BY <1>4 DEF Failed
  <2> QED BY <1>1, <1>2, <2>1
<1>5. CASE RefreshRefused(k)
  <2>1. PICK q : q = IF req[k].heard THEN Resumed(req[k].dev, 0) ELSE req
    OBVIOUS
  <2>2. req' = [q EXCEPT ![k] = IdleRequest]
    BY <1>5, <2>1 DEF RefreshRefused
  <2>3. /\ req[k].at = "refused" /\ req[k].kind = "refresh"
        /\ held' = IF req[k].heard THEN [held EXCEPT ![req[k].dev] = 0] ELSE held
        /\ refreshing' = IF req[k].heard THEN [refreshing EXCEPT ![req[k].dev] = NoRequest] ELSE refreshing
        /\ UNCHANGED <<version, tokenPair, cache, excused, overtaken>>
    BY <1>5 DEF RefreshRefused
  <2>4. CASE req[k].heard
    BY <1>1, <2>1, <2>2, <2>3, <2>4
  <2>5. CASE ~req[k].heard
    BY <1>1, <2>1, <2>2, <2>3, <2>5
  <2> QED BY <2>4, <2>5
<1>6. CASE Unheard(k)
  <2>1. /\ ~req[k].heard /\ req' = [req EXCEPT ![k] = IdleRequest]
        /\ UNCHANGED <<version, tokenPair, cache, held, refreshing, excused, overtaken>>
    BY <1>6 DEF Unheard
  <2> QED BY <1>1, <1>2, <2>1
<1> QED BY <1>3, <1>4, <1>5, <1>6 DEF Ends

\* A request that ends keeps the invariant.
LEMMA EndsKeep ==
  ASSUME AuthInv, NEW k \in Request, Ends(k)
  PROVE  AuthInv'
<1>1. PICK q, r :
        /\ req' = [q EXCEPT ![k] = r]
        /\ r = IdleRequest \/ (req[k].kind = "change" /\ r = NewRequest(req[k].dev, "login"))
        /\ IF req[k].kind = "refresh" /\ req[k].heard
           THEN \/ req[k].at = "done" /\ q = Resumed(req[k].dev, req[k].new)
                \/ req[k].at = "refused" /\ q = Resumed(req[k].dev, 0)
           ELSE q = req
  BY Ending
<1>2. /\ req[k].at # "idle" /\ UNCHANGED <<version, tokenPair, cache, excused, overtaken>>
      /\ refreshing' = IF req[k].kind = "refresh" /\ req[k].heard
                       THEN [refreshing EXCEPT ![req[k].dev] = NoRequest] ELSE refreshing
      /\ \/ held' = [held EXCEPT ![req[k].dev] = req[k].new]
         \/ held' = [held EXCEPT ![req[k].dev] = 0]
         \/ held' = held
  BY Ending
<1>3. req[k] \in Call /\ Names(req[k], tokenPair) /\ StageOK(req[k], version)
  BY <1>2, ActiveCall
<1>4. /\ req[k].dev \in Device /\ req[k].new \in 0 .. Len(tokenPair) /\ 0 \in 0 .. Len(tokenPair)
      /\ req[k].new # 0 => tokenPair[req[k].new].dev = req[k].dev
      /\ req[k].heard \in BOOLEAN
  <2>1. Len(tokenPair) \in Nat
    BY DEF AuthInv, PairsOK
  <2> QED BY <1>3, <2>1 DEF Call, Names
<1>5. HeldOK(held', tokenPair)
  <2>1. PICK h : h = held'
    OBVIOUS
  <2>2. CASE h = [held EXCEPT ![req[k].dev] = req[k].new]
    BY <1>4, <2>1, <2>2, HeldChanges
  <2>3. CASE h = [held EXCEPT ![req[k].dev] = 0] \/ h = held
    BY <1>4, <2>1, <2>3, HeldChanges
  <2> QED BY <1>2, <2>1, <2>2, <2>3
<1>6. Beside(q)
  <2>1. CASE q = req
    BY <2>1, BesideStays
  <2>2. CASE q = Resumed(req[k].dev, req[k].new)
    BY <1>4, <2>2, BesideResumed
  <2>3. CASE q = Resumed(req[k].dev, 0)
    BY <1>4, <2>3, BesideResumed
  <2> QED BY <1>1, <2>1, <2>2, <2>3
<1>7. r = IdleRequest \/ CallOK(r, tokenPair, version)
  BY <1>1, <1>4, NewCall DEF Kind
<1>8. ~Refreshes(r)
  <2>1. CASE r = IdleRequest
    BY <2>1 DEF IdleRequest, Refreshes
  <2>2. CASE r = NewRequest(req[k].dev, "login")
    BY <1>4, <2>2, NewCall DEF Refreshes, Kind
  <2> QED BY <1>1, <2>1, <2>2
<1>9. PICK u : Changed(q, k, r, u)
  BY DEF Changed
<1>10. CallsOK(u, tokenPair, version) /\ OthersFly(req, u, k) /\ u[k] = r
  BY <1>6, <1>7, <1>9, AfterCall
<1>11. req' = u
  BY <1>1, <1>9 DEF Changed
<1>12. CASE Refreshes(req[k])
  <2>1. refreshing' = IF req[k].heard THEN [refreshing EXCEPT ![req[k].dev] = NoRequest] ELSE refreshing
    BY <1>2, <1>12 DEF Refreshes
  <2>2. excused' \subseteq 1 .. Len(tokenPair) /\ excused \subseteq excused'
    BY <1>2 DEF AuthInv
  <2> QED BY <1>2, <1>5, <1>8, <1>10, <1>11, <1>12, <2>1, <2>2, ClientKeeps
<1>13. CASE ~Refreshes(req[k])
  <2>1. refreshing' = refreshing
    BY <1>2, <1>13 DEF Refreshes
  <2>2. excused' \subseteq 1 .. Len(tokenPair) /\ excused \subseteq excused'
    BY <1>2 DEF AuthInv
  <2> QED BY <1>2, <1>5, <1>8, <1>10, <1>11, <1>13, <2>1, <2>2, ClientKeeps
<1> QED BY <1>12, <1>13

\* What a refresh that starts leaves: the call that waits, and the refresh.
LEMMA Starting ==
  ASSUME AuthInv, NEW k \in Request, NEW j \in Request, StartRefresh(k, j)
  PROVE  \E q, w, r :
           /\ q = [req EXCEPT ![k] = w] /\ req' = [q EXCEPT ![j] = r] /\ j # k
           /\ req[k].at = "refused" /\ req[j].at = "idle"
           /\ CallOK(w, tokenPair, version) /\ w.at = "waiting" /\ w.dev = req[k].dev /\ w.kind = req[k].kind
           /\ w.with = req[k].with /\ w.body = req[k].body /\ w.heard = req[k].heard
           /\ w.new = 0 /\ req[k].new = 0 /\ w.kind # "refresh"
           /\ CallOK(r, tokenPair, version) /\ r.at = "sent" /\ r.kind = "refresh" /\ r.heard /\ r.new = 0
           /\ r.dev = req[k].dev /\ r.with = held[r.dev] /\ r.body = held[r.dev]
           /\ r.dev \in Device /\ refreshing[r.dev] = NoRequest /\ refreshing' = [refreshing EXCEPT ![r.dev] = j]
           /\ UNCHANGED <<version, tokenPair, cache, held, excused, overtaken>>
<1>1. /\ req[k].at = "refused" /\ req[k].kind \in {"data", "logout", "change"} /\ req[j].at = "idle"
      /\ held[req[k].dev] # 0 /\ refreshing[req[k].dev] = NoRequest
      /\ req' = [req EXCEPT ![k].at = "waiting", ![j] = NewRequest(req[k].dev, "refresh")]
      /\ refreshing' = [refreshing EXCEPT ![req[k].dev] = j]
      /\ UNCHANGED <<version, tokenPair, cache, held, excused, overtaken>>
  BY DEF StartRefresh, RefusedOnce, MayRefresh
<1>2. req[k] \in Call /\ Names(req[k], tokenPair) /\ StageOK(req[k], version)
  BY <1>1, ActiveCall
<1>3. PICK w : w = [req[k] EXCEPT !.at = "waiting"]
  OBVIOUS
<1>4. /\ w \in Call /\ w.at = "waiting" /\ w.dev = req[k].dev /\ w.kind = req[k].kind
      /\ w.with = req[k].with /\ w.body = req[k].body /\ w.heard = req[k].heard /\ w.new = req[k].new
      /\ w.v = req[k].v /\ w.seen = req[k].seen
  BY <1>2, <1>3 DEF Call, State
<1>5. req[k].new = 0
  BY <1>1, <1>2 DEF StageOK
<1>6. Names(w, tokenPair) /\ StageOK(w, version)
  BY <1>1, <1>2, <1>4, <1>5 DEF Names, StageOK
<1>7. PICK r : r = NewRequest(req[k].dev, "refresh")
  OBVIOUS
<1>8. req[k].dev \in Device
  BY <1>2 DEF Call
<1>9. /\ CallOK(r, tokenPair, version) /\ r.at = "sent" /\ r.kind = "refresh" /\ r.heard /\ r.new = 0
      /\ r.dev = req[k].dev /\ r.with = held[r.dev] /\ r.body = held[r.dev]
  BY <1>1, <1>7, <1>8, NewCall DEF Kind
<1>10. PICK q : q = [req EXCEPT ![k] = w]
  OBVIOUS
<1>11. req' = [q EXCEPT ![j] = r]
  BY <1>1, <1>3, <1>7, <1>10
<1>12. j # k
  BY <1>1
<1>13. CallOK(w, tokenPair, version)
  BY <1>4, <1>6 DEF CallOK
<1>14. /\ r.dev \in Device /\ refreshing[r.dev] = NoRequest /\ refreshing' = [refreshing EXCEPT ![r.dev] = j]
       /\ w.new = 0 /\ w.kind # "refresh"
  BY <1>1, <1>4, <1>5, <1>8, <1>9
<1> QED BY <1>1, <1>4, <1>5, <1>9, <1>10, <1>11, <1>12, <1>13, <1>14, Zenon

\* A refresh that starts keeps the invariant.
LEMMA StartKeeps ==
  ASSUME AuthInv, NEW k \in Request, NEW j \in Request, StartRefresh(k, j)
  PROVE  AuthInv'
<1>1. PICK q, w, r :
           /\ q = [req EXCEPT ![k] = w] /\ req' = [q EXCEPT ![j] = r] /\ j # k
           /\ req[k].at = "refused" /\ req[j].at = "idle"
           /\ CallOK(w, tokenPair, version) /\ w.at = "waiting" /\ w.dev = req[k].dev /\ w.kind = req[k].kind
           /\ w.with = req[k].with /\ w.body = req[k].body /\ w.heard = req[k].heard
           /\ w.new = 0 /\ req[k].new = 0 /\ w.kind # "refresh"
           /\ CallOK(r, tokenPair, version) /\ r.at = "sent" /\ r.kind = "refresh" /\ r.heard /\ r.new = 0
           /\ r.dev = req[k].dev /\ r.with = held[r.dev] /\ r.body = held[r.dev]
           /\ r.dev \in Device /\ refreshing[r.dev] = NoRequest /\ refreshing' = [refreshing EXCEPT ![r.dev] = j]
           /\ UNCHANGED <<version, tokenPair, cache, held, excused, overtaken>>
  BY Starting
<1>2. CallsOK(q, tokenPair, version) /\ q[k] = w /\ \A i \in Request \ {k} : q[i] = req[i]
  <2>1. Changed(req, k, w, q) /\ CallOK(w, tokenPair, version)
    BY <1>1 DEF Changed
  <2> QED BY <2>1, BesideStays, AfterCall
<1>3. Beside(q)
  BY <1>1, <1>2 DEF Beside, Refreshes
<1>4. PICK u : Changed(q, j, r, u)
  BY DEF Changed
<1>5. CallsOK(u, tokenPair, version) /\ OthersFly(req, u, j) /\ u[j] = r
  BY <1>1, <1>3, <1>4, AfterCall
<1>6. req' = u
  BY <1>1, <1>4 DEF Changed
<1>7. ~Refreshes(req[j]) /\ Refreshes(u[j])
  BY <1>1, <1>5 DEF Refreshes
<1>8. HeldOK(held', tokenPair) /\ excused' \subseteq 1 .. Len(tokenPair)
  BY <1>1 DEF AuthInv
<1> QED BY <1>1, <1>5, <1>6, <1>7, <1>8, ClientKeeps

\* What a refresh that is given up leaves.
LEMMA Losing ==
  ASSUME AuthInv, NEW k \in Request, RefreshLost(k)
  PROVE  \E q, r :
           /\ q = Resumed(req[k].dev, 0) /\ req' = [q EXCEPT ![k] = r]
           /\ req[k].at # "idle" /\ req[k].kind = "refresh" /\ req[k].heard
           /\ CallOK(r, tokenPair, version) /\ r.at = req[k].at /\ r.dev = req[k].dev /\ r.kind = "refresh"
           /\ r.with = req[k].with /\ r.body = req[k].body /\ ~r.heard /\ r.new = req[k].new
           /\ r.dev \in Device /\ req[k].with \in 1 .. Len(tokenPair)
           /\ refreshing' = [refreshing EXCEPT ![req[k].dev] = NoRequest]
           /\ excused' = excused \cup {tokenPair[req[k].with].family}
           /\ held' = IF \E j \in Waiting(req[k].dev) : req[j].kind = "logout"
                      THEN [held EXCEPT ![req[k].dev] = 0] ELSE held
           /\ UNCHANGED <<version, tokenPair, cache, overtaken>>
<1>1. /\ req[k].at # "idle" /\ req[k].kind = "refresh" /\ req[k].heard
      /\ refreshing' = [refreshing EXCEPT ![req[k].dev] = NoRequest]
      /\ excused' = excused \cup {tokenPair[req[k].with].family}
      /\ held' = IF \E j \in Waiting(req[k].dev) : req[j].kind = "logout"
                 THEN [held EXCEPT ![req[k].dev] = 0] ELSE held
      /\ req' = [Resumed(req[k].dev, 0) EXCEPT ![k].heard = FALSE]
      /\ UNCHANGED <<version, tokenPair, cache, overtaken>>
  BY DEF RefreshLost
<1>2. req[k] \in Call /\ Names(req[k], tokenPair) /\ StageOK(req[k], version)
  BY <1>1, ActiveCall
<1>3. PICK q : q = Resumed(req[k].dev, 0)
  OBVIOUS
<1>4. q[k] = req[k]
  <2>1. k \notin Waiting(req[k].dev)
    BY <1>1, <1>2 DEF Waiting, StageOK
  <2> QED BY <1>3, <2>1 DEF Resumed
<1>5. PICK r : r = [req[k] EXCEPT !.heard = FALSE]
  OBVIOUS
<1>6. /\ r \in Call /\ r.at = req[k].at /\ r.dev = req[k].dev /\ r.kind = req[k].kind
      /\ r.with = req[k].with /\ r.body = req[k].body /\ ~r.heard /\ r.new = req[k].new
      /\ r.v = req[k].v /\ r.seen = req[k].seen
  BY <1>2, <1>5 DEF Call
<1>7. Names(r, tokenPair) /\ StageOK(r, version)
  BY <1>1, <1>2, <1>6 DEF Names, StageOK
<1>8. req' = [q EXCEPT ![k] = r]
  BY <1>1, <1>3, <1>4, <1>5
<1>9. r.dev \in Device /\ req[k].with \in 1 .. Len(tokenPair)
  <2>1. Len(tokenPair) \in Nat
    BY DEF AuthInv, PairsOK
  <2> QED BY <1>1, <1>2, <1>6, <2>1 DEF Call, Names, StageOK
<1> QED BY <1>1, <1>3, <1>6, <1>7, <1>8, <1>9 DEF CallOK

\* A refresh that is given up keeps the invariant.
LEMMA LostKeeps ==
  ASSUME AuthInv, NEW k \in Request, RefreshLost(k)
  PROVE  AuthInv'
<1>1. PICK q, r :
           /\ q = Resumed(req[k].dev, 0) /\ req' = [q EXCEPT ![k] = r]
           /\ req[k].at # "idle" /\ req[k].kind = "refresh" /\ req[k].heard
           /\ CallOK(r, tokenPair, version) /\ r.at = req[k].at /\ r.dev = req[k].dev /\ r.kind = "refresh"
           /\ r.with = req[k].with /\ r.body = req[k].body /\ ~r.heard /\ r.new = req[k].new
           /\ r.dev \in Device /\ req[k].with \in 1 .. Len(tokenPair)
           /\ refreshing' = [refreshing EXCEPT ![req[k].dev] = NoRequest]
           /\ excused' = excused \cup {tokenPair[req[k].with].family}
           /\ held' = IF \E j \in Waiting(req[k].dev) : req[j].kind = "logout"
                      THEN [held EXCEPT ![req[k].dev] = 0] ELSE held
           /\ UNCHANGED <<version, tokenPair, cache, overtaken>>
  BY Losing
<1>2. 0 \in 0 .. Len(tokenPair) /\ req[k].dev \in Device
  <2>1. Len(tokenPair) \in Nat
    BY DEF AuthInv, PairsOK
  <2> QED BY <1>1, <2>1
<1>3. Beside(q)
  BY <1>1, <1>2, BesideResumed
<1>4. PICK u : Changed(q, k, r, u)
  BY DEF Changed
<1>5. CallsOK(u, tokenPair, version) /\ OthersFly(req, u, k) /\ u[k] = r
  BY <1>1, <1>3, <1>4, AfterCall
<1>6. req' = u
  BY <1>1, <1>4 DEF Changed
<1>7. HeldOK(held', tokenPair)
  <2>1. PICK h : h = held'
    OBVIOUS
  <2> QED BY <1>1, <1>2, <2>1, HeldChanges
<1>8. excused \subseteq excused' /\ excused' \subseteq 1 .. Len(tokenPair)
  <2>1. tokenPair[req[k].with].family \in 1 .. req[k].with
    BY <1>1 DEF AuthInv, PairsOK
  <2>2. tokenPair[req[k].with].family \in 1 .. Len(tokenPair)
    <3>1. Len(tokenPair) \in Nat
      BY DEF AuthInv, PairsOK
    <3> QED BY <1>1, <2>1, <3>1
  <2> QED BY <1>1, <2>2 DEF AuthInv
<1>9. /\ Refreshes(req[k]) /\ Refreshes(req'[k]) /\ ~req'[k].heard
      /\ tokenPair[req'[k].with].family \in excused'
  BY <1>1, <1>5, <1>6 DEF Refreshes
<1> QED BY <1>1, <1>5, <1>6, <1>7, <1>8, <1>9, ClientKeeps

----------------------------------------------------------------------------
(* The invariant of versions, pairs and requests *)

\* Every step of the server keeps the invariant.
LEMMA HandleKeeps ==
  ASSUME AuthInv, NEW k \in Request, Handle(k) \/ JoinRefresh(k)
  PROVE  AuthInv'
<1>1. /\ version \in Nat /\ version \in 1 .. MaxVersion /\ MaxVersion \in Nat /\ cache \in 0 .. version
      /\ overtaken \in BOOLEAN
      /\ tokenPair \in Seq(Issued) /\ PairsOK(tokenPair, version) /\ excused \subseteq 1 .. Len(tokenPair)
  BY AuthAssumption DEF AuthInv, AuthAssumption, PairsOK
<1>2. version \in version .. MaxVersion
  BY <1>1
<1>3. Onward(tokenPair, tokenPair)
  BY <1>1, Staying
<1>4. CASE Quiet(k)
  <2>1. PICK r : Advance(k, r) /\ CallOK(r, tokenPair, version)
    BY <1>4, QuietCall
  <2>2. UNCHANGED <<version, tokenPair, held, refreshing, excused>> /\ cache' \in 0 .. version /\ overtaken' \in BOOLEAN
    BY <1>4, QuietCall
  <2> QED BY <1>1, <1>2, <1>3, <2>1, <2>2, ServerKeeps
<1>5. CASE RefreshFind(k) /\ tokenPair[req[k].with].live
  <2>1. PICK r : Advance(k, r) /\ CallOK(r, tokenPair, version)
    BY <1>5, FindingCall
  <2>2. UNCHANGED <<version, tokenPair, cache, held, refreshing, excused, overtaken>>
    BY <1>5, FindingCall
  <2> QED BY <1>1, <1>2, <1>3, <2>1, <2>2, ServerKeeps
<1>6. CASE Revokes(k)
  <2>1. PICK r, I : Advance(k, r) /\ CallOK(r, tokenPair, version) /\ tokenPair' = Revoked(I)
    BY <1>6, RevokingCall
  <2>2. /\ UNCHANGED <<cache, held, refreshing, overtaken>> /\ version' \in version .. MaxVersion
        /\ excused \subseteq excused' /\ excused' \subseteq Pair
    BY <1>6, RevokingCall
  <2>3. /\ Onward(tokenPair, tokenPair') /\ PairsOK(tokenPair', version)
        /\ Len(tokenPair') = Len(tokenPair)
    <3>1. PICK up : up = Revoked(I)
      OBVIOUS
    <3>2. Onward(tokenPair, up) /\ PairsOK(up, version) /\ Len(up) = Len(tokenPair)
      BY <1>1, <3>1, Revoking
    <3> QED BY <2>1, <3>1, <3>2
  <2>4. version' \in Nat /\ version <= version'
    BY <1>1, <2>2
  <2>5. PairsOK(tokenPair', version')
    <3>1. PICK up, next : up = tokenPair' /\ next = version'
      OBVIOUS
    <3>2. PairsOK(up, next)
      BY <1>1, <2>3, <2>4, <3>1, Staying
    <3> QED BY <3>1, <3>2
  <2>6. CallOK(r, tokenPair', version')
    <3>1. PICK up, next : up = tokenPair' /\ next = version'
      OBVIOUS
    <3>2. CallOK(r, up, next)
      BY <1>1, <2>1, <2>3, <2>4, <3>1, CallOnward
    <3> QED BY <3>1, <3>2
  <2>7. cache' \in 0 .. version' /\ overtaken' \in BOOLEAN /\ excused' \subseteq 1 .. Len(tokenPair')
    BY <1>1, <2>2, <2>3, <2>4 DEF Pair
  <2> QED BY <2>1, <2>2, <2>3, <2>5, <2>6, <2>7, ServerKeeps
<1>7. CASE Issues(k)
  <2>1. PICK r, tp, p : /\ Advance(k, r) /\ CallOK(r, tokenPair', version)
                        /\ Onward(tokenPair, tp) /\ Len(tp) = Len(tokenPair)
                        /\ Onward(tp, tokenPair') /\ PairsOK(tokenPair', version)
    BY <1>7, IssuingCall
  <2>2. /\ UNCHANGED <<version, held, refreshing, excused>>
        /\ cache' \in 0 .. version /\ overtaken' \in BOOLEAN
    BY <1>7, IssuingCall
  <2>3. Onward(tokenPair, tokenPair')
    BY <2>1 DEF Onward
  <2>4. excused' \subseteq 1 .. Len(tokenPair')
    <3>1. Len(tokenPair) \in Nat /\ Len(tokenPair') \in Nat /\ Len(tokenPair) <= Len(tokenPair')
      BY <1>1, <2>3 DEF Onward
    <3> QED BY <1>1, <2>2, <3>1
  <2> QED BY <1>1, <1>2, <2>1, <2>2, <2>3, <2>4, ServerKeeps
<1> QED BY <1>4, <1>5, <1>6, <1>7 DEF Handle, Quiet, Revokes, Issues

\* The cache, a role and an expiring token.
LEMMA AsideKeeps ==
  ASSUME AuthInv, CacheExpires \/ GrantRole \/ \E i \in 1 .. MaxIssued : AccessExpires(i)
  PROVE  AuthInv'
<1>1. PICK up, next : up = tokenPair' /\ next = version'
  OBVIOUS
<1>2. /\ version \in Nat /\ MaxVersion \in Nat /\ version \in 1 .. MaxVersion /\ cache \in 0 .. version
      /\ tokenPair \in Seq(Issued) /\ PairsOK(tokenPair, version)
  BY AuthAssumption DEF AuthInv, AuthAssumption, PairsOK
<1>3. /\ UNCHANGED <<held, refreshing, req, excused>>
      /\ next \in Nat /\ version <= next /\ next \in 1 .. MaxVersion /\ cache' \in 0 .. next /\ overtaken' \in BOOLEAN
      /\ Onward(tokenPair, up) /\ PairsOK(up, version) /\ Len(up) = Len(tokenPair)
  <2>1. CASE CacheExpires \/ GrantRole
    <3>1. Onward(tokenPair, tokenPair)
      BY <1>2, Staying
    <3>2. overtaken' \in BOOLEAN
      BY <2>1 DEF CacheExpires, GrantRole
    <3> QED BY <1>1, <1>2, <2>1, <3>1, <3>2 DEF CacheExpires, GrantRole
  <2>2. CASE \E i \in 1 .. MaxIssued : AccessExpires(i)
    <3>1. PICK i \in Pair : up = [tokenPair EXCEPT ![i].fresh = FALSE]
      BY <1>1, <2>2 DEF AccessExpires
    <3>2. UNCHANGED <<version, cache, held, refreshing, req, excused, overtaken>>
      BY <2>2 DEF AccessExpires
    <3>3. Onward(tokenPair, up) /\ PairsOK(up, version) /\ Len(up) = Len(tokenPair)
      BY <1>2, <3>1, Expiring
    <3> QED BY <1>1, <1>2, <3>2, <3>3 DEF AuthInv
  <2> QED BY <2>1, <2>2
<1>4. PairsOK(up, next)
  BY <1>2, <1>3, Staying
<1>5. HeldOK(held, up)
  BY <1>2, <1>3, HeldOnward DEF AuthInv
<1>6. CallsOK(req, up, next)
  BY <1>2, <1>3, CallOnward DEF AuthInv, CallsOK
<1>7. FlightOK(req, refreshing, up, excused)
  <2>1. ASSUME NEW j \in Request, Refreshes(req[j])
        PROVE  up[req[j].with].family = tokenPair[req[j].with].family
    <3>1. Names(req[j], tokenPair) /\ StageOK(req[j], version)
      BY <2>1, ActiveCall DEF Refreshes
    <3>2. req[j].with \in 1 .. Len(tokenPair)
      BY <1>2, <2>1, <3>1 DEF Names, StageOK, Refreshes
    <3> QED BY <1>3, <3>2 DEF Onward
  <2>2. FlightOK(req, refreshing, tokenPair, excused)
    BY DEF AuthInv
  <2> QED BY <2>1, <2>2 DEF FlightOK
<1>8. excused \subseteq 1 .. Len(up)
  BY <1>3 DEF AuthInv
<1> QED BY <1>1, <1>3, <1>4, <1>5, <1>6, <1>7, <1>8 DEF AuthInv

\* The invariant holds at the start.
LEMMA InitAuth ==
  ASSUME AuthInit
  PROVE  AuthInv /\ SessionInv
<1>1. /\ version = 1 /\ cache = 0 /\ tokenPair = <<>> /\ held = [d \in Device |-> 0]
      /\ refreshing = [d \in Device |-> NoRequest] /\ req = [k \in Request |-> IdleRequest]
      /\ excused = {} /\ overtaken = FALSE /\ Len(tokenPair) = 0
  BY DEF AuthInit
<1>2. \A k \in Request : ~Refreshes(req[k]) /\ ~Active(req[k]) /\ req[k] = IdleRequest
  BY <1>1 DEF Refreshes, Active, IdleRequest
<1>3. 1 \in 1 .. MaxVersion /\ 0 \in 0 .. 1
  BY AuthAssumption DEF AuthAssumption
<1>4. PairsOK(tokenPair, version)
  BY <1>1 DEF PairsOK
<1>5. HeldOK(held, tokenPair) /\ CallsOK(req, tokenPair, version) /\ FlightOK(req, refreshing, tokenPair, excused)
  BY <1>1, <1>2 DEF HeldOK, CallsOK, FlightOK
<1>6. Secret(req, held, tokenPair)
  BY <1>2 DEF Secret
<1>7. OneLive(req, tokenPair, excused)
  BY <1>1, <1>2 DEF OneLive
<1>8. HeldLive(req, held, refreshing, tokenPair, excused)
  BY <1>1, <1>2 DEF HeldLive
<1> QED BY <1>1, <1>3, <1>4, <1>5, <1>6, <1>7, <1>8 DEF AuthInv, SessionInv

\* Every step keeps the invariant.
LEMMA StepAuth ==
  ASSUME AuthInv, [AuthNext]_authVars
  PROVE  AuthInv'
<1>1. ASSUME NEW k \in Request, Client(k)
      PROVE  AuthInv'
  BY <1>1, SendKeeps, EndsKeep, StartKeeps, LostKeeps, HandleKeeps DEF Client, Ends
<1>2. CASE UNCHANGED authVars
  BY <1>2 DEF authVars, AuthInv
<1> QED BY <1>1, <1>2, HandleKeeps, AsideKeeps DEF AuthNext

\* Pairs, versions and requests fit together: a pair is of the device it was issued to and
\* of a family of that device, a request names pairs of its device, and a device waits for
\* one refresh at a time.
THEOREM AuthInvariant == AuthSpec => []AuthInv
<1>1. AuthInit => AuthInv
  BY InitAuth
<1> QED BY <1>1, StepAuth, PTL DEF AuthSpec

\* Every state of the sessions is well typed.
THEOREM SessionsTypeCorrect == AuthSpec => []AuthTypeOK
<1>1. ASSUME AuthInv
      PROVE  AuthTypeOK
  <2>1. /\ version \in Nat /\ MaxVersion \in Nat /\ version \in 1 .. MaxVersion /\ cache \in 0 .. version
        /\ tokenPair \in Seq(Issued) /\ PairsOK(tokenPair, version)
    BY <1>1, AuthAssumption DEF AuthInv, AuthAssumption, PairsOK
  <2>2. cache \in 0 .. MaxVersion
    BY <2>1
  <2>3. \A i \in Pair : /\ tokenPair[i].dev \in Device /\ tokenPair[i].family \in 1 .. i
                        /\ tokenPair[i].v \in 1 .. version
    <3>1. \A i \in Pair : tokenPair[i] \in Issued
      BY <2>1 DEF Pair
    <3>2. \A i \in Pair : tokenPair[i].dev \in Device
      BY <3>1 DEF Issued
    <3> QED BY <2>1, <3>2 DEF PairsOK, Pair
  <2>4. 0 .. Len(tokenPair) = {0} \cup Pair
    <3>1. Len(tokenPair) \in Nat
      BY <2>1
    <3> QED BY <3>1 DEF Pair
  <2>5. held \in [Device -> {0} \cup Pair]
    BY <1>1, <2>4 DEF AuthInv, HeldOK
  <2>6. ASSUME NEW k \in Request, req[k].at # "idle"
        PROVE  req[k].kind \in Kind /\ {req[k].with, req[k].new} \subseteq {0} \cup Pair
    <3>1. req[k] \in Call /\ Names(req[k], tokenPair)
      BY <1>1, <2>6, ActiveCall
    <3>2. req[k].kind \in Kind
      BY <3>1 DEF Call
    <3> QED BY <2>4, <3>1, <3>2 DEF Names
  <2>7. \A d \in Device : refreshing[d] # NoRequest =>
          /\ req[refreshing[d]].at # "idle" /\ req[refreshing[d]].kind = "refresh" /\ req[refreshing[d]].dev = d
    BY <1>1 DEF AuthInv, FlightOK, Refreshes
  <2> QED BY <1>1, <2>1, <2>2, <2>3, <2>5, <2>6, <2>7 DEF AuthTypeOK, AuthInv, Pair
<1> QED BY <1>1, AuthInvariant, PTL

----------------------------------------------------------------------------
(* The cached profile *)

\* A step of the server moves one request ...
LEMMA HandleAdvances ==
  ASSUME AuthInv, NEW k \in Request, Handle(k) \/ JoinRefresh(k)
  PROVE  \E r : Advance(k, r)
<1>1. CASE Quiet(k)
  BY <1>1, QuietCall
<1>2. CASE RefreshFind(k) /\ tokenPair[req[k].with].live
  BY <1>2, FindingCall
<1>3. CASE Revokes(k)
  BY <1>3, RevokingCall
<1>4. CASE Issues(k)
  BY <1>4, IssuingCall
<1> QED BY <1>1, <1>2, <1>3, <1>4 DEF Handle, Quiet, Revokes, Issues

\* ... and a change of the password is under way until it has invalidated the cache.
LEMMA StillInvalidating ==
  ASSUME AuthInv, NEW j \in Request, req[j].at = "invalidating", [AuthNext]_authVars, ~Invalidate(j)
  PROVE  req'[j].at = "invalidating"
<1>1. req = [i \in Request |-> req[i]]
  BY DEF AuthInv, CallsOK
<1>2. CASE UNCHANGED req
  BY <1>2
<1>3. ASSUME NEW k \in Request, Handle(k) \/ JoinRefresh(k)
      PROVE  req'[j].at = "invalidating"
  <2>1. PICK r : Advance(k, r)
    BY <1>3, HandleAdvances
  <2>2. k # j
    BY <1>3 DEF Handle, JoinRefresh, RefusedOnce, GuardCheck, GuardRead, GuardStore, DataServed, LogoutServed,
                ChangePassword, LoginRead, ForceRead, LoginIssue, RefreshFind, RefreshRotate, RefreshAnswer
  <2> QED BY <1>1, <2>1, <2>2 DEF Advance
<1>4. ASSUME NEW k \in Request, \E d \in Device, kind \in Kind : Send(k, d, kind)
      PROVE  req'[j].at = "invalidating"
  <2>1. PICK d \in Device, kind \in Kind : Send(k, d, kind)
    BY <1>4
  <2>2. k # j /\ req' = [req EXCEPT ![k] = NewRequest(d, kind)]
    BY <2>1 DEF Send
  <2> QED BY <1>1, <2>2
<1>5. ASSUME NEW k \in Request, Ends(k)
      PROVE  req'[j].at = "invalidating"
  <2>1. PICK q, r :
          /\ req' = [q EXCEPT ![k] = r]
          /\ IF req[k].kind = "refresh" /\ req[k].heard
             THEN \/ req[k].at = "done" /\ q = Resumed(req[k].dev, req[k].new)
                  \/ req[k].at = "refused" /\ q = Resumed(req[k].dev, 0)
             ELSE q = req
    BY <1>5, Ending
  <2>2. q[j] = req[j] /\ q = [i \in Request |-> q[i]]
    BY <1>1, <2>1 DEF Resumed, Waiting
  <2>3. k # j
    BY <1>5 DEF Ends, Answered, Failed, RefreshRefused, Unheard
  <2> QED BY <2>1, <2>2, <2>3
<1>6. ASSUME NEW k \in Request, NEW i \in Request, StartRefresh(k, i)
      PROVE  req'[j].at = "invalidating"
  <2>1. k # j /\ i # j
    BY <1>6 DEF StartRefresh, RefusedOnce
  <2>2. req' = [req EXCEPT ![k].at = "waiting", ![i] = NewRequest(req[k].dev, "refresh")]
    BY <1>6 DEF StartRefresh
  <2> QED BY <1>1, <2>1, <2>2
<1>7. ASSUME NEW k \in Request, RefreshLost(k)
      PROVE  req'[j].at = "invalidating"
  <2>1. PICK q, r : /\ q = Resumed(req[k].dev, 0) /\ req' = [q EXCEPT ![k] = r] /\ r.at = req[k].at
    BY <1>7, Losing
  <2>2. q[j] = req[j] /\ q = [i \in Request |-> q[i]]
    BY <2>1 DEF Resumed, Waiting
  <2> QED BY <2>1, <2>2
<1>8. CASE CacheExpires \/ GrantRole \/ \E i \in 1 .. MaxIssued : AccessExpires(i)
  BY <1>8 DEF CacheExpires, GrantRole, AccessExpires
<1> QED BY <1>2, <1>3, <1>4, <1>5, <1>6, <1>7, <1>8 DEF AuthNext, Client, Ends, authVars

\* No profile is believed longer than its change is under way, but one that a late load
\* stored, or that a role was granted to, until it expires.
LEMMA StepCache ==
  ASSUME AuthInv, CacheFollowsVersion, [AuthNext]_authVars
  PROVE  CacheFollowsVersion'
<1>1. CASE \E j \in Request : req[j].at = "invalidating" /\ ~Invalidate(j)
  BY <1>1, StillInvalidating DEF CacheFollowsVersion
<1>2. CASE \E j \in Request : Invalidate(j)
  BY <1>2 DEF Invalidate, CacheFollowsVersion
<1>3. CASE \A j \in Request : req[j].at # "invalidating"
  <2>1. cache \in {0, version} \/ overtaken
    BY <1>3 DEF CacheFollowsVersion
  <2>2. CASE UNCHANGED <<version, cache, overtaken>>
    BY <2>1, <2>2 DEF CacheFollowsVersion
  <2>3. ASSUME NEW k \in Request, ChangePassword(k)
        PROVE  CacheFollowsVersion'
    <3>1. req' = [req EXCEPT ![k].at = "invalidating", ![k].v = 0, ![k].seen = 0] /\ req[k].at = "passed"
      BY <2>3 DEF ChangePassword, Moved
    <3>2. req[k] \in Call
      BY <3>1, ActiveCall
    <3>3. req'[k].at = "invalidating"
      BY <3>1, <3>2 DEF AuthInv, CallsOK, Call
    <3> QED BY <3>3 DEF CacheFollowsVersion
  <2>4. ASSUME NEW k \in Request, GuardStore(k) \/ LoginIssue(k) \/ RefreshAnswer(k)
        PROVE  CacheFollowsVersion'
    <3>1. PICK v : cache' = v /\ overtaken' = (v # version) /\ version' = version
      BY <2>4 DEF GuardStore, LoginIssue, RefreshAnswer, Cached
    <3> QED BY <3>1 DEF CacheFollowsVersion
  <2>5. CASE CacheExpires
    BY <2>5 DEF CacheExpires, CacheFollowsVersion
  <2>6. CASE GrantRole
    BY <2>6 DEF GrantRole, CacheFollowsVersion
  <2>7. ASSUME NEW k \in Request, Handle(k), ~ChangePassword(k), ~GuardStore(k), ~LoginIssue(k), ~RefreshAnswer(k),
               ~Invalidate(k)
        PROVE  UNCHANGED <<version, cache, overtaken>>
    BY <2>7 DEF Handle, GuardCheck, GuardRead, DataServed, LogoutServed, LoginRead, ForceRead, RefreshFind, RefreshRotate
  <2>8. ASSUME NEW k \in Request, Client(k)
        PROVE  UNCHANGED <<version, cache, overtaken>>
    BY <2>8 DEF Client, Send, Answered, JoinRefresh, Failed, StartRefresh, RefreshRefused, RefreshLost, Unheard
  <2>9. ASSUME \E i \in 1 .. MaxIssued : AccessExpires(i)
        PROVE  UNCHANGED <<version, cache, overtaken>>
    BY <2>9 DEF AccessExpires
  <2>10. CASE UNCHANGED authVars
    BY <2>2, <2>10 DEF authVars
  <2> QED BY <1>2, <2>2, <2>3, <2>4, <2>5, <2>6, <2>7, <2>8, <2>9, <2>10 DEF AuthNext
<1> QED BY <1>1, <1>2, <1>3

\* The guard judges by the user's version, or by a profile that a change under way, a late
\* load or a granted role has left behind, for any overlap of requests.
THEOREM CacheIsFollowed == AuthSpec => []CacheFollowsVersion
<1>1. AuthInit => CacheFollowsVersion
  BY DEF AuthInit, CacheFollowsVersion
<1> QED BY <1>1, StepCache, AuthInvariant, PTL DEF AuthSpec

----------------------------------------------------------------------------
(* Live pairs *)

\* What the invariant says of the pairs that are named.
LEMMA NamedPairs ==
  ASSUME AuthInv
  PROVE  /\ Len(tokenPair) \in Nat
         /\ \A i \in 1 .. Len(tokenPair) :
              tokenPair[i].family \in 1 .. i /\ tokenPair[tokenPair[i].family].dev = tokenPair[i].dev
         /\ \A d \in Device : held[d] \in 0 .. Len(tokenPair) /\ (held[d] # 0 => tokenPair[held[d]].dev = d)
         /\ \A k \in Request : Active(req[k]) =>
              /\ req[k].with \in 0 .. Len(tokenPair) /\ req[k].body \in 0 .. Len(tokenPair)
              /\ req[k].new \in 0 .. Len(tokenPair) /\ req[k].dev \in Device
              /\ req[k].body # 0 => tokenPair[req[k].body].dev = req[k].dev
              /\ req[k].kind = "refresh" =>
                    /\ req[k].with # 0 /\ tokenPair[req[k].with].dev = req[k].dev
                    /\ IF req[k].heard THEN refreshing[req[k].dev] = k
                       ELSE tokenPair[req[k].with].family \in excused
              /\ req[k].new # 0 =>
                    \/ req[k].kind = "refresh" /\ tokenPair[req[k].new].family = tokenPair[req[k].with].family
                    \/ req[k].kind = "login" /\ tokenPair[req[k].new].family = req[k].new
              /\ req[k].at = "found" => req[k].kind = "refresh"
         /\ \A d \in Device : refreshing[d] # NoRequest =>
              /\ refreshing[d] \in Request /\ Active(req[refreshing[d]])
              /\ req[refreshing[d]].kind = "refresh" /\ req[refreshing[d]].dev = d /\ req[refreshing[d]].heard
<1>1. PairsOK(tokenPair, version) /\ HeldOK(held, tokenPair) /\ FlightOK(req, refreshing, tokenPair, excused)
  BY DEF AuthInv
<1>2. Len(tokenPair) \in Nat
  BY <1>1 DEF PairsOK
<1>3. \A i \in 1 .. Len(tokenPair) :
        tokenPair[i].family \in 1 .. i /\ tokenPair[tokenPair[i].family].dev = tokenPair[i].dev
  BY <1>1 DEF PairsOK
<1>4. \A d \in Device : held[d] \in 0 .. Len(tokenPair) /\ (held[d] # 0 => tokenPair[held[d]].dev = d)
  BY <1>1 DEF HeldOK
<1>5. ASSUME NEW k \in Request, Active(req[k])
      PROVE  /\ req[k].with \in 0 .. Len(tokenPair) /\ req[k].body \in 0 .. Len(tokenPair)
             /\ req[k].new \in 0 .. Len(tokenPair) /\ req[k].dev \in Device
             /\ req[k].body # 0 => tokenPair[req[k].body].dev = req[k].dev
             /\ req[k].kind = "refresh" =>
                   /\ req[k].with # 0 /\ tokenPair[req[k].with].dev = req[k].dev
                   /\ IF req[k].heard THEN refreshing[req[k].dev] = k
                      ELSE tokenPair[req[k].with].family \in excused
             /\ req[k].new # 0 =>
                   \/ req[k].kind = "refresh" /\ tokenPair[req[k].new].family = tokenPair[req[k].with].family
                   \/ req[k].kind = "login" /\ tokenPair[req[k].new].family = req[k].new
             /\ req[k].at = "found" => req[k].kind = "refresh"
  <2>1. req[k] \in Call /\ Names(req[k], tokenPair) /\ StageOK(req[k], version)
    BY <1>5, ActiveCall DEF Active
  <2>2. req[k].dev \in Device
    BY <2>1 DEF Call
  <2>3. req[k].kind = "refresh" =>
           IF req[k].heard THEN refreshing[req[k].dev] = k ELSE tokenPair[req[k].with].family \in excused
    BY <1>1, <1>5 DEF FlightOK, Refreshes, Active
  <2> QED BY <2>1, <2>2, <2>3 DEF Names, StageOK
<1>6. \A d \in Device : refreshing[d] # NoRequest =>
        /\ refreshing[d] \in Request /\ Active(req[refreshing[d]])
        /\ req[refreshing[d]].kind = "refresh" /\ req[refreshing[d]].dev = d /\ req[refreshing[d]].heard
  BY <1>1 DEF FlightOK, Refreshes, Active
<1> QED BY <1>2, <1>3, <1>4, <1>5, <1>6

\* Two refreshes of one family are one, unless the family is excused.
LEMMA SingleFlight ==
  ASSUME AuthInv, NEW j \in Request, NEW k \in Request,
         Active(req[j]), req[j].kind = "refresh", Active(req[k]), req[k].kind = "refresh",
         tokenPair[req[j].with].family = tokenPair[req[k].with].family,
         tokenPair[req[k].with].family \notin excused
  PROVE  j = k /\ req[k].heard /\ refreshing[req[k].dev] = k
<1>1. /\ req[j].with \in 1 .. Len(tokenPair) /\ tokenPair[req[j].with].dev = req[j].dev
      /\ req[j].heard /\ refreshing[req[j].dev] = j
  BY NamedPairs
<1>2. /\ req[k].with \in 1 .. Len(tokenPair) /\ tokenPair[req[k].with].dev = req[k].dev
      /\ req[k].heard /\ refreshing[req[k].dev] = k
  BY NamedPairs
<1>3. req[j].dev = req[k].dev
  <2>1. \A i \in 1 .. Len(tokenPair) : tokenPair[tokenPair[i].family].dev = tokenPair[i].dev
    BY NamedPairs
  <2> QED BY <1>1, <1>2, <2>1
<1> QED BY <1>1, <1>2, <1>3

\* A pair of the family a device refreshes is held by that device.
LEMMA HeldByRefresher ==
  ASSUME AuthInv, NEW k \in Request, Active(req[k]), req[k].kind = "refresh",
         NEW d \in Device, held[d] # 0, tokenPair[held[d]].family = tokenPair[req[k].with].family,
         tokenPair[held[d]].family \notin excused
  PROVE  refreshing[d] = k
<1>1. /\ req[k].with \in 1 .. Len(tokenPair) /\ tokenPair[req[k].with].dev = req[k].dev
      /\ req[k].heard /\ refreshing[req[k].dev] = k
  BY NamedPairs
<1>2. held[d] \in 1 .. Len(tokenPair) /\ tokenPair[held[d]].dev = d
  BY NamedPairs
<1>3. req[k].dev = d
  <2>1. \A i \in 1 .. Len(tokenPair) : tokenPair[tokenPair[i].family].dev = tokenPair[i].dev
    BY NamedPairs
  <2> QED BY <1>1, <1>2, <2>1
<1> QED BY <1>1, <1>3

\* Requests that go on for the same caller with what they had.
SameCalls(u) ==
    \A j \in Request :
      /\ Active(u[j]) <=> Active(req[j])
      /\ Active(req[j]) =>
           /\ u[j].dev = req[j].dev /\ u[j].kind = req[j].kind /\ u[j].with = req[j].with
           /\ u[j].body = req[j].body /\ u[j].heard = req[j].heard /\ u[j].new = req[j].new
           /\ u[j].at = "found" =>
                \/ req[j].at = "found"
                \/ /\ req[j].kind = "refresh"
                   /\ tokenPair[req[j].with].family \in excused
                        \/ LiveOnly(tokenPair[req[j].with].family, req[j].with, tokenPair)

\* Revoking keeps what is said of live pairs, when no pair that is held, or about to be,
\* is revoked but by its own device's sign-out or refresh.
LEMMA RevokingKeepsSessions ==
  ASSUME AuthInv, SessionInv, NEW u, SameCalls(u), NEW up, Onward(tokenPair, up), Len(up) = Len(tokenPair),
         NEW more, excused \subseteq more,
         \A i \in Pair : tokenPair[i].live /\ ~up[i].live /\ tokenPair[i].family \notin more =>
            /\ \A j \in Request : Active(req[j]) /\ req[j].heard => req[j].new # i
            /\ \A d \in Device : held[d] = i /\ ~SignsOut(d, req) =>
                  /\ refreshing[d] # NoRequest
                  /\ tokenPair[req[refreshing[d]].with].family = tokenPair[i].family
  PROVE  Secret(u, held, up) /\ OneLive(u, up, more) /\ HeldLive(u, held, refreshing, up, more)
<1>1. /\ Len(tokenPair) \in Nat
      /\ \A i \in Pair : up[i].family = tokenPair[i].family /\ (up[i].live => tokenPair[i].live)
  BY NamedPairs DEF Onward, Pair
<1>2. \A j \in Request : Active(u[j]) =>
        /\ Active(req[j]) /\ u[j].dev = req[j].dev /\ u[j].kind = req[j].kind /\ u[j].with = req[j].with
        /\ u[j].body = req[j].body /\ u[j].heard = req[j].heard /\ u[j].new = req[j].new
  BY DEF SameCalls
<1>3. Secret(u, held, up)
  <2>1. Secret(req, held, tokenPair)
    BY DEF SessionInv
  <2> SUFFICES ASSUME NEW k \in Request, Active(u[k]), u[k].new # 0
               PROVE  /\ \A d \in Device : held[d] # u[k].new
                      /\ \A j \in Request : Active(u[j]) =>
                           /\ u[j].with # u[k].new /\ u[j].body # u[k].new
                           /\ j # k => u[j].new # u[k].new
                      /\ u[k].kind = "login" => \A i \in 1 .. Len(up) : up[i].family = u[k].new => i = u[k].new
    BY DEF Secret
  <2>2. Active(req[k]) /\ req[k].new = u[k].new /\ req[k].kind = u[k].kind
    BY <1>2
  <2> QED BY <1>1, <1>2, <2>1, <2>2 DEF Secret, Pair
<1>4. OneLive(u, up, more)
  <2>1. OneLive(req, tokenPair, excused)
    BY DEF SessionInv
  <2>2. ASSUME NEW i \in 1 .. Len(up), NEW j \in 1 .. Len(up), i # j, up[i].family = up[j].family, up[i].family \notin more
        PROVE  ~(up[i].live /\ up[j].live)
    BY <1>1, <2>1, <2>2 DEF OneLive, Pair
  <2>3. ASSUME NEW k \in Request, Active(u[k]), u[k].at = "found", up[u[k].with].family \notin more
        PROVE  LiveOnly(up[u[k].with].family, u[k].with, up)
    <3>1. Active(req[k]) /\ u[k].with = req[k].with /\ u[k].kind = req[k].kind
      BY <1>2, <2>3
    <3>2. \/ req[k].at = "found"
          \/ /\ req[k].kind = "refresh"
             /\ tokenPair[req[k].with].family \in excused
                  \/ LiveOnly(tokenPair[req[k].with].family, req[k].with, tokenPair)
      BY <2>3, <3>1 DEF SameCalls
    <3>3. req[k].with \in Pair
      BY <3>1, <3>2, NamedPairs DEF Pair
    <3>4. up[req[k].with].family = tokenPair[req[k].with].family
      BY <1>1, <3>3
    <3>5. LiveOnly(tokenPair[req[k].with].family, req[k].with, tokenPair)
      BY <2>1, <2>3, <3>1, <3>2, <3>4 DEF OneLive
    <3> QED BY <1>1, <3>1, <3>4, <3>5 DEF LiveOnly, Pair
  <2> QED BY <2>2, <2>3 DEF OneLive
<1>5. HeldLive(u, held, refreshing, up, more)
  <2>1. HeldLive(req, held, refreshing, tokenPair, excused)
    BY DEF SessionInv
  <2>2. ASSUME NEW k \in Request, Active(u[k]), u[k].heard, u[k].new # 0
        PROVE  up[u[k].new].live \/ up[u[k].new].family \in more
    <3>1. Active(req[k]) /\ req[k].heard /\ req[k].new = u[k].new
      BY <1>2, <2>2
    <3>2. req[k].new \in Pair
      BY <2>2, <3>1, NamedPairs DEF Pair
    <3>3. tokenPair[req[k].new].live \/ tokenPair[req[k].new].family \in excused
      BY <2>1, <2>2, <3>1 DEF HeldLive
    <3> QED BY <1>1, <3>1, <3>2, <3>3
  <2>3. ASSUME NEW d \in Device, held[d] # 0, up[held[d]].family \notin more, ~SignsOut(d, u)
        PROVE  \/ up[held[d]].live
               \/ refreshing[d] # NoRequest /\ up[u[refreshing[d]].with].family = up[held[d]].family
    <3>1. held[d] \in Pair
      BY <2>3, NamedPairs DEF Pair
    <3>2. tokenPair[held[d]].family \notin more /\ tokenPair[held[d]].family \notin excused
      BY <1>1, <2>3, <3>1
    <3>3. ~SignsOut(d, req)
      BY <2>3 DEF SignsOut, SameCalls
    <3>4. \/ tokenPair[held[d]].live
          \/ refreshing[d] # NoRequest /\ tokenPair[req[refreshing[d]].with].family = tokenPair[held[d]].family
      BY <2>1, <2>3, <3>2, <3>3 DEF HeldLive
    <3>5. CASE refreshing[d] # NoRequest /\ tokenPair[req[refreshing[d]].with].family = tokenPair[held[d]].family
      <4>1. /\ refreshing[d] \in Request /\ Active(req[refreshing[d]]) /\ req[refreshing[d]].with \in Pair
        BY <3>5, NamedPairs DEF Pair
      <4>2. u[refreshing[d]].with = req[refreshing[d]].with
        BY <4>1 DEF SameCalls
      <4> QED BY <1>1, <3>1, <3>5, <4>1, <4>2
    <3>6. CASE tokenPair[held[d]].live
      <4>1. \/ up[held[d]].live
            \/ refreshing[d] # NoRequest /\ tokenPair[req[refreshing[d]].with].family = tokenPair[held[d]].family
        BY <3>1, <3>2, <3>3, <3>6
      <4> QED BY <3>5, <4>1
    <3> QED BY <3>4, <3>5, <3>6
  <2> QED BY <2>2, <2>3 DEF HeldLive
<1> QED BY <1>3, <1>4, <1>5


\* Revoking, or no change of the pairs, keeps the sessions.
LEMMA SessionsKept ==
  ASSUME AuthInv, SessionInv, SameCalls(req'), UNCHANGED <<held, refreshing>>, excused \subseteq excused',
         Onward(tokenPair, tokenPair'), Len(tokenPair') = Len(tokenPair),
         \A i \in Pair : tokenPair[i].live /\ ~tokenPair'[i].live /\ tokenPair[i].family \notin excused' =>
            /\ \A j \in Request : Active(req[j]) /\ req[j].heard => req[j].new # i
            /\ \A d \in Device : held[d] = i /\ ~SignsOut(d, req) =>
                  /\ refreshing[d] # NoRequest
                  /\ tokenPair[req[refreshing[d]].with].family = tokenPair[i].family
  PROVE  SessionInv'
<1>1. PICK u, up, more : u = req' /\ up = tokenPair' /\ more = excused'
  OBVIOUS
<1>2. SameCalls(u) /\ Onward(tokenPair, up) /\ Len(up) = Len(tokenPair) /\ excused \subseteq more
  BY <1>1
<1>3. \A i \in Pair : tokenPair[i].live /\ ~up[i].live /\ tokenPair[i].family \notin more =>
            /\ \A j \in Request : Active(req[j]) /\ req[j].heard => req[j].new # i
            /\ \A d \in Device : held[d] = i /\ ~SignsOut(d, req) =>
                  /\ refreshing[d] # NoRequest
                  /\ tokenPair[req[refreshing[d]].with].family = tokenPair[i].family
  BY <1>1
<1>4. Secret(u, held, up) /\ OneLive(u, up, more) /\ HeldLive(u, held, refreshing, up, more)
  BY <1>2, <1>3, RevokingKeepsSessions
<1> QED BY <1>1, <1>4 DEF SessionInv

\* A request that issues nothing goes on for the same caller.
LEMMA AdvancesSame ==
  ASSUME AuthInv, NEW k \in Request, NEW r, Advance(k, r), r.new = req[k].new,
         r.at = "found" =>
            /\ req[k].kind = "refresh"
            /\ tokenPair[req[k].with].family \in excused
                 \/ LiveOnly(tokenPair[req[k].with].family, req[k].with, tokenPair)
  PROVE  SameCalls(req')
<1>1. req' = [req EXCEPT ![k] = r] /\ req = [j \in Request |-> req[j]]
  BY DEF Advance, AuthInv, CallsOK
<1>2. req'[k] = r /\ \A j \in Request \ {k} : req'[j] = req[j]
  BY <1>1
<1> QED BY <1>2 DEF SameCalls, Advance, Active

\* A step that changes no pair keeps the sessions ...
LEMMA QuietSessions ==
  ASSUME AuthInv, SessionInv, NEW k \in Request, Quiet(k)
  PROVE  SessionInv'
<1>1. SameCalls(req')
  <2>1. PICK r : Advance(k, r) /\ r.new = req[k].new /\ r.at # "found"
    BY QuietCall
  <2> QED BY <2>1, AdvancesSame
<1>2. UNCHANGED <<version, tokenPair, held, refreshing, excused>>
  BY QuietCall
<1>3. Onward(tokenPair, tokenPair)
  BY NamedPairs DEF Onward
<1> QED BY <1>1, <1>2, <1>3, SessionsKept

\* ... a refresh that finds its pair live finds it alone ...
LEMMA FindingSessions ==
  ASSUME AuthInv, SessionInv, NEW k \in Request, RefreshFind(k), tokenPair[req[k].with].live
  PROVE  SessionInv'
<1>1. PICK r : Advance(k, r) /\ r.new = req[k].new /\ r.kind = "refresh"
  BY FindingCall
<1>2. Active(req[k]) /\ req[k].kind = "refresh" /\ req[k].with \in Pair
  <2>1. Active(req[k]) /\ req[k].kind = "refresh"
    BY <1>1 DEF Advance
  <2> QED BY <2>1, NamedPairs DEF Pair
<1>3. ASSUME tokenPair[req[k].with].family \notin excused
      PROVE  LiveOnly(tokenPair[req[k].with].family, req[k].with, tokenPair)
  BY <1>2, <1>3 DEF SessionInv, OneLive, LiveOnly, Pair
<1>4. SameCalls(req')
  BY <1>1, <1>2, <1>3, AdvancesSame
<1>5. UNCHANGED <<version, tokenPair, held, refreshing, excused>>
  BY FindingCall
<1>6. Onward(tokenPair, tokenPair)
  BY NamedPairs DEF Onward
<1> QED BY <1>4, <1>5, <1>6, SessionsKept

\* ... a sign-out revokes what its device holds, a change of the password what others
\* hold, and a refresh with a revoked pair what its device is refreshing ...
LEMMA RevokingSessions ==
  ASSUME AuthInv, SessionInv, NEW k \in Request, Revokes(k)
  PROVE  SessionInv'
<1>1. PICK r, I :
        /\ Advance(k, r) /\ r.new = req[k].new /\ r.at # "found" /\ tokenPair' = Revoked(I)
        /\ \/ req[k].kind = "logout" /\ I = {req[k].body}
           \/ /\ I = RevokedByChange(req[k].dev)
              /\ \A i \in Pair : tokenPair[i].dev # req[k].dev => tokenPair[i].family \in excused'
           \/ req[k].kind = "refresh" /\ req[k].new = 0 /\ I = FamilyOf(req[k].with)
  BY RevokingCall
<1>2. UNCHANGED <<held, refreshing>> /\ excused \subseteq excused'
  BY RevokingCall
<1>3. SameCalls(req')
  BY <1>1, AdvancesSame
<1>4. /\ Onward(tokenPair, tokenPair') /\ Len(tokenPair') = Len(tokenPair)
      /\ \A i \in Pair : tokenPair'[i].live <=> tokenPair[i].live /\ i \notin I
  <2>1. PICK up : up = Revoked(I)
    OBVIOUS
  <2>2. /\ Onward(tokenPair, up) /\ Len(up) = Len(tokenPair)
        /\ \A i \in Pair : up[i].live <=> tokenPair[i].live /\ i \notin I
    BY <2>1, Revoking DEF AuthInv
  <2> QED BY <1>1, <2>1, <2>2
<1>5. Active(req[k]) /\ Secret(req, held, tokenPair)
  BY <1>1 DEF Advance, SessionInv
<1>6. ASSUME NEW i \in Pair, i \in I, tokenPair[i].family \notin excused'
      PROVE  /\ \A j \in Request : Active(req[j]) /\ req[j].heard => req[j].new # i
             /\ \A d \in Device : held[d] = i /\ ~SignsOut(d, req) =>
                   /\ refreshing[d] # NoRequest
                   /\ tokenPair[req[refreshing[d]].with].family = tokenPair[i].family
  <2>1. i # 0 /\ tokenPair[i].family \notin excused
    BY <1>2, <1>6, NamedPairs DEF Pair
  <2>2. CASE req[k].kind = "logout" /\ I = {req[k].body}
    <3>1. i = req[k].body
      BY <1>6, <2>2
    <3>2. \A j \in Request : Active(req[j]) => req[j].new # i
      BY <1>5, <2>1, <3>1 DEF Secret
    <3>3. ASSUME NEW d \in Device, held[d] = i
          PROVE  SignsOut(d, req)
      <4>1. tokenPair[i].dev = d
        BY <2>1, <3>3, NamedPairs
      <4>2. tokenPair[i].dev = req[k].dev
        BY <1>5, <2>1, <3>1, NamedPairs
      <4> QED BY <1>5, <2>2, <4>1, <4>2 DEF SignsOut
    <3> QED BY <3>2, <3>3
  <2>3. CASE /\ I = RevokedByChange(req[k].dev)
             /\ \A j \in Pair : tokenPair[j].dev # req[k].dev => tokenPair[j].family \in excused'
    BY <1>6, <2>3 DEF RevokedByChange
  <2>4. CASE req[k].kind = "refresh" /\ req[k].new = 0 /\ I = FamilyOf(req[k].with)
    <3>1. tokenPair[i].family = tokenPair[req[k].with].family
      BY <1>6, <2>4 DEF FamilyOf
    <3>2. ASSUME NEW j \in Request, Active(req[j]), req[j].new = i
          PROVE  FALSE
      <4>1. CASE req[j].kind = "refresh" /\ tokenPair[i].family = tokenPair[req[j].with].family
        <5>1. j = k
          BY <1>5, <2>1, <2>4, <3>1, <3>2, <4>1, SingleFlight
        <5> QED BY <2>1, <2>4, <3>2, <5>1
      <4>2. CASE req[j].kind = "login" /\ tokenPair[i].family = i
        <5>1. req[k].with \in 1 .. Len(tokenPair)
          BY <1>5, <2>4, NamedPairs
        <5>2. req[k].with = i
          BY <1>5, <2>1, <3>1, <3>2, <4>2, <5>1 DEF Secret
        <5> QED BY <1>5, <2>1, <3>2, <5>2 DEF Secret
      <4> QED BY <2>1, <3>2, <4>1, <4>2, NamedPairs
    <3>3. ASSUME NEW d \in Device, held[d] = i
          PROVE  refreshing[d] = k /\ refreshing[d] # NoRequest
      <4>1. refreshing[d] = k
        BY <1>5, <2>1, <2>4, <3>1, <3>3, HeldByRefresher
      <4> QED BY <4>1, AuthAssumption DEF AuthAssumption
    <3> QED BY <3>1, <3>2, <3>3
  <2> QED BY <1>1, <2>2, <2>3, <2>4
<1> QED BY <1>2, <1>3, <1>4, <1>6, SessionsKept

\* ... and neither the cache, a role nor an expiring token touches them.
LEMMA AsideSessions ==
  ASSUME AuthInv, SessionInv, CacheExpires \/ GrantRole \/ \E i \in 1 .. MaxIssued : AccessExpires(i)
  PROVE  SessionInv'
<1>1. UNCHANGED <<held, refreshing, req, excused>>
  BY DEF CacheExpires, GrantRole, AccessExpires
<1>2. SameCalls(req')
  BY <1>1 DEF SameCalls
<1>3. /\ Onward(tokenPair, tokenPair') /\ Len(tokenPair') = Len(tokenPair)
      /\ \A i \in Pair : tokenPair'[i].live = tokenPair[i].live
  <2>1. CASE UNCHANGED tokenPair
    BY <2>1, NamedPairs DEF Onward
  <2>2. CASE \E i \in 1 .. MaxIssued : AccessExpires(i)
    <3>1. PICK up, i : i \in Pair /\ up = [tokenPair EXCEPT ![i].fresh = FALSE] /\ tokenPair' = up
      BY <2>2 DEF AccessExpires
    <3>2. /\ Onward(tokenPair, up) /\ Len(up) = Len(tokenPair)
          /\ \A j \in Pair : up[j].live = tokenPair[j].live
      BY <3>1, Expiring DEF AuthInv
    <3> QED BY <3>1, <3>2
  <2> QED BY <2>1, <2>2 DEF CacheExpires, GrantRole
<1> QED BY <1>1, <1>2, <1>3, SessionsKept

\* A pair that a request has issued, and nobody knows of, keeps the sessions.
LEMMA IssuedPair ==
  ASSUME AuthInv, NEW k \in Request, NEW r, Advance(k, r), NEW u, u = req',
         NEW tp, PairsOK(tp, version), Onward(tokenPair, tp), Len(tp) = Len(tokenPair),
         NEW p, NEW up, Len(up) = Len(tp) + 1, up[Len(tp) + 1] = p, \A i \in Pair : up[i] = tp[i],
         r.new = Len(tokenPair) + 1, req[k].new = 0, r.at # "found", p.live,
         Secret(req, held, tp), OneLive(req, tp, excused), HeldLive(req, held, refreshing, tp, excused),
         \/ req[k].kind = "login" /\ p.family = Len(tokenPair) + 1
         \/ /\ req[k].kind = "refresh" /\ p.family = tokenPair[req[k].with].family
            /\ p.family \in excused \/ \A i \in Pair : tp[i].family = p.family => ~tp[i].live
  PROVE  Secret(u, held, up) /\ OneLive(u, up, excused) /\ HeldLive(u, held, refreshing, up, excused)
<1>1. PICK n \in Nat : n = Len(tokenPair) + 1
  BY NamedPairs
<1>2. /\ n \notin Pair /\ Pair = 1 .. Len(tp) /\ 1 .. Len(up) = Pair \cup {n} /\ n # 0
      /\ \A i \in Pair : i # n /\ i \in 1 .. Len(up)
  BY <1>1, NamedPairs DEF Pair
<1>3. /\ up[n] = p /\ \A i \in Pair : up[i] = tp[i] /\ up[i].family = tokenPair[i].family
      /\ \A i \in Pair : tokenPair[i].family \in Pair
  <2>1. \A i \in Pair : tokenPair[i].family \in 1 .. i
    BY NamedPairs DEF Pair
  <2>2. \A i \in Pair : tokenPair[i].family \in Pair
    BY <2>1, NamedPairs DEF Pair
  <2>3. \A i \in Pair : tp[i].family = tokenPair[i].family
    BY DEF Onward, Pair
  <2> QED BY <1>1, <2>2, <2>3
<1>4. /\ u[k] = r /\ \A j \in Request \ {k} : u[j] = req[j]
  BY DEF Advance, AuthInv, CallsOK
<1>5. /\ Active(req[k]) /\ Active(r) /\ r.dev = req[k].dev /\ r.kind = req[k].kind /\ r.with = req[k].with
      /\ r.body = req[k].body /\ r.heard = req[k].heard /\ r.new = n
  BY <1>1 DEF Advance, Active
<1>6. \A j \in Request : Active(req[j]) =>
        /\ req[j].with \in Pair \cup {0} /\ req[j].body \in Pair \cup {0} /\ req[j].new \in Pair \cup {0}
        /\ req[j].kind = "refresh" => req[j].with \in Pair
  BY NamedPairs DEF Pair
<1>7. \A d \in Device : held[d] \in Pair \cup {0}
  BY NamedPairs DEF Pair
<1>8. \/ req[k].kind = "login" /\ p.family = n
      \/ /\ req[k].kind = "refresh" /\ p.family = tokenPair[req[k].with].family
         /\ p.family \in excused \/ \A i \in Pair : tp[i].family = p.family => ~tp[i].live
  BY <1>1
<1>9. Secret(u, held, up)
  <2> SUFFICES ASSUME NEW i \in Request, Active(u[i]), u[i].new # 0
               PROVE  /\ \A d \in Device : held[d] # u[i].new
                      /\ \A j \in Request : Active(u[j]) =>
                           /\ u[j].with # u[i].new /\ u[j].body # u[i].new
                           /\ j # i => u[j].new # u[i].new
                      /\ u[i].kind = "login" => \A m \in 1 .. Len(up) : up[m].family = u[i].new => m = u[i].new
    BY DEF Secret
  <2>1. CASE i = k
    <3>1. u[i].new = n
      BY <1>4, <1>5, <2>1
    <3>2. \A d \in Device : held[d] # n
      BY <1>2, <1>7
    <3>3. \A j \in Request : Active(u[j]) =>
            /\ u[j].with # n /\ u[j].body # n
            /\ j # i => u[j].new # n
      BY <1>2, <1>4, <1>5, <1>6, <2>1
    <3>4. \A m \in 1 .. Len(up) : up[m].family = n => m = n
      BY <1>2, <1>3
    <3> QED BY <3>1, <3>2, <3>3, <3>4
  <2>2. CASE i # k
    <3>1. u[i] = req[i] /\ Active(req[i]) /\ req[i].new # 0 /\ req[i].new \in Pair
      BY <1>4, <1>6, <2>2
    <3>2. \A d \in Device : held[d] # req[i].new
      BY <3>1 DEF Secret
    <3>3. ASSUME NEW j \in Request, Active(u[j])
          PROVE  u[j].with # req[i].new /\ u[j].body # req[i].new /\ (j # i => u[j].new # req[i].new)
      <4>1. CASE j = k
        BY <1>2, <1>4, <1>5, <3>1, <4>1 DEF Secret
      <4>2. CASE j # k
        BY <1>4, <3>1, <3>3, <4>2 DEF Secret
      <4> QED BY <4>1, <4>2
    <3>4. ASSUME req[i].kind = "login", NEW m \in 1 .. Len(up), up[m].family = req[i].new
          PROVE  m = req[i].new
      <4>1. CASE m \in Pair
        BY <1>2, <1>3, <3>1, <3>4, <4>1 DEF Secret
      <4>2. CASE m = n
        <5>1. p.family = req[i].new
          BY <1>3, <3>4, <4>2
        <5>2. req[k].kind = "refresh" /\ p.family = tokenPair[req[k].with].family
          BY <1>2, <1>8, <3>1, <5>1
        <5>3. req[k].with \in Pair
          BY <1>5, <1>6, <5>2
        <5>4. tp[req[k].with].family = req[i].new
          BY <1>3, <5>1, <5>2, <5>3
        <5>5. req[k].with = req[i].new
          BY <1>2, <3>1, <3>4, <5>3, <5>4 DEF Secret
        <5> QED BY <1>5, <3>1, <5>5 DEF Secret
      <4> QED BY <1>2, <4>1, <4>2
    <3> QED BY <3>1, <3>2, <3>3, <3>4
  <2> QED BY <2>1, <2>2
<1>10. OneLive(u, up, excused)
  <2>1. ASSUME NEW i \in Pair, up[i].family = p.family, p.family \notin excused
        PROVE  ~up[i].live
    BY <1>2, <1>3, <1>8, <2>1
  <2>2. ASSUME NEW i \in 1 .. Len(up), NEW j \in 1 .. Len(up), i # j, up[i].family = up[j].family,
               up[i].family \notin excused
        PROVE  ~(up[i].live /\ up[j].live)
    <3>1. CASE i \in Pair /\ j \in Pair
      BY <1>2, <1>3, <2>2, <3>1 DEF OneLive
    <3>2. CASE i = n /\ j \in Pair
      BY <1>3, <2>1, <2>2, <3>2
    <3>3. CASE i \in Pair /\ j = n
      BY <1>3, <2>1, <2>2, <3>3
    <3> QED BY <1>2, <2>2, <3>1, <3>2, <3>3
  <2>3. ASSUME NEW i \in Request, Active(u[i]), u[i].at = "found", up[u[i].with].family \notin excused
        PROVE  LiveOnly(up[u[i].with].family, u[i].with, up)
    <3>1. i # k
      BY <1>4, <2>3
    <3>2. u[i] = req[i] /\ Active(req[i]) /\ req[i].at = "found" /\ req[i].kind = "refresh"
      BY <1>4, <2>3, <3>1, NamedPairs
    <3>3. req[i].with \in Pair
      BY <1>6, <3>2
    <3>4. up[req[i].with].family = tokenPair[req[i].with].family /\ up[req[i].with] = tp[req[i].with]
      BY <1>3, <3>3
    <3>5. LiveOnly(tokenPair[req[i].with].family, req[i].with, tp)
      BY <2>3, <3>2, <3>4 DEF OneLive
    <3>6. p.family # tokenPair[req[i].with].family
      <4>1. CASE req[k].kind = "login" /\ p.family = n
        BY <1>2, <1>3, <3>3, <4>1
      <4>2. CASE req[k].kind = "refresh" /\ p.family = tokenPair[req[k].with].family
        <5>1. ASSUME p.family = tokenPair[req[i].with].family
              PROVE  FALSE
          <6>1. tokenPair[req[i].with].family \notin excused
            BY <2>3, <3>2, <3>4
          <6>2. /\ Active(req[k]) /\ req[k].kind = "refresh" /\ Active(req[i]) /\ req[i].kind = "refresh"
                /\ tokenPair[req[k].with].family = tokenPair[req[i].with].family
            BY <1>5, <3>2, <4>2, <5>1
          <6>3. k = i
            BY <6>1, <6>2, SingleFlight
          <6> QED BY <3>1, <6>3
        <5> QED BY <5>1
      <4> QED BY <1>8, <4>1, <4>2
    <3> QED BY <1>2, <1>3, <3>2, <3>4, <3>5, <3>6 DEF LiveOnly
  <2> QED BY <2>2, <2>3 DEF OneLive
<1>11. HeldLive(u, held, refreshing, up, excused)
  <2>1. ASSUME NEW i \in Request, Active(u[i]), u[i].heard, u[i].new # 0
        PROVE  up[u[i].new].live \/ up[u[i].new].family \in excused
    <3>1. CASE i = k
      BY <1>3, <1>4, <1>5, <3>1
    <3>2. CASE i # k
      <4>1. u[i] = req[i] /\ req[i].new \in Pair
        BY <1>4, <1>6, <2>1, <3>2
      <4>2. tp[req[i].new].live \/ tp[req[i].new].family \in excused
        BY <2>1, <4>1 DEF HeldLive
      <4> QED BY <1>3, <4>1, <4>2
    <3> QED BY <3>1, <3>2
  <2>2. ASSUME NEW d \in Device, held[d] # 0, up[held[d]].family \notin excused, ~SignsOut(d, u)
        PROVE  \/ up[held[d]].live
               \/ refreshing[d] # NoRequest /\ up[u[refreshing[d]].with].family = up[held[d]].family
    <3>1. held[d] \in Pair /\ up[held[d]] = tp[held[d]]
      BY <1>3, <1>7, <2>2
    <3>2. ~SignsOut(d, req)
      BY <1>4, <1>5, <2>2 DEF SignsOut
    <3>3. \/ tp[held[d]].live
          \/ refreshing[d] # NoRequest /\ tp[req[refreshing[d]].with].family = tp[held[d]].family
      BY <2>2, <3>1, <3>2 DEF HeldLive
    <3>4. CASE refreshing[d] # NoRequest /\ tp[req[refreshing[d]].with].family = tp[held[d]].family
      <4>1. refreshing[d] \in Request /\ Active(req[refreshing[d]]) /\ req[refreshing[d]].kind = "refresh"
        BY <3>4, NamedPairs
      <4>2. req[refreshing[d]].with \in Pair /\ u[refreshing[d]].with = req[refreshing[d]].with
        BY <1>4, <1>5, <1>6, <4>1
      <4> QED BY <1>3, <3>1, <3>4, <4>2
    <3> QED BY <3>1, <3>3, <3>4
  <2> QED BY <2>1, <2>2 DEF HeldLive
<1> QED BY <1>9, <1>10, <1>11

\* A sign-in begins a family; a refresh ends the life of the only live pair of its own.
LEMMA IssuingSessions ==
  ASSUME AuthInv, SessionInv, NEW k \in Request, Issues(k)
  PROVE  SessionInv'
<1>1. PICK r, tp, p :
        /\ Advance(k, r) /\ r.new = Len(tokenPair) + 1 /\ req[k].new = 0 /\ r.at # "found"
        /\ Onward(tokenPair, tp) /\ PairsOK(tp, version) /\ Len(tp) = Len(tokenPair)
        /\ tokenPair' = Append(tp, p) /\ p.live
        /\ \/ /\ req[k].kind = "login" /\ tp = tokenPair /\ p.family = Len(tokenPair) + 1
           \/ /\ req[k].kind = "refresh" /\ req[k].at = "found" /\ tp = Revoked({req[k].with})
              /\ p.family = tokenPair[req[k].with].family
  BY IssuingCall
<1>2. UNCHANGED <<held, refreshing, excused>>
  BY IssuingCall
<1>3. PICK u, up : u = req' /\ up = Append(tp, p)
  OBVIOUS
<1>4. tp \in Seq(Issued)
  BY <1>1 DEF PairsOK
<1>5. Len(up) = Len(tp) + 1 /\ up[Len(tp) + 1] = p /\ \A i \in Pair : up[i] = tp[i]
  BY <1>1, <1>3, <1>4 DEF Pair
<1>6. /\ Secret(req, held, tp) /\ OneLive(req, tp, excused) /\ HeldLive(req, held, refreshing, tp, excused)
      /\ \/ req[k].kind = "login" /\ p.family = Len(tokenPair) + 1
         \/ /\ req[k].kind = "refresh" /\ p.family = tokenPair[req[k].with].family
            /\ p.family \in excused \/ \A i \in Pair : tp[i].family = p.family => ~tp[i].live
  <2>1. CASE req[k].kind = "login" /\ tp = tokenPair /\ p.family = Len(tokenPair) + 1
    BY <2>1 DEF SessionInv
  <2>2. CASE /\ req[k].kind = "refresh" /\ req[k].at = "found" /\ tp = Revoked({req[k].with})
             /\ p.family = tokenPair[req[k].with].family
    <3>1. Active(req[k])
      BY <1>1 DEF Advance
    <3>2. \A i \in Pair : tp[i].live <=> tokenPair[i].live /\ i \notin {req[k].with}
      BY <2>2, Revoking DEF AuthInv
    <3>3. ASSUME NEW i \in Pair, tokenPair[i].live, ~tp[i].live, tokenPair[i].family \notin excused
          PROVE  /\ \A j \in Request : Active(req[j]) /\ req[j].heard => req[j].new # i
                 /\ \A d \in Device : held[d] = i /\ ~SignsOut(d, req) =>
                       /\ refreshing[d] # NoRequest
                       /\ tokenPair[req[refreshing[d]].with].family = tokenPair[i].family
      <4>1. i = req[k].with /\ i # 0
        BY <3>2, <3>3 DEF Pair
      <4>2. \A j \in Request : Active(req[j]) => req[j].new # i
        BY <3>1, <4>1 DEF SessionInv, Secret
      <4>3. ASSUME NEW d \in Device, held[d] = i
            PROVE  refreshing[d] = k /\ refreshing[d] # NoRequest
        <5>1. refreshing[d] = k
          BY <2>2, <3>1, <3>3, <4>1, <4>3, HeldByRefresher
        <5> QED BY <5>1, AuthAssumption DEF AuthAssumption
      <4> QED BY <4>1, <4>2, <4>3
    <3>4. SameCalls(req)
      BY DEF SameCalls
    <3>5. Secret(req, held, tp) /\ OneLive(req, tp, excused) /\ HeldLive(req, held, refreshing, tp, excused)
      BY <1>1, <3>3, <3>4, RevokingKeepsSessions
    <3>6. ASSUME p.family \notin excused, NEW i \in Pair, tp[i].family = p.family
          PROVE  ~tp[i].live
      <4>1. LiveOnly(p.family, req[k].with, tokenPair)
        BY <2>2, <3>1, <3>6 DEF SessionInv, OneLive
      <4>2. tokenPair[i].family = p.family
        BY <1>1, <3>6 DEF Onward, Pair
      <4> QED BY <3>2, <4>1, <4>2 DEF LiveOnly, Pair
    <3> QED BY <2>2, <3>5, <3>6
  <2> QED BY <1>1, <2>1, <2>2
<1>7. Secret(u, held, up) /\ OneLive(u, up, excused) /\ HeldLive(u, held, refreshing, up, excused)
  <2>1. /\ Advance(k, r) /\ r.new = Len(tokenPair) + 1 /\ req[k].new = 0 /\ r.at # "found"
        /\ Onward(tokenPair, tp) /\ PairsOK(tp, version) /\ Len(tp) = Len(tokenPair) /\ p.live /\ u = req'
    BY <1>1, <1>3
  <2> QED BY <1>5, <1>6, <2>1, IssuedPair
<1> QED BY <1>1, <1>2, <1>3, <1>7 DEF SessionInv

\* What a step of the client may leave of the requests: what they were, or calls that know
\* no secret.
Follows(u) ==
    \A j \in Request : Active(u[j]) =>
      \/ /\ Active(req[j]) /\ u[j].dev = req[j].dev /\ u[j].kind = req[j].kind
         /\ u[j].with = req[j].with /\ u[j].body = req[j].body /\ u[j].new = req[j].new
         /\ u[j].heard => req[j].heard
         /\ u[j].at = "found" => req[j].at = "found"
      \/ /\ u[j].new = 0 /\ u[j].at # "found"
         /\ \A i \in Request : Active(u[i]) /\ u[i].new # 0 =>
               u[j].with # u[i].new /\ u[j].body # u[i].new

\* A step of the client keeps the sessions when no device comes to hold a secret, or a pair
\* that is not live.
LEMMA ClientSessions ==
  ASSUME SessionInv, UNCHANGED tokenPair, excused \subseteq excused', Follows(req'),
         \A i \in Request : Active(req'[i]) /\ req'[i].new # 0 => \A d \in Device : held'[d] # req'[i].new,
         \A d \in Device : held'[d] # 0 /\ tokenPair[held'[d]].family \notin excused' /\ ~SignsOut(d, req') =>
            \/ tokenPair[held'[d]].live
            \/ /\ refreshing'[d] # NoRequest
               /\ tokenPair[req'[refreshing'[d]].with].family = tokenPair[held'[d]].family
  PROVE  SessionInv'
<1>1. PICK u, h, refr, more : u = req' /\ h = held' /\ refr = refreshing' /\ more = excused'
  OBVIOUS
<1>2. Follows(u) /\ excused \subseteq more
  BY <1>1
<1>3. ASSUME NEW i \in Request, Active(u[i]), u[i].new # 0
      PROVE  /\ Active(req[i]) /\ u[i].kind = req[i].kind /\ u[i].new = req[i].new
             /\ u[i].heard => req[i].heard
  BY <1>2, <1>3 DEF Follows
<1>4. Secret(u, h, tokenPair)
  <2> SUFFICES ASSUME NEW i \in Request, Active(u[i]), u[i].new # 0
               PROVE  /\ \A d \in Device : h[d] # u[i].new
                      /\ \A j \in Request : Active(u[j]) =>
                           /\ u[j].with # u[i].new /\ u[j].body # u[i].new
                           /\ j # i => u[j].new # u[i].new
                      /\ u[i].kind = "login" =>
                            \A m \in 1 .. Len(tokenPair) : tokenPair[m].family = u[i].new => m = u[i].new
    BY DEF Secret
  <2>1. Active(req[i]) /\ u[i].kind = req[i].kind /\ u[i].new = req[i].new /\ req[i].new # 0
    BY <1>3
  <2>2. Secret(req, held, tokenPair)
    BY DEF SessionInv
  <2>3. \A d \in Device : h[d] # u[i].new
    BY <1>1
  <2>4. ASSUME NEW j \in Request, Active(u[j])
        PROVE  u[j].with # u[i].new /\ u[j].body # u[i].new /\ (j # i => u[j].new # u[i].new)
    BY <1>2, <2>1, <2>2, <2>4 DEF Follows, Secret
  <2>5. u[i].kind = "login" => \A m \in 1 .. Len(tokenPair) : tokenPair[m].family = u[i].new => m = u[i].new
    BY <2>1, <2>2 DEF Secret
  <2> QED BY <2>3, <2>4, <2>5
<1>5. OneLive(u, tokenPair, more)
  <2>1. OneLive(req, tokenPair, excused)
    BY DEF SessionInv
  <2>2. ASSUME NEW i \in Request, Active(u[i]), u[i].at = "found"
        PROVE  Active(req[i]) /\ req[i].at = "found" /\ req[i].with = u[i].with
    BY <1>2, <2>2 DEF Follows
  <2> QED BY <1>2, <2>1, <2>2 DEF OneLive
<1>6. HeldLive(u, h, refr, tokenPair, more)
  <2>1. \A i \in Request : Active(u[i]) /\ u[i].heard /\ u[i].new # 0 =>
          tokenPair[u[i].new].live \/ tokenPair[u[i].new].family \in more
    BY <1>2, <1>3 DEF SessionInv, HeldLive
  <2>2. \A d \in Device : h[d] # 0 /\ tokenPair[h[d]].family \notin more /\ ~SignsOut(d, u) =>
          \/ tokenPair[h[d]].live
          \/ refr[d] # NoRequest /\ tokenPair[u[refr[d]].with].family = tokenPair[h[d]].family
    BY <1>1
  <2> QED BY <2>1, <2>2 DEF HeldLive
<1> QED BY <1>1, <1>4, <1>5, <1>6 DEF SessionInv

\* What a device holds stays right when its refresh and its sign-out go on.
LEMMA StillHeld ==
  ASSUME AuthInv, SessionInv, NEW d \in Device, held'[d] = held[d], refreshing'[d] = refreshing[d],
         excused \subseteq excused',
         refreshing[d] # NoRequest => req'[refreshing[d]].with = req[refreshing[d]].with,
         SignsOut(d, req) => SignsOut(d, req'),
         held'[d] # 0, tokenPair[held'[d]].family \notin excused', ~SignsOut(d, req')
  PROVE  \/ tokenPair[held'[d]].live
         \/ /\ refreshing'[d] # NoRequest
            /\ tokenPair[req'[refreshing'[d]].with].family = tokenPair[held'[d]].family
<1>1. \/ tokenPair[held[d]].live
      \/ refreshing[d] # NoRequest /\ tokenPair[req[refreshing[d]].with].family = tokenPair[held[d]].family
  BY DEF SessionInv, HeldLive
<1> QED BY <1>1

\* A call of the program knows what its device holds.
LEMMA SendSessions ==
  ASSUME AuthInv, SessionInv, NEW k \in Request, NEW d \in Device, NEW kind \in Kind, Send(k, d, kind)
  PROVE  SessionInv'
<1>1. /\ req[k].at = "idle" /\ kind # "refresh" /\ req' = [req EXCEPT ![k] = NewRequest(d, kind)]
      /\ UNCHANGED <<version, tokenPair, cache, held, refreshing, excused, overtaken>>
  BY DEF Send
<1>2. PICK r : r = NewRequest(d, kind)
  OBVIOUS
<1>3. r.at = "sent" /\ r.with = held[d] /\ r.body = held[d] /\ r.new = 0
  BY <1>1, <1>2, NewCall
<1>4. req'[k] = r /\ \A j \in Request \ {k} : req'[j] = req[j]
  BY <1>1, <1>2 DEF AuthInv, CallsOK
<1>5. \A i \in Request : Active(req'[i]) /\ req'[i].new # 0 =>
        i # k /\ req'[i] = req[i] /\ \A e \in Device : held[e] # req'[i].new
  BY <1>3, <1>4 DEF SessionInv, Secret
<1>6. Follows(req')
  <2>1. ASSUME NEW i \in Request, Active(req'[i]), req'[i].new # 0
        PROVE  r.with # req'[i].new /\ r.body # req'[i].new
    BY <1>3, <1>5, <2>1
  <2> QED BY <1>3, <1>4, <2>1 DEF Follows
<1>7. ASSUME NEW e \in Device, held'[e] # 0, tokenPair[held'[e]].family \notin excused', ~SignsOut(e, req')
      PROVE  \/ tokenPair[held'[e]].live
             \/ /\ refreshing'[e] # NoRequest
                /\ tokenPair[req'[refreshing'[e]].with].family = tokenPair[held'[e]].family
  <2>1. held'[e] = held[e] /\ refreshing'[e] = refreshing[e] /\ excused \subseteq excused'
    BY <1>1
  <2>2. ASSUME refreshing[e] # NoRequest
        PROVE  req'[refreshing[e]].with = req[refreshing[e]].with
    <3>1. refreshing[e] \in Request /\ Active(req[refreshing[e]])
      BY <2>2, NamedPairs
    <3> QED BY <1>1, <1>4, <3>1 DEF Active
  <2>3. SignsOut(e, req) => SignsOut(e, req')
    BY <1>1, <1>4 DEF SignsOut, Active
  <2> QED BY <1>7, <2>1, <2>2, <2>3, StillHeld
<1> QED BY <1>1, <1>5, <1>6, <1>7, ClientSessions

\* A request that ends hands what it was issued to its device, and to the calls that waited.
LEMMA EndsSessions ==
  ASSUME AuthInv, SessionInv, NEW k \in Request, Ends(k)
  PROVE  SessionInv'
<1>1. PICK q, r :
        /\ req' = [q EXCEPT ![k] = r]
        /\ r = IdleRequest \/ (req[k].kind = "change" /\ r = NewRequest(req[k].dev, "login"))
        /\ IF req[k].kind = "refresh" /\ req[k].heard
           THEN \/ req[k].at = "done" /\ q = Resumed(req[k].dev, req[k].new)
                \/ req[k].at = "refused" /\ q = Resumed(req[k].dev, 0)
           ELSE q = req
  BY Ending
<1>2. /\ req[k].at # "idle" /\ UNCHANGED <<version, tokenPair, cache, excused, overtaken>>
      /\ refreshing' = IF req[k].kind = "refresh" /\ req[k].heard
                       THEN [refreshing EXCEPT ![req[k].dev] = NoRequest] ELSE refreshing
      /\ \/ /\ req[k].kind \in {"login", "refresh"} /\ req[k].heard
            /\ held' = [held EXCEPT ![req[k].dev] = req[k].new]
         \/ /\ req[k].kind \in {"logout", "refresh"} /\ req[k].heard
            /\ held' = [held EXCEPT ![req[k].dev] = 0]
         \/ held' = held /\ (req[k].heard => req[k].kind \notin {"logout", "refresh"})
  BY Ending
<1>3. /\ Active(req[k]) /\ req[k].dev \in Device /\ req[k].new \in 0 .. Len(tokenPair) /\ 0 \in 0 .. Len(tokenPair)
      /\ req[k].new # 0 => tokenPair[req[k].new].dev = req[k].dev
      /\ req[k].kind # "refresh" => req[k].heard
  <2>1. Len(tokenPair) \in Nat
    BY NamedPairs
  <2>2. req[k] \in Call /\ Names(req[k], tokenPair) /\ StageOK(req[k], version)
    BY <1>2, ActiveCall
  <2> QED BY <1>2, <2>1, <2>2 DEF Call, Names, StageOK, Active
<1>4. PICK pair : /\ pair \in {0, req[k].new}
                  /\ q = req \/ (q = Resumed(req[k].dev, pair) /\ req[k].kind = "refresh" /\ req[k].heard)
                  /\ (req[k].kind = "refresh" /\ req[k].heard) \/ q = req
  BY <1>1
<1>5. /\ q = [j \in Request |-> q[j]]
      /\ \A j \in Request :
           \/ q[j] = req[j] /\ (q = req \/ j \notin Waiting(req[k].dev))
           \/ /\ q # req /\ req[j].dev = req[k].dev /\ req[j].at = "waiting"
              /\ req[j].kind \in {"data", "logout", "change"}
              /\ \/ q[j] = IdleRequest
                 \/ /\ q[j].at = "sent" /\ q[j].with = pair
                    /\ q[j].body = req[j].body /\ q[j].new = 0
  <2>1. CASE q = req
    BY <2>1 DEF AuthInv, CallsOK
  <2>2. CASE q # req
    <3>1. q = Resumed(req[k].dev, pair) /\ pair \in 0 .. Len(tokenPair) /\ (pair # 0 => tokenPair[pair].dev = req[k].dev)
      BY <1>3, <1>4, <2>2
    <3> QED BY <1>3, <2>2, <3>1, ResumedCalls
  <2> QED BY <2>1, <2>2
<1>6. /\ req'[k] = r /\ \A j \in Request \ {k} : req'[j] = q[j]
  BY <1>1, <1>5
<1>7. ~Active(IdleRequest)
  BY DEF Active, IdleRequest
<1>8. \/ r = IdleRequest
      \/ /\ req[k].kind = "change" /\ r.at = "sent" /\ r.with = held[req[k].dev] /\ r.body = held[req[k].dev] /\ r.new = 0
         /\ r.dev = req[k].dev /\ r.kind = "login"
  BY <1>1, <1>3, NewCall DEF Kind
<1>9. ASSUME NEW i \in Request, Active(req'[i]), req'[i].new # 0
      PROVE  /\ i # k /\ req'[i] = req[i] /\ Active(req[i]) /\ req[i].new # 0
             /\ \A e \in Device : held[e] # req'[i].new
             /\ \A j \in Request : Active(req[j]) => req[j].body # req'[i].new
             /\ pair # req'[i].new /\ req[k].new # req'[i].new
  <2>1. i # k
    BY <1>6, <1>7, <1>8, <1>9
  <2>2. req'[i] = req[i] /\ Active(req[i]) /\ req[i].new # 0
    BY <1>5, <1>6, <1>7, <1>9, <2>1
  <2>3. Secret(req, held, tokenPair)
    BY DEF SessionInv
  <2>4. /\ \A e \in Device : held[e] # req[i].new
        /\ \A j \in Request : Active(req[j]) => req[j].body # req[i].new
        /\ req[k].new # req[i].new
    BY <1>3, <2>1, <2>2, <2>3 DEF Secret
  <2> QED BY <1>4, <2>1, <2>2, <2>4
<1>10. Follows(req')
  <2> SUFFICES ASSUME NEW j \in Request, Active(req'[j])
               PROVE  \/ /\ Active(req[j]) /\ req'[j].dev = req[j].dev /\ req'[j].kind = req[j].kind
                         /\ req'[j].with = req[j].with /\ req'[j].body = req[j].body /\ req'[j].new = req[j].new
                         /\ req'[j].heard => req[j].heard
                         /\ req'[j].at = "found" => req[j].at = "found"
                      \/ /\ req'[j].new = 0 /\ req'[j].at # "found"
                         /\ \A i \in Request : Active(req'[i]) /\ req'[i].new # 0 =>
                               req'[j].with # req'[i].new /\ req'[j].body # req'[i].new
    BY DEF Follows
  <2>1. CASE j = k
    <3>1. /\ req'[j].at = "sent" /\ req'[j].with = held[req[k].dev] /\ req'[j].body = held[req[k].dev] /\ req'[j].new = 0
      BY <1>6, <1>7, <1>8, <2>1
    <3>2. \A i \in Request : Active(req'[i]) /\ req'[i].new # 0 =>
             req'[j].with # req'[i].new /\ req'[j].body # req'[i].new
      BY <1>3, <1>9, <3>1
    <3> QED BY <3>1, <3>2
  <2>2. CASE j # k /\ q[j] = req[j]
    BY <1>6, <2>2
  <2>3. CASE j # k /\ q[j] # req[j]
    <3>1. /\ req[j].at = "waiting" /\ req'[j].at = "sent" /\ req'[j].with = pair
          /\ req'[j].body = req[j].body /\ req'[j].new = 0
      BY <1>5, <1>6, <1>7, <2>3
    <3>2. Active(req[j])
      BY <3>1 DEF Active
    <3>3. \A i \in Request : Active(req'[i]) /\ req'[i].new # 0 =>
             req'[j].with # req'[i].new /\ req'[j].body # req'[i].new
      BY <1>9, <3>1, <3>2
    <3> QED BY <3>1, <3>3
  <2> QED BY <2>1, <2>2, <2>3
<1>11. held \in [Device -> 0 .. Len(tokenPair)] /\ refreshing \in [Device -> Request \cup {NoRequest}]
  BY DEF AuthInv, HeldOK, FlightOK
<1>12. \A i \in Request : Active(req'[i]) /\ req'[i].new # 0 => \A d \in Device : held'[d] # req'[i].new
  <2>1. \A d \in Device : held'[d] \in {held[d], 0, req[k].new}
    BY <1>2, <1>3, <1>11
  <2> QED BY <1>9, <2>1
<1>13. ASSUME NEW d \in Device, held'[d] # 0, tokenPair[held'[d]].family \notin excused', ~SignsOut(d, req')
       PROVE  \/ tokenPair[held'[d]].live
              \/ /\ refreshing'[d] # NoRequest
                 /\ tokenPair[req'[refreshing'[d]].with].family = tokenPair[held'[d]].family
  <2>1. CASE d = req[k].dev /\ held' # held
    <3>1. held'[d] = req[k].new /\ req[k].heard
      BY <1>2, <1>11, <1>13, <2>1
    <3>2. tokenPair[req[k].new].live \/ tokenPair[req[k].new].family \in excused
      BY <1>3, <1>13, <3>1 DEF SessionInv, HeldLive
    <3> QED BY <1>2, <1>13, <3>1, <3>2
  <2>2. CASE d # req[k].dev \/ held' = held
    <3>1. held'[d] = held[d] /\ excused \subseteq excused'
      BY <1>2, <1>11, <2>2
    <3>2. CASE d # req[k].dev
      <4>1. refreshing'[d] = refreshing[d]
        BY <1>2, <1>11, <3>2
      <4>2. ASSUME refreshing[d] # NoRequest
            PROVE  req'[refreshing[d]].with = req[refreshing[d]].with
        <5>1. /\ refreshing[d] \in Request /\ req[refreshing[d]].dev = d
              /\ req[refreshing[d]].kind = "refresh"
          BY <4>2, NamedPairs
        <5>2. refreshing[d] # k /\ q[refreshing[d]] = req[refreshing[d]]
          BY <1>5, <3>2, <5>1
        <5> QED BY <1>6, <5>1, <5>2
      <4>3. ASSUME SignsOut(d, req)
            PROVE  SignsOut(d, req')
        <5>1. PICK j \in Request : Active(req[j]) /\ req[j].dev = d /\ req[j].kind = "logout"
          BY <4>3 DEF SignsOut
        <5>2. j # k /\ q[j] = req[j]
          BY <1>5, <3>2, <5>1
        <5> QED BY <1>6, <5>1, <5>2 DEF SignsOut
      <4> QED BY <1>13, <3>1, <4>1, <4>2, <4>3, StillHeld
    <3>3. CASE d = req[k].dev /\ held' = held
      <4>1. CASE req[k].heard /\ req[k].kind \in {"logout", "refresh"}
        <5>1. held'[d] = 0 \/ held'[d] = req[k].new
          BY <1>2, <1>11, <3>3, <4>1
        <5>2. held'[d] = req[k].new /\ req[k].new # 0
          BY <1>13, <5>1
        <5>3. tokenPair[req[k].new].live \/ tokenPair[req[k].new].family \in excused
          BY <1>3, <4>1, <5>2 DEF SessionInv, HeldLive
        <5> QED BY <1>2, <1>13, <5>2, <5>3
      <4>2. CASE ~req[k].heard \/ req[k].kind \notin {"logout", "refresh"}
        <5>1. q = req /\ refreshing' = refreshing /\ req[k].kind # "logout"
          BY <1>2, <1>3, <1>4, <4>2
        <5>2. ASSUME refreshing[d] # NoRequest
              PROVE  req'[refreshing[d]].with = req[refreshing[d]].with
          <6>1. refreshing[d] \in Request /\ req[refreshing[d]].kind = "refresh" /\ req[refreshing[d]].heard
            BY <5>2, NamedPairs
          <6>2. refreshing[d] # k
            BY <4>2, <6>1
          <6> QED BY <1>6, <5>1, <6>1, <6>2
        <5>3. SignsOut(d, req) => SignsOut(d, req')
          BY <1>6, <5>1 DEF SignsOut
        <5> QED BY <1>13, <3>1, <5>1, <5>2, <5>3, StillHeld
      <4> QED BY <4>1, <4>2
    <3> QED BY <2>2, <3>2, <3>3
  <2> QED BY <2>1, <2>2
<1> QED BY <1>2, <1>10, <1>12, <1>13, ClientSessions

\* A refresh that starts is sent with what its device holds.
LEMMA StartSessions ==
  ASSUME AuthInv, SessionInv, NEW k \in Request, NEW j \in Request, StartRefresh(k, j)
  PROVE  SessionInv'
<1>1. PICK q, w, r :
           /\ q = [req EXCEPT ![k] = w] /\ req' = [q EXCEPT ![j] = r] /\ j # k
           /\ req[k].at = "refused" /\ req[j].at = "idle"
           /\ w.at = "waiting" /\ w.dev = req[k].dev /\ w.kind = req[k].kind
           /\ w.with = req[k].with /\ w.body = req[k].body /\ w.heard = req[k].heard
           /\ w.new = 0 /\ req[k].new = 0 /\ w.kind # "refresh"
           /\ r.at = "sent" /\ r.kind = "refresh" /\ r.new = 0
           /\ r.with = held[r.dev] /\ r.body = held[r.dev]
           /\ r.dev \in Device /\ refreshing' = [refreshing EXCEPT ![r.dev] = j]
           /\ UNCHANGED <<version, tokenPair, cache, held, excused, overtaken>>
  BY Starting
<1>2. req'[j] = r /\ req'[k] = w /\ \A i \in Request \ {j, k} : req'[i] = req[i]
  BY <1>1 DEF AuthInv, CallsOK
<1>3. \A i \in Request : Active(req'[i]) /\ req'[i].new # 0 =>
        i # j /\ i # k /\ req'[i] = req[i] /\ \A e \in Device : held[e] # req'[i].new
  <2>1. ASSUME NEW i \in Request, Active(req'[i]), req'[i].new # 0
        PROVE  i # j /\ i # k /\ req'[i] = req[i]
    BY <1>1, <1>2, <2>1
  <2>2. \A i \in Request : Active(req[i]) /\ req[i].new # 0 => \A e \in Device : held[e] # req[i].new
    BY DEF SessionInv, Secret
  <2> QED BY <2>1, <2>2
<1>4. Follows(req')
  <2>1. ASSUME NEW i \in Request, Active(req'[i]), req'[i].new # 0
        PROVE  r.with # req'[i].new /\ r.body # req'[i].new
    BY <1>1, <1>3, <2>1
  <2>2. /\ Active(req[k]) /\ w.at # "found"
        /\ w.dev = req[k].dev /\ w.kind = req[k].kind /\ w.with = req[k].with /\ w.body = req[k].body
        /\ w.new = req[k].new /\ w.heard = req[k].heard
    BY <1>1 DEF Active
  <2>3. r.new = 0 /\ r.at # "found"
    BY <1>1
  <2> SUFFICES ASSUME NEW i \in Request, Active(req'[i])
               PROVE  \/ /\ Active(req[i]) /\ req'[i].dev = req[i].dev /\ req'[i].kind = req[i].kind
                         /\ req'[i].with = req[i].with /\ req'[i].body = req[i].body /\ req'[i].new = req[i].new
                         /\ req'[i].heard => req[i].heard
                         /\ req'[i].at = "found" => req[i].at = "found"
                      \/ /\ req'[i].new = 0 /\ req'[i].at # "found"
                         /\ \A n \in Request : Active(req'[n]) /\ req'[n].new # 0 =>
                               req'[i].with # req'[n].new /\ req'[i].body # req'[n].new
    BY DEF Follows
  <2>4. CASE i = j
    BY <1>2, <2>1, <2>3, <2>4
  <2>5. CASE i = k
    BY <1>2, <2>2, <2>5
  <2>6. CASE i # j /\ i # k
    BY <1>2, <2>6
  <2> QED BY <2>4, <2>5, <2>6
<1>5. refreshing \in [Device -> Request \cup {NoRequest}] /\ NoRequest \notin Request
  BY AuthAssumption DEF AuthInv, FlightOK, AuthAssumption
<1>6. ASSUME NEW d \in Device, held'[d] # 0, tokenPair[held'[d]].family \notin excused', ~SignsOut(d, req')
      PROVE  \/ tokenPair[held'[d]].live
             \/ /\ refreshing'[d] # NoRequest
                /\ tokenPair[req'[refreshing'[d]].with].family = tokenPair[held'[d]].family
  <2>1. CASE d = r.dev
    <3>1. refreshing'[d] = j /\ j # NoRequest
      BY <1>1, <1>5, <2>1
    <3> QED BY <1>1, <1>2, <2>1, <3>1
  <2>2. CASE d # r.dev
    <3>1. held'[d] = held[d] /\ refreshing'[d] = refreshing[d] /\ excused \subseteq excused'
      BY <1>1, <1>5, <2>2
    <3>2. ASSUME refreshing[d] # NoRequest
          PROVE  req'[refreshing[d]].with = req[refreshing[d]].with
      <4>1. /\ refreshing[d] \in Request /\ Active(req[refreshing[d]]) /\ req[refreshing[d]].kind = "refresh"
        BY <3>2, NamedPairs
      <4>2. refreshing[d] # j /\ refreshing[d] # k
        BY <1>1, <4>1 DEF Active
      <4> QED BY <1>2, <4>1, <4>2
    <3>3. SignsOut(d, req) => SignsOut(d, req')
      BY <1>1, <1>2 DEF SignsOut, Active
    <3> QED BY <1>6, <3>1, <3>2, <3>3, StillHeld
  <2> QED BY <2>1, <2>2
<1>7. UNCHANGED tokenPair /\ excused \subseteq excused'
  BY <1>1
<1>8. \A i \in Request : Active(req'[i]) /\ req'[i].new # 0 => \A d \in Device : held'[d] # req'[i].new
  BY <1>1, <1>3
<1> QED BY <1>4, <1>6, <1>7, <1>8, ClientSessions

\* A refresh that is given up excuses its family.
LEMMA LostSessions ==
  ASSUME AuthInv, SessionInv, NEW k \in Request, RefreshLost(k)
  PROVE  SessionInv'
<1>1. PICK q, r :
           /\ q = Resumed(req[k].dev, 0) /\ req' = [q EXCEPT ![k] = r]
           /\ req[k].at # "idle" /\ req[k].kind = "refresh" /\ req[k].heard
           /\ r.at = req[k].at /\ r.dev = req[k].dev /\ r.kind = "refresh"
           /\ r.with = req[k].with /\ r.body = req[k].body /\ ~r.heard /\ r.new = req[k].new
           /\ r.dev \in Device
           /\ refreshing' = [refreshing EXCEPT ![req[k].dev] = NoRequest]
           /\ excused' = excused \cup {tokenPair[req[k].with].family}
           /\ held' = IF \E j \in Waiting(req[k].dev) : req[j].kind = "logout"
                      THEN [held EXCEPT ![req[k].dev] = 0] ELSE held
           /\ UNCHANGED <<version, tokenPair, cache, overtaken>>
  BY Losing
<1>2. Active(req[k]) /\ req[k].dev \in Device /\ 0 \in 0 .. Len(tokenPair)
  BY <1>1, NamedPairs DEF Active
<1>3. /\ q = [j \in Request |-> q[j]]
      /\ \A j \in Request :
           \/ q[j] = req[j] /\ j \notin Waiting(req[k].dev)
           \/ /\ j \in Waiting(req[k].dev) /\ req[j].dev = req[k].dev
              /\ req[j].kind \in {"data", "logout", "change"} /\ q[j] = IdleRequest
  BY <1>1, <1>2, ResumedCalls
<1>4. req'[k] = r /\ \A j \in Request \ {k} : req'[j] = q[j]
  BY <1>1, <1>3
<1>5. ~Active(IdleRequest)
  BY DEF Active, IdleRequest
<1>6. Follows(req')
  <2>1. \A j \in Request \ {k} : Active(req'[j]) => req'[j] = req[j]
    BY <1>3, <1>4, <1>5
  <2> QED BY <1>1, <1>2, <1>4, <2>1 DEF Follows
<1>7. held \in [Device -> 0 .. Len(tokenPair)] /\ refreshing \in [Device -> Request \cup {NoRequest}]
  BY DEF AuthInv, HeldOK, FlightOK
<1>8. \A i \in Request : Active(req'[i]) /\ req'[i].new # 0 => \A d \in Device : held'[d] # req'[i].new
  <2>1. \A d \in Device : held'[d] \in {held[d], 0}
    BY <1>1, <1>2, <1>7
  <2>2. ASSUME NEW i \in Request, Active(req'[i]), req'[i].new # 0
        PROVE  Active(req[i]) /\ req[i].new = req'[i].new
    BY <1>1, <1>2, <1>3, <1>4, <1>5, <2>2
  <2>3. \A i \in Request : Active(req[i]) /\ req[i].new # 0 => \A d \in Device : held[d] # req[i].new
    BY DEF SessionInv, Secret
  <2> QED BY <2>1, <2>2, <2>3
<1>9. ASSUME NEW d \in Device, held'[d] # 0, tokenPair[held'[d]].family \notin excused', ~SignsOut(d, req')
      PROVE  \/ tokenPair[held'[d]].live
             \/ /\ refreshing'[d] # NoRequest
                /\ tokenPair[req'[refreshing'[d]].with].family = tokenPair[held'[d]].family
  <2>1. CASE d = req[k].dev
    <3>1. held' = held /\ ~\E j \in Waiting(d) : req[j].kind = "logout"
      BY <1>1, <1>7, <1>9, <2>1
    <3>2. ~SignsOut(d, req)
      <4>1. ASSUME NEW j \in Request, Active(req[j]), req[j].dev = d, req[j].kind = "logout"
            PROVE  FALSE
        <5>1. j \notin Waiting(d) /\ j # k
          BY <1>1, <3>1, <4>1
        <5>2. req'[j] = req[j]
          BY <1>3, <1>4, <2>1, <5>1
        <5> QED BY <1>9, <4>1, <5>2 DEF SignsOut
      <4> QED BY <4>1 DEF SignsOut
    <3>3. refreshing[d] = k
      BY <1>1, <1>2, <2>1, NamedPairs
    <3>4. \/ tokenPair[held[d]].live
          \/ tokenPair[req[k].with].family = tokenPair[held[d]].family
      BY <1>1, <1>9, <3>1, <3>2, <3>3 DEF SessionInv, HeldLive
    <3> QED BY <1>1, <1>9, <3>1, <3>4
  <2>2. CASE d # req[k].dev
    <3>1. held'[d] = held[d] /\ refreshing'[d] = refreshing[d] /\ excused \subseteq excused'
      BY <1>1, <1>7, <2>2
    <3>2. ASSUME refreshing[d] # NoRequest
          PROVE  req'[refreshing[d]].with = req[refreshing[d]].with
      <4>1. /\ refreshing[d] \in Request /\ req[refreshing[d]].dev = d
        BY <3>2, NamedPairs
      <4>2. refreshing[d] # k /\ q[refreshing[d]] = req[refreshing[d]]
        BY <1>3, <2>2, <4>1
      <4> QED BY <1>4, <4>1, <4>2
    <3>3. ASSUME SignsOut(d, req)
          PROVE  SignsOut(d, req')
      <4>1. PICK j \in Request : Active(req[j]) /\ req[j].dev = d /\ req[j].kind = "logout"
        BY <3>3 DEF SignsOut
      <4>2. j # k /\ q[j] = req[j]
        BY <1>3, <2>2, <4>1
      <4> QED BY <1>4, <4>1, <4>2 DEF SignsOut
    <3> QED BY <1>9, <3>1, <3>2, <3>3, StillHeld
  <2> QED BY <2>1, <2>2
<1>10. UNCHANGED tokenPair /\ excused \subseteq excused'
  BY <1>1
<1> QED BY <1>6, <1>8, <1>9, <1>10, ClientSessions

\* Every step keeps the sessions.
LEMMA StepSession ==
  ASSUME AuthInv, SessionInv, [AuthNext]_authVars
  PROVE  SessionInv'
<1>1. ASSUME NEW k \in Request, Handle(k) \/ JoinRefresh(k)
      PROVE  SessionInv'
  BY <1>1, QuietSessions, FindingSessions, RevokingSessions, IssuingSessions DEF Handle, Quiet, Revokes, Issues
<1>2. ASSUME NEW k \in Request, Client(k)
      PROVE  SessionInv'
  BY <1>1, <1>2, SendSessions, EndsSessions, StartSessions, LostSessions DEF Client, Ends
<1>3. CASE UNCHANGED authVars
  BY <1>3 DEF authVars, SessionInv
<1> QED BY <1>1, <1>2, <1>3, AsideSessions DEF AuthNext

\* What a request is issued stays its own until its client holds it, a family has one live
\* pair, and what is held is live, for any overlap of requests, lost answers and changes of
\* the password.
THEOREM SessionInvariant == AuthSpec => []SessionInv
<1>1. AuthInit => SessionInv
  BY InitAuth
<1> QED BY <1>1, StepSession, AuthInvariant, PTL DEF AuthSpec

\* No family has two live refresh tokens, unless its refresh was given up or another device
\* changed the password.
THEOREM OneLiveToken == AuthSpec => []OneLiveTokenPerFamily
<1>1. ASSUME SessionInv
      PROVE  OneLiveTokenPerFamily
  BY <1>1 DEF SessionInv, OneLive, OneLiveTokenPerFamily, Pair
<1> QED BY <1>1, SessionInvariant, PTL

\* The refresh token a device holds is live, unless it is being renewed or revoked.
THEOREM HeldTokens == AuthSpec => []HeldTokenIsLive
<1>1. ASSUME SessionInv
      PROVE  HeldTokenIsLive
  BY <1>1 DEF SessionInv, HeldLive, HeldTokenIsLive, SignsOut, Active
<1> QED BY <1>1, SessionInvariant, PTL

-----------------------------------------------------------------------------
(* Scopes, and what upsert does to one permission.                         *)

\* The scopes, and their ranks.
LEMMA Ranks ==
    /\ Scope = {"NONE", "SELF", "TEAM", "SUBDEPT", "DEPT", "ALL"}
    /\ \A s \in Scope : SCOPE_RANK[s] \in Nat /\ ViewRank[s] \in Nat
    /\ SCOPE_RANK["NONE"] = 0 /\ SCOPE_RANK["SELF"] = 0 /\ SCOPE_RANK["TEAM"] = 0
    /\ SCOPE_RANK["SUBDEPT"] = 1 /\ SCOPE_RANK["DEPT"] = 2 /\ SCOPE_RANK["ALL"] = 3
<1>1. Scope = {"NONE", "SELF", "TEAM", "SUBDEPT", "DEPT", "ALL"}
  BY DEF Scope, SCOPE_RANK
<1> QED  BY <1>1 DEF SCOPE_RANK, ViewRank

\* Permissions with their scopes.
Scoped(byCode) == \A c \in DOMAIN byCode : byCode[c] \in Scope

\* upsert, for one permission.
LEMMA UpsertAt ==
  ASSUME NEW m, NEW codes, NEW scope, NEW c
  PROVE  /\ c \in DOMAIN upsert(m, codes, scope) <=> c \in DOMAIN m \/ c \in codes
         /\ c \in DOMAIN m \/ c \in codes =>
              upsert(m, codes, scope)[c] =
                IF c \in codes /\ (c \notin DOMAIN m \/ SCOPE_RANK[scope] > SCOPE_RANK[m[c]])
                THEN scope ELSE m[c]
BY DEF upsert, Granted

\* It enters scopes.
LEMMA UpsertScoped ==
  ASSUME NEW m, Scoped(m), NEW codes, NEW scope \in Scope
  PROVE  Scoped(upsert(m, codes, scope))
<1> SUFFICES ASSUME NEW c \in DOMAIN upsert(m, codes, scope)
             PROVE  upsert(m, codes, scope)[c] \in Scope
  BY DEF Scoped
<1>1. c \in DOMAIN m \/ c \in codes
  BY UpsertAt
<1> QED  BY <1>1, UpsertAt DEF Scoped

\* Delete, for one permission.
LEMMA DeleteAt ==
  ASSUME NEW m, NEW codes, NEW c
  PROVE  /\ c \in DOMAIN Delete(m, codes) <=> c \in DOMAIN m /\ c \notin codes
         /\ c \in DOMAIN m /\ c \notin codes => Delete(m, codes)[c] = m[c]
BY DEF Delete

-----------------------------------------------------------------------------
(* The roles one after the other.                                          *)

\* Whatever holds of the first number of an interval and passes from each to the next
\* holds of all: here, a set without the first and closed downwards is empty.
LEMMA NoFirst ==
  ASSUME NEW n \in Nat, NEW T \in SUBSET (0 .. n), 0 \notin T,
         \A i \in T : i # 0 => i - 1 \in T
  PROVE  T = {}
<1> DEFINE Upto(i) == {j \in T : j <= i}
<1> DEFINE Heads == {Upto(i) : i \in T}
<1>1. SUFFICES ASSUME T # {} PROVE FALSE
  OBVIOUS
<1>2. IsFiniteSet(T)
  <2>1. IsFiniteSet(0 .. n)
    BY FS_Interval
  <2> QED  BY <2>1, FS_Subset
<1>3. Heads # {} /\ Heads \subseteq SUBSET T
  BY <1>1
<1>4. Heads \subseteq FiniteSubsetsOf(T)
  BY <1>2, <1>3, FS_Subset DEF FiniteSubsetsOf
<1>5. PICK M \in Heads : \A H \in Heads : <<H, M>> \notin StrictSubsetOrdering(T)
  <2> HIDE DEF Heads
  <2> QED  BY <1>3, <1>4, FS_StrictSubsetOrderingWellFounded, WFMin
<1>6. PICK i \in T : M = Upto(i)
  OBVIOUS
<1>7. i - 1 \in T
  OBVIOUS
<1>8. Upto(i - 1) \in Heads
  BY <1>7
<1>9. i \in Upto(i) /\ i \notin Upto(i - 1) /\ Upto(i - 1) \subseteq Upto(i)
  <2>1. i \in Nat /\ i <= i /\ ~(i <= i - 1)
    OBVIOUS
  <2>2. \A j \in T : j <= i - 1 => j <= i
    OBVIOUS
  <2> QED  BY <2>1, <2>2
<1>10. <<Upto(i - 1), Upto(i)>> \in StrictSubsetOrdering(T)
  <2>1. Upto(i - 1) \in SUBSET T /\ Upto(i) \in SUBSET T
    OBVIOUS
  <2> HIDE DEF Upto
  <2> QED  BY <1>8, <1>9, <2>1 DEF StrictSubsetOrdering
<1> QED  BY <1>5, <1>6, <1>8, <1>10

Rounds(f, order, n) ==
    f = [i \in 0 .. n |-> IF i = 0 THEN <<>> ELSE OfRole(f[i - 1], order[i])]

\* The loop over the roles is well defined.
LEMMA RoundsExist ==
  ASSUME NEW order, NEW n \in Nat
  PROVE  \E f : Rounds(f, order, n)
<1> DEFINE T == {k \in 0 .. n : ~ \E f : Rounds(f, order, k)}
<1>1. 0 \notin T
  <2>1. Rounds([i \in 0 .. 0 |-> <<>>], order, 0)
    BY DEF Rounds
  <2> QED  BY <2>1
<1>2. ASSUME NEW k \in T, k # 0, k - 1 \notin T
      PROVE  FALSE
  <2>1. k - 1 \in 0 .. n
    BY <1>2
  <2>2. PICK f : Rounds(f, order, k - 1)
    BY <1>2, <2>1
  <2> DEFINE h == [i \in 0 .. k |-> IF i = k THEN OfRole(f[k - 1], order[k]) ELSE f[i]]
             step(i) == IF i = 0 THEN <<>> ELSE OfRole(h[i - 1], order[i])
  <2>3. ASSUME NEW i \in 0 .. k
        PROVE  h[i] = step(i)
    <3>1. CASE i = k
      <4>1. k \in Nat /\ k - 1 \in 0 .. k /\ k - 1 # k
        BY <1>2
      <4>2. h[k - 1] = f[k - 1] /\ h[k] = OfRole(f[k - 1], order[k])
        BY <4>1
      <4> HIDE DEF h
      <4> QED  BY <1>2, <3>1, <4>2
    <3>2. CASE i # k
      <4>1. i \in 0 .. k - 1
        BY <3>2
      <4>2. f[i] = IF i = 0 THEN <<>> ELSE OfRole(f[i - 1], order[i])
        BY <2>2, <4>1 DEF Rounds
      <4>3. h[i] = f[i] /\ (i # 0 => h[i - 1] = f[i - 1])
        BY <3>2
      <4> QED  BY <4>2, <4>3
    <3> QED  BY <3>1, <3>2
  <2>4. Rounds(h, order, k)
    <3>1. h = [i \in 0 .. k |-> h[i]]
      OBVIOUS
    <3>2. h = [i \in 0 .. k |-> step(i)]
      <4> HIDE DEF h, step
      <4> QED  BY <2>3, <3>1
    <3> QED  BY <3>2 DEF Rounds
  <2> QED  BY <1>2, <2>4
<1>3. T = {}
  <2> HIDE DEF T
  <2>1. T \in SUBSET (0 .. n)
    BY DEF T
  <2> QED  BY <1>1, <1>2, <2>1, NoFirst
<1> QED  BY <1>3

\* Before the first role nothing is entered, and each role adds its own.
LEMMA EnteredStep ==
  ASSUME NEW order, Len(order) \in Nat
  PROVE  /\ Entered(order)[0] = <<>>
         /\ \A i \in 1 .. Len(order) :
               Entered(order)[i] = OfRole(Entered(order)[i - 1], order[i])
<1>1. Entered(order) = CHOOSE f : Rounds(f, order, Len(order))
  BY DEF Entered, Rounds
<1>2. Rounds(Entered(order), order, Len(order))
  BY <1>1, RoundsExist
<1> QED  BY <1>2 DEF Rounds

\* An order the database may return has each role of the user, and no other.
LEMMA OrderCovers ==
  ASSUME NEW S, IsFiniteSet(S), NEW order \in SetToSeqs(S)
  PROVE  /\ Len(order) \in Nat
         /\ \A i \in 1 .. Len(order) : order[i] \in S
         /\ \A g \in S : \E i \in 1 .. Len(order) : order[i] = g
         /\ ToSet(order) = S
<1> DEFINE n == Cardinality(S)
<1>1. n \in Nat
  BY FS_CardinalityType
<1>2. order \in [1 .. n -> S] /\ \A i, j \in 1 .. n : i # j => order[i] # order[j]
  BY DEF SetToSeqs
<1>3. order \in Injection(1 .. n, S)
  BY <1>2 DEF Injection, IsInjective
<1>4. IsFiniteSet(1 .. n) /\ Cardinality(1 .. n) = n
  BY <1>1, FS_Interval
<1>5. order \in Surjection(1 .. n, S)
  BY <1>3, <1>4, FS_Injection
<1>6. \A g \in S : \E i \in 1 .. n : order[i] = g
  BY <1>5 DEF Surjection
<1>7. order \in Seq(S)
  BY <1>1, <1>2, SeqDef
<1>8. Len(order) \in Nat /\ DOMAIN order = 1 .. Len(order)
  BY <1>7, LenProperties
<1>9. 1 .. Len(order) = 1 .. n
  BY <1>2, <1>8
<1> QED  BY <1>2, <1>6, <1>8, <1>9 DEF ToSet

\* What a role does is to enter its permissions and those of its row, and to take the
\* denied ones of that row out.
LEMMA OfRoleIs ==
  ASSUME NEW g, NEW m
  PROVE  /\ g.expired => OfRole(m, g) = m
         /\ ~g.expired /\ Special(g) = {} => OfRole(m, g) = upsert(m, RoleCodes[g.role], g.scope)
         /\ ~g.expired /\ Special(g) # {} =>
              \E s \in Special(g) :
                 /\ Special(g) = {s}
                 /\ OfRole(m, g) =
                      Delete(upsert(upsert(m, RoleCodes[g.role], g.scope), s.extra, s.scope),
                             s.deny \cap RoleCodes[g.role])
<1>1. \A s, t \in Special(g) : s = t
  BY AccessAssumption DEF Special
<1>2. CASE g.expired
  BY <1>2 DEF OfRole
<1>3. CASE ~g.expired /\ Special(g) = {}
  BY <1>3 DEF OfRole
<1>4. CASE ~g.expired /\ Special(g) # {}
  <2> DEFINE s == CHOOSE s \in Special(g) : TRUE
  <2>1. s \in Special(g)
    BY <1>4
  <2>2. OfRole(m, g) = Delete(upsert(upsert(m, RoleCodes[g.role], g.scope), s.extra, s.scope),
                              s.deny \cap RoleCodes[g.role])
    BY <1>4 DEF OfRole
  <2> HIDE DEF s
  <2>3. Special(g) = {s}
    BY <1>1, <2>1
  <2> QED  BY <1>4, <2>1, <2>2, <2>3
<1> QED  BY <1>2, <1>3, <1>4

-----------------------------------------------------------------------------
(* Every scope in a profile is one.                                        *)

\* A role enters scopes.
LEMMA OfRoleScoped ==
  ASSUME NEW g \in RoleGrant, NEW m, Scoped(m)
  PROVE  Scoped(OfRole(m, g))
<1>1. g.scope \in Scope /\ \A s \in Special(g) : s.scope \in Scope
  BY AccessAssumption DEF RoleGrant, Special
<1> DEFINE base == upsert(m, RoleCodes[g.role], g.scope)
<1>2. Scoped(base)
  BY <1>1, UpsertScoped
<1>3. ASSUME NEW s \in Special(g),
             OfRole(m, g) = Delete(upsert(base, s.extra, s.scope), s.deny \cap RoleCodes[g.role])
      PROVE  Scoped(OfRole(m, g))
  <2> HIDE DEF base
  <2>1. Scoped(upsert(base, s.extra, s.scope))
    BY <1>1, <1>2, UpsertScoped
  <2> QED  BY <1>3, <2>1, DeleteAt DEF Scoped
<1> QED  BY <1>2, <1>3, OfRoleIs

\* So do all of them.
LEMMA EnteredScoped ==
  ASSUME NEW order, Len(order) \in Nat, \A i \in 1 .. Len(order) : order[i] \in RoleGrant
  PROVE  \A i \in 0 .. Len(order) : Scoped(Entered(order)[i])
<1> DEFINE T == {i \in 0 .. Len(order) : ~ Scoped(Entered(order)[i])}
<1>1. 0 \notin T
  BY EnteredStep DEF Scoped
<1>2. ASSUME NEW i \in T, i # 0, i - 1 \notin T
      PROVE  FALSE
  <2>1. i \in 1 .. Len(order) /\ i - 1 \in 0 .. Len(order)
    BY <1>2
  <2>2. Scoped(Entered(order)[i - 1]) /\ ~ Scoped(Entered(order)[i])
    BY <1>2, <2>1
  <2> QED  BY <2>1, <2>2, EnteredStep, OfRoleScoped
<1>3. T = {}
  <2> HIDE DEF T
  <2>1. T \in SUBSET (0 .. Len(order))
    BY DEF T
  <2> QED  BY <1>1, <1>2, <2>1, NoFirst
<1> QED  BY <1>3

\* Some scope of a set is the widest.
LEMMA WidestExists ==
  ASSUME NEW S \in SUBSET Scope, S # {}
  PROVE  Widest(S) \in S /\ \A s \in S : SCOPE_RANK[Widest(S)] >= SCOPE_RANK[s]
<1>1. \E w \in S : \A s \in S : SCOPE_RANK[w] >= SCOPE_RANK[s]
  <2>1. CASE "ALL" \in S
    BY <2>1, Ranks
  <2>2. CASE "ALL" \notin S /\ "DEPT" \in S
    BY <2>2, Ranks
  <2>3. CASE "ALL" \notin S /\ "DEPT" \notin S /\ "SUBDEPT" \in S
    BY <2>3, Ranks
  <2>4. CASE "ALL" \notin S /\ "DEPT" \notin S /\ "SUBDEPT" \notin S
    <3>1. S \subseteq {"NONE", "SELF", "TEAM"}
      BY <2>4, Ranks
    <3>2. \A s \in S : SCOPE_RANK[s] = 0
      BY <3>1, Ranks
    <3> QED  BY <3>2
  <2> QED  BY <2>1, <2>2, <2>3, <2>4
<1> QED  BY <1>1 DEF Widest

\* The defaults are scopes.
LEMMA DefaultsAt ==
  ASSUME NEW grants, NEW c \in DOMAIN Defaults(grants)
  PROVE  LET rows == UNION {Special(g) : g \in grants}
         IN  /\ Defaults(grants)[c] = Widest(ScopesOf(rows, c))
             /\ ScopesOf(rows, c) \subseteq Scope /\ ScopesOf(rows, c) # {}
<1> DEFINE rows == UNION {Special(g) : g \in grants}
<1>1. c \in UNION {RoleCodes[r.role] : r \in rows}
  BY DEF Defaults
<1>2. ScopesOf(rows, c) \subseteq Scope
  BY AccessAssumption DEF ScopesOf, Special
<1>3. ScopesOf(rows, c) # {}
  BY <1>1 DEF ScopesOf
<1>4. Defaults(grants)[c] = Widest(ScopesOf(rows, c))
  BY <1>1 DEF Defaults
<1> QED  BY <1>2, <1>3, <1>4

\* A profile is a map from permissions to scopes.
LEMMA LoadedScoped ==
  ASSUME userRoles \subseteq RoleGrant, IsFiniteSet(userRoles), NEW order \in SetToSeqs(userRoles)
  PROVE  Scoped(Loaded(order)) /\ Loaded(order) = [c \in DOMAIN Loaded(order) |-> Loaded(order)[c]]
<1> DEFINE byCode == Entered(order)[Len(order)]
           found == IF DOMAIN byCode = {} THEN Defaults(ToSet(order)) ELSE byCode
<1>1. Len(order) \in Nat /\ \A i \in 1 .. Len(order) : order[i] \in RoleGrant
  BY OrderCovers
<1>2. Scoped(byCode)
  BY <1>1, EnteredScoped
<1>3. Scoped(Defaults(ToSet(order)))
  BY DefaultsAt, WidestExists DEF Scoped
<1>4. Scoped(found)
  BY <1>2, <1>3
<1>5. Loaded(order) = upsert(found, SELF_SERVICE, "SELF")
  BY DEF Loaded
<1>6. "SELF" \in Scope
  BY Ranks
<1> HIDE DEF found
<1> QED  BY <1>4, <1>5, <1>6, UpsertScoped DEF upsert

-----------------------------------------------------------------------------
(* The widest grant wins.  The strengthening: after each round of the loop,  *)
(* a permission nobody denies has the widest of the scopes given so far.     *)

\* The scopes a role gives permission c with.
From(g, c) ==
    IF g.expired THEN {}
    ELSE (IF c \in RoleCodes[g.role] THEN {g.scope} ELSE {})
         \cup {s.scope : s \in {t \in Special(g) : c \in t.extra}}

FromUpto(order, i, c) == UNION {From(order[j], c) : j \in 1 .. i}

\* Permission c is entered with the widest scope of S, or not at all if S is empty.
HasWidest(m, c, S) ==
    /\ c \in DOMAIN m <=> S # {}
    /\ c \in DOMAIN m => m[c] \in S /\ \A s \in S : SCOPE_RANK[m[c]] >= SCOPE_RANK[s]

\* No row of the role denies c to the user.
Undenied(g, c) == ~g.expired => \A s \in Special(g) : c \notin s.deny

\* One upsert keeps to the widest.
LEMMA UpsertWidest ==
  ASSUME NEW m, NEW codes, NEW scope \in Scope, NEW c, NEW S \in SUBSET Scope,
         HasWidest(m, c, S)
  PROVE  HasWidest(upsert(m, codes, scope), c, S \cup (IF c \in codes THEN {scope} ELSE {}))
<1> DEFINE up == upsert(m, codes, scope)
<1>1. \A s \in S \cup {scope} : SCOPE_RANK[s] \in Nat
  BY Ranks
<1>2. CASE c \notin codes
  BY <1>2, UpsertAt DEF HasWidest
<1>3. CASE c \in codes /\ c \notin DOMAIN m
  <2>1. c \in DOMAIN up /\ up[c] = scope /\ S = {}
    BY <1>3, UpsertAt DEF HasWidest
  <2> HIDE DEF up
  <2> QED  BY <1>1, <1>3, <2>1 DEF HasWidest, up
<1>4. CASE c \in codes /\ c \in DOMAIN m
  <2>1. /\ c \in DOMAIN up
        /\ up[c] = IF SCOPE_RANK[scope] > SCOPE_RANK[m[c]] THEN scope ELSE m[c]
    BY <1>4, UpsertAt
  <2>2. m[c] \in S /\ \A s \in S : SCOPE_RANK[m[c]] >= SCOPE_RANK[s]
    BY <1>4 DEF HasWidest
  <2> HIDE DEF up
  <2>3. CASE SCOPE_RANK[scope] > SCOPE_RANK[m[c]]
    <3>1. up[c] = scope
      BY <2>1, <2>3
    <3>2. \A s \in S : SCOPE_RANK[scope] >= SCOPE_RANK[s]
      BY <1>1, <2>2, <2>3
    <3> QED  BY <1>1, <1>4, <2>1, <3>1, <3>2 DEF HasWidest, up
  <2>4. CASE ~ SCOPE_RANK[scope] > SCOPE_RANK[m[c]]
    <3>1. up[c] = m[c] /\ SCOPE_RANK[m[c]] >= SCOPE_RANK[scope]
      BY <1>1, <2>1, <2>2, <2>4
    <3> QED  BY <1>4, <2>1, <2>2, <3>1 DEF HasWidest, up
  <2> QED  BY <2>3, <2>4
<1> QED  BY <1>2, <1>3, <1>4

\* So does one role.
LEMMA OfRoleWidest ==
  ASSUME NEW g \in RoleGrant, NEW m, NEW c, NEW S \in SUBSET Scope,
         HasWidest(m, c, S), Undenied(g, c)
  PROVE  HasWidest(OfRole(m, g), c, S \cup From(g, c)) /\ From(g, c) \subseteq Scope
<1>1. g.scope \in Scope /\ \A s \in Special(g) : s.scope \in Scope
  BY AccessAssumption DEF RoleGrant, Special
<1>2. From(g, c) \subseteq Scope
  BY <1>1 DEF From
<1> DEFINE base == upsert(m, RoleCodes[g.role], g.scope)
           own == IF c \in RoleCodes[g.role] THEN {g.scope} ELSE {}
<1>3. own \subseteq Scope /\ HasWidest(base, c, S \cup own)
  BY <1>1, UpsertWidest
<1>4. CASE g.expired
  <2>1. From(g, c) = {} /\ OfRole(m, g) = m
    BY <1>4, OfRoleIs DEF From
  <2> QED  BY <1>2, <2>1
<1>5. CASE ~g.expired /\ Special(g) = {}
  <2>1. From(g, c) = own /\ OfRole(m, g) = base
    BY <1>5, OfRoleIs DEF From
  <2> QED  BY <1>2, <1>3, <2>1
<1>6. CASE ~g.expired /\ Special(g) # {}
  <2>1. PICK s \in Special(g) :
          /\ Special(g) = {s}
          /\ OfRole(m, g) = Delete(upsert(base, s.extra, s.scope), s.deny \cap RoleCodes[g.role])
    BY <1>6, OfRoleIs
  <2> DEFINE more == IF c \in s.extra THEN {s.scope} ELSE {}
             up == upsert(base, s.extra, s.scope)
  <2>2. From(g, c) = own \cup more
    BY <1>6, <2>1 DEF From
  <2> HIDE DEF base, own
  <2>3. HasWidest(up, c, (S \cup own) \cup more)
    BY <1>1, <1>3, <2>1, UpsertWidest
  <2>4. c \notin s.deny
    BY <1>6, <2>1 DEF Undenied
  <2> HIDE DEF up, more
  <2>5. HasWidest(Delete(up, s.deny \cap RoleCodes[g.role]), c, (S \cup own) \cup more)
    BY <2>3, <2>4, DeleteAt DEF HasWidest
  <2>6. (S \cup own) \cup more = S \cup From(g, c)
    BY <2>2
  <2> QED  BY <1>2, <2>1, <2>5, <2>6 DEF up
<1> QED  BY <1>4, <1>5, <1>6

\* And so do all of them.
LEMMA EnteredWidest ==
  ASSUME NEW order, Len(order) \in Nat, NEW c,
         \A i \in 1 .. Len(order) : order[i] \in RoleGrant /\ Undenied(order[i], c)
  PROVE  HasWidest(Entered(order)[Len(order)], c, FromUpto(order, Len(order), c))
<1> DEFINE Good(i) == /\ FromUpto(order, i, c) \subseteq Scope
                      /\ HasWidest(Entered(order)[i], c, FromUpto(order, i, c))
           T == {i \in 0 .. Len(order) : ~ Good(i)}
<1>1. 0 \notin T
  <2>1. FromUpto(order, 0, c) = {}
    BY DEF FromUpto
  <2> QED  BY <2>1, EnteredStep DEF HasWidest
<1>2. ASSUME NEW i \in T, i # 0, i - 1 \notin T
      PROVE  FALSE
  <2>1. i \in 1 .. Len(order) /\ i - 1 \in 0 .. Len(order)
    BY <1>2
  <2>2. Good(i - 1) /\ ~ Good(i)
    BY <1>2, <2>1
  <2>3. FromUpto(order, i, c) = FromUpto(order, i - 1, c) \cup From(order[i], c)
    <3>1. 1 .. i = (1 .. (i - 1)) \cup {i}
      BY <2>1
    <3> QED  BY <3>1 DEF FromUpto
  <2>4. Entered(order)[i] = OfRole(Entered(order)[i - 1], order[i])
    BY <2>1, EnteredStep
  <2>5. order[i] \in RoleGrant /\ Undenied(order[i], c)
    BY <2>1
  <2> QED  BY <2>2, <2>3, <2>4, <2>5, OfRoleWidest
<1>3. T = {}
  <2> HIDE DEF T
  <2>1. T \in SUBSET (0 .. Len(order))
    BY DEF T
  <2> QED  BY <1>1, <1>2, <2>1, NoFirst
<1>4. Len(order) \in 0 .. Len(order)
  OBVIOUS
<1> QED  BY <1>3, <1>4

-----------------------------------------------------------------------------
(* Permissions given together.  Where whatever gives c gives d, the scope of *)
(* d ranks no lower; where each goes with the other, the scopes are equal.   *)

GoesWith(m, c, d) ==
    c \in DOMAIN m => d \in DOMAIN m /\ SCOPE_RANK[m[d]] >= SCOPE_RANK[m[c]]

Matches(m, c, d) ==
    (c \in DOMAIN m <=> d \in DOMAIN m) /\ (c \in DOMAIN m => m[c] = m[d])

\* What GivenWith says of one role.
RoleGivesWith(g, c, d) ==
    /\ c \in RoleCodes[g.role] => d \in RoleCodes[g.role]
    /\ \A s \in Special(g) : (c \in s.extra => d \in s.extra) /\ c \notin s.deny /\ d \notin s.deny

\* One upsert keeps d with c.
LEMMA UpsertFollows ==
  ASSUME NEW m, Scoped(m), NEW codes, NEW scope \in Scope, NEW c, NEW d, c \in codes => d \in codes
  PROVE  /\ GoesWith(m, c, d) => GoesWith(upsert(m, codes, scope), c, d)
         /\ Matches(m, c, d) /\ (d \in codes => c \in codes)
              => Matches(upsert(m, codes, scope), c, d)
<1> DEFINE up == upsert(m, codes, scope)
<1>1. /\ c \in DOMAIN m => SCOPE_RANK[m[c]] \in Nat
      /\ d \in DOMAIN m => SCOPE_RANK[m[d]] \in Nat
      /\ SCOPE_RANK[scope] \in Nat
  BY Ranks DEF Scoped
<1>2. /\ c \in DOMAIN up <=> c \in DOMAIN m \/ c \in codes
      /\ d \in DOMAIN up <=> d \in DOMAIN m \/ d \in codes
  BY UpsertAt
<1>3. /\ c \in DOMAIN up =>
           up[c] = IF c \in codes /\ (c \notin DOMAIN m \/ SCOPE_RANK[scope] > SCOPE_RANK[m[c]])
                   THEN scope ELSE m[c]
      /\ d \in DOMAIN up =>
           up[d] = IF d \in codes /\ (d \notin DOMAIN m \/ SCOPE_RANK[scope] > SCOPE_RANK[m[d]])
                   THEN scope ELSE m[d]
  BY UpsertAt
<1> HIDE DEF up
<1>4. ASSUME GoesWith(m, c, d), c \in DOMAIN up
      PROVE  d \in DOMAIN up /\ SCOPE_RANK[up[d]] >= SCOPE_RANK[up[c]]
  <2>1. d \in DOMAIN up
    BY <1>2, <1>4 DEF GoesWith
  <2>2. CASE c \in DOMAIN m
    <3>1. d \in DOMAIN m /\ SCOPE_RANK[m[d]] >= SCOPE_RANK[m[c]]
      BY <1>4, <2>2 DEF GoesWith
    <3>2. CASE up[c] = m[c]
      <4>1. SCOPE_RANK[up[d]] >= SCOPE_RANK[m[d]]
        BY <1>1, <1>3, <2>1, <3>1
      <4> QED  BY <1>1, <1>3, <2>1, <2>2, <3>1, <3>2, <4>1
    <3>3. CASE up[c] # m[c]
      <4>1. c \in codes /\ up[c] = scope
        BY <1>3, <1>4, <3>3
      <4>2. SCOPE_RANK[up[d]] >= SCOPE_RANK[scope]
        BY <1>1, <1>3, <2>1, <3>1, <4>1
      <4> QED  BY <2>1, <4>1, <4>2
    <3> QED  BY <3>2, <3>3
  <2>3. CASE c \notin DOMAIN m
    <3>1. c \in codes /\ up[c] = scope
      BY <1>2, <1>3, <1>4, <2>3
    <3>2. SCOPE_RANK[up[d]] >= SCOPE_RANK[scope]
      BY <1>1, <1>3, <2>1, <3>1
    <3> QED  BY <2>1, <3>1, <3>2
  <2> QED  BY <2>2, <2>3
<1>5. ASSUME Matches(m, c, d), d \in codes => c \in codes
      PROVE  Matches(up, c, d)
  BY <1>2, <1>3, <1>5 DEF Matches
<1> QED  BY <1>4, <1>5 DEF GoesWith, up

\* So does one role.
LEMMA OfRoleFollows ==
  ASSUME NEW g \in RoleGrant, NEW m, Scoped(m), NEW c, NEW d, RoleGivesWith(g, c, d)
  PROVE  /\ GoesWith(m, c, d) => GoesWith(OfRole(m, g), c, d)
         /\ Matches(m, c, d) /\ RoleGivesWith(g, d, c) => Matches(OfRole(m, g), c, d)
<1>1. g.scope \in Scope /\ \A s \in Special(g) : s.scope \in Scope
  BY AccessAssumption DEF RoleGrant, Special
<1> DEFINE base == upsert(m, RoleCodes[g.role], g.scope)
<1>2. Scoped(base)
  BY <1>1, UpsertScoped
<1>3. /\ GoesWith(m, c, d) => GoesWith(base, c, d)
      /\ Matches(m, c, d) /\ RoleGivesWith(g, d, c) => Matches(base, c, d)
  BY <1>1, UpsertFollows DEF RoleGivesWith
<1>4. CASE g.expired
  BY <1>4, OfRoleIs
<1>5. CASE ~g.expired /\ Special(g) = {}
  BY <1>3, <1>5, OfRoleIs
<1>6. CASE ~g.expired /\ Special(g) # {}
  <2>1. PICK s \in Special(g) :
          OfRole(m, g) = Delete(upsert(base, s.extra, s.scope), s.deny \cap RoleCodes[g.role])
    BY <1>6, OfRoleIs
  <2> DEFINE up == upsert(base, s.extra, s.scope)
  <2> HIDE DEF base
  <2>2. /\ GoesWith(base, c, d) => GoesWith(up, c, d)
        /\ Matches(base, c, d) /\ RoleGivesWith(g, d, c) => Matches(up, c, d)
    BY <1>1, <1>2, UpsertFollows DEF RoleGivesWith
  <2>3. c \notin s.deny /\ d \notin s.deny
    BY DEF RoleGivesWith
  <2> HIDE DEF up
  <2>4. OfRole(m, g) = Delete(up, s.deny \cap RoleCodes[g.role])
    BY <2>1 DEF up
  <2>5. /\ c \in DOMAIN OfRole(m, g) <=> c \in DOMAIN up
        /\ d \in DOMAIN OfRole(m, g) <=> d \in DOMAIN up
        /\ c \in DOMAIN up => OfRole(m, g)[c] = up[c]
        /\ d \in DOMAIN up => OfRole(m, g)[d] = up[d]
    BY <2>3, <2>4, DeleteAt
  <2>6. GoesWith(up, c, d) => GoesWith(OfRole(m, g), c, d)
    BY <2>5 DEF GoesWith
  <2>7. Matches(up, c, d) => Matches(OfRole(m, g), c, d)
    BY <2>5 DEF Matches
  <2> QED  BY <1>3, <2>2, <2>6, <2>7
<1> QED  BY <1>4, <1>5, <1>6

\* And so do all of them.
LEMMA EnteredFollows ==
  ASSUME NEW order, Len(order) \in Nat, NEW c, NEW d,
         \A i \in 1 .. Len(order) : order[i] \in RoleGrant /\ RoleGivesWith(order[i], c, d)
  PROVE  /\ GoesWith(Entered(order)[Len(order)], c, d)
         /\ (\A i \in 1 .. Len(order) : RoleGivesWith(order[i], d, c))
              => Matches(Entered(order)[Len(order)], c, d)
<1> DEFINE Both == \A i \in 1 .. Len(order) : RoleGivesWith(order[i], d, c)
           Good(i) == /\ GoesWith(Entered(order)[i], c, d)
                      /\ Both => Matches(Entered(order)[i], c, d)
           T == {i \in 0 .. Len(order) : ~ Good(i)}
<1>1. 0 \notin T
  BY EnteredStep DEF GoesWith, Matches
<1>2. ASSUME NEW i \in T, i # 0, i - 1 \notin T
      PROVE  FALSE
  <2>1. i \in 1 .. Len(order) /\ i - 1 \in 0 .. Len(order)
    BY <1>2
  <2>2. Good(i - 1) /\ ~ Good(i)
    BY <1>2, <2>1
  <2>3. Entered(order)[i] = OfRole(Entered(order)[i - 1], order[i])
    BY <2>1, EnteredStep
  <2>4. Scoped(Entered(order)[i - 1])
    BY <2>1, EnteredScoped
  <2>5. order[i] \in RoleGrant /\ RoleGivesWith(order[i], c, d)
        /\ (Both => RoleGivesWith(order[i], d, c))
    BY <2>1
  <2> QED  BY <2>2, <2>3, <2>4, <2>5, OfRoleFollows
<1>3. T = {}
  <2> HIDE DEF T
  <2>1. T \in SUBSET (0 .. Len(order))
    BY DEF T
  <2> QED  BY <1>1, <1>2, <2>1, NoFirst
<1>4. Len(order) \in 0 .. Len(order)
  OBVIOUS
<1> QED  BY <1>3, <1>4

\* The defaults too.
LEMMA DefaultsFollow ==
  ASSUME NEW grants, NEW c, NEW d, \A g \in grants : RoleGivesWith(g, c, d)
  PROVE  /\ GoesWith(Defaults(grants), c, d)
         /\ (\A g \in grants : RoleGivesWith(g, d, c)) => Matches(Defaults(grants), c, d)
<1> DEFINE rows == UNION {Special(g) : g \in grants}
           m == Defaults(grants)
<1>1. DOMAIN m = UNION {RoleCodes[r.role] : r \in rows}
  BY DEF Defaults
<1>2. \A r \in rows : c \in RoleCodes[r.role] => d \in RoleCodes[r.role]
  BY DEF RoleGivesWith, Special
<1>3. ScopesOf(rows, c) \subseteq ScopesOf(rows, d)
  BY <1>2 DEF ScopesOf
<1>4. c \in DOMAIN m => d \in DOMAIN m
  BY <1>1, <1>2
<1>5. /\ c \in DOMAIN m => m[c] = Widest(ScopesOf(rows, c))
                           /\ ScopesOf(rows, c) \subseteq Scope /\ ScopesOf(rows, c) # {}
      /\ d \in DOMAIN m => m[d] = Widest(ScopesOf(rows, d))
                           /\ ScopesOf(rows, d) \subseteq Scope /\ ScopesOf(rows, d) # {}
  BY DefaultsAt
<1>6. GoesWith(m, c, d)
  <2>1. SUFFICES ASSUME c \in DOMAIN m PROVE SCOPE_RANK[m[d]] >= SCOPE_RANK[m[c]]
    BY <1>4 DEF GoesWith
  <2> HIDE DEF rows, m
  <2>2. m[c] \in ScopesOf(rows, c)
    BY <1>5, <2>1, WidestExists
  <2>3. \A s \in ScopesOf(rows, d) : SCOPE_RANK[m[d]] >= SCOPE_RANK[s]
    BY <1>4, <1>5, <2>1, WidestExists
  <2> QED  BY <1>3, <2>2, <2>3
<1>7. ASSUME \A g \in grants : RoleGivesWith(g, d, c)
      PROVE  Matches(m, c, d)
  <2>1. \A r \in rows : d \in RoleCodes[r.role] => c \in RoleCodes[r.role]
    BY <1>7 DEF RoleGivesWith, Special
  <2>2. ScopesOf(rows, c) = ScopesOf(rows, d)
    BY <1>2, <2>1 DEF ScopesOf
  <2>3. d \in DOMAIN m => c \in DOMAIN m
    BY <1>1, <2>1
  <2> HIDE DEF rows, m
  <2> QED  BY <1>4, <1>5, <2>2, <2>3 DEF Matches
<1> QED  BY <1>6, <1>7

-----------------------------------------------------------------------------
(* The profile.  The invariant: it was loaded from the rows there are.       *)

AccessInv ==
    /\ userRoles \subseteq RoleGrant /\ IsFiniteSet(userRoles)
    /\ profile # NotLoaded => \E order \in SetToSeqs(userRoles) : profile = Loaded(order)

\* In every reachable state.
THEOREM AccessInvariant == AccessSpec => []AccessInv
<1>1. AccessInit => AccessInv
  BY FS_EmptySet DEF AccessInit, AccessInv
<1>2. ASSUME AccessInv, [AccessNext]_accessVars
      PROVE  AccessInv'
  <2>1. ASSUME NEW r \in DOMAIN RoleCodes, NEW scope \in GrantScope, AssignRole(r, scope)
        PROVE  AccessInv'
    <3>1. PICK g : g = [role |-> r, scope |-> scope, expired |-> FALSE]
      OBVIOUS
    <3>2. g \in RoleGrant
      BY <3>1 DEF RoleGrant
    <3>3. userRoles' = userRoles \cup {g} /\ profile' = NotLoaded
      BY <2>1, <3>1 DEF AssignRole
    <3>4. IsFiniteSet(userRoles \cup {g})
      BY <1>2, FS_AddElement DEF AccessInv
    <3> QED  BY <1>2, <3>2, <3>3, <3>4 DEF AccessInv
  <2>2. ASSUME NEW g \in userRoles, WithdrawRole(g)
        PROVE  AccessInv'
    BY <1>2, <2>2, FS_RemoveElement DEF AccessInv, WithdrawRole
  <2>3. ASSUME NEW g \in userRoles, RoleExpires(g)
        PROVE  AccessInv'
    <3>1. [g EXCEPT !.expired = TRUE] \in RoleGrant
      BY <1>2 DEF AccessInv, RoleGrant
    <3>2. IsFiniteSet(userRoles \ {g})
      BY <1>2, FS_RemoveElement DEF AccessInv
    <3> QED  BY <1>2, <2>3, <3>1, <3>2, FS_AddElement DEF AccessInv, RoleExpires
  <2>4. ASSUME NEW order \in SetToSeqs(userRoles), Load(order)
        PROVE  AccessInv'
    BY <1>2, <2>4 DEF AccessInv, Load
  <2>5. ASSUME UNCHANGED accessVars
        PROVE  AccessInv'
    BY <1>2, <2>5 DEF AccessInv, accessVars
  <2> QED  BY <1>2, <2>1, <2>2, <2>3, <2>4, <2>5 DEF AccessNext
<1> QED  BY <1>1, <1>2, PTL DEF AccessSpec

\* What a loaded profile holds of one permission.
LEMMA ProfileAt ==
  ASSUME AccessInv, profile # NotLoaded
  PROVE  /\ Scoped(profile)
         /\ profile = [c \in DOMAIN profile |-> profile[c]]
BY LoadedScoped DEF AccessInv

\* A permission that a role in force gives, and none denies, has the widest scope.
LEMMA ProfileWidest ==
  ASSUME AccessInv, profile # NotLoaded,
         NEW c, \A g \in userRoles : Undenied(g, c),
         NEW S, S = UNION {From(g, c) : g \in userRoles}, S # {}
  PROVE  /\ c \in DOMAIN profile /\ profile[c] \in S
         /\ \A s \in S : SCOPE_RANK[profile[c]] >= SCOPE_RANK[s]
<1>1. PICK order \in SetToSeqs(userRoles) : profile = Loaded(order)
  BY DEF AccessInv
<1>2. /\ Len(order) \in Nat
      /\ \A i \in 1 .. Len(order) : order[i] \in userRoles
      /\ \A g \in userRoles : \E i \in 1 .. Len(order) : order[i] = g
  BY OrderCovers DEF AccessInv
<1>3. \A i \in 1 .. Len(order) : order[i] \in RoleGrant /\ Undenied(order[i], c)
  BY <1>2 DEF AccessInv
<1> DEFINE byCode == Entered(order)[Len(order)]
<1>4. FromUpto(order, Len(order), c) = S
  BY <1>2 DEF FromUpto
<1>5. HasWidest(byCode, c, S)
  BY <1>2, <1>3, <1>4, EnteredWidest
<1>6. Scoped(byCode)
  BY <1>2, <1>3, EnteredScoped
<1>7. c \in DOMAIN byCode
  BY <1>5 DEF HasWidest
<1>8. profile = upsert(byCode, SELF_SERVICE, "SELF")
  BY <1>1, <1>7 DEF Loaded
<1> HIDE DEF byCode
<1>9. SCOPE_RANK[byCode[c]] \in Nat /\ SCOPE_RANK["SELF"] = 0
  BY <1>6, <1>7, Ranks DEF Scoped
<1>10. c \in DOMAIN profile /\ profile[c] = byCode[c]
  BY <1>7, <1>8, <1>9, UpsertAt
<1> QED  BY <1>5, <1>7, <1>10 DEF HasWidest

\* Permissions the user is given together.
LEMMA ProfileFollows ==
  ASSUME AccessInv, profile # NotLoaded, NEW c, NEW d, GivenWith(c, d)
  PROVE  GoesWith(profile, c, d) /\ (GivenWith(d, c) => Matches(profile, c, d))
<1>1. PICK order \in SetToSeqs(userRoles) : profile = Loaded(order)
  BY DEF AccessInv
<1>2. /\ Len(order) \in Nat
      /\ \A i \in 1 .. Len(order) : order[i] \in userRoles
      /\ ToSet(order) = userRoles
  BY OrderCovers DEF AccessInv
<1>3. \A g \in userRoles : RoleGivesWith(g, c, d)
  BY DEF GivenWith, RoleGivesWith
<1>4. GivenWith(d, c) => \A g \in userRoles : RoleGivesWith(g, d, c)
  BY DEF GivenWith, RoleGivesWith
<1>5. \A i \in 1 .. Len(order) : order[i] \in RoleGrant /\ RoleGivesWith(order[i], c, d)
  BY <1>2, <1>3 DEF AccessInv
<1> DEFINE byCode == Entered(order)[Len(order)]
           found == IF DOMAIN byCode = {} THEN Defaults(ToSet(order)) ELSE byCode
<1>6. GoesWith(byCode, c, d) /\ (GivenWith(d, c) => Matches(byCode, c, d))
  BY <1>2, <1>4, <1>5, EnteredFollows
<1>7. /\ GoesWith(Defaults(userRoles), c, d)
      /\ GivenWith(d, c) => Matches(Defaults(userRoles), c, d)
  BY <1>3, <1>4, DefaultsFollow
<1>8. Scoped(found)
  <2>1. Scoped(byCode)
    BY <1>2, <1>5, EnteredScoped
  <2>2. Scoped(Defaults(userRoles))
    BY DefaultsAt, WidestExists DEF Scoped
  <2> QED  BY <1>2, <2>1, <2>2
<1>9. GoesWith(found, c, d) /\ (GivenWith(d, c) => Matches(found, c, d))
  BY <1>2, <1>6, <1>7
<1>10. profile = upsert(found, SELF_SERVICE, "SELF")
  BY <1>1 DEF Loaded
<1>11. "SELF" \in Scope /\ (c \in SELF_SERVICE => d \in SELF_SERVICE)
       /\ (GivenWith(d, c) => (d \in SELF_SERVICE => c \in SELF_SERVICE))
  BY Ranks DEF GivenWith
<1> HIDE DEF found
<1> QED  BY <1>8, <1>9, <1>10, <1>11, UpsertFollows

\* The scope of a permission does not depend on the order in which the database returns
\* the roles: it is the widest a role in force gives it with, as the device shows it.
THEOREM WidestGrantDecides == AccessSpec => []WidestGrantWins
<1>1. ASSUME AccessInv
      PROVE  WidestGrantWins
  <2>1. SUFFICES ASSUME profile # NotLoaded
                 PROVE  WidestGrantWins
    BY DEF WidestGrantWins
  <2> DEFINE inForce == {g \in userRoles : ~g.expired}
             special == {s \in SubGrant : s.own /\ \E g \in inForce : g.role = s.role}
             denied == UNION {s.deny : s \in special}
             given(c) == {g.scope : g \in {h \in inForce : c \in RoleCodes[h.role]}}
                         \cup {s.scope : s \in {t \in special : c \in t.extra}}
             view == AccessView({[code |-> c, scope |-> profile[c]] : c \in DOMAIN profile})
  <2>2. ASSUME NEW c \in Code \ denied, given(c) # {}
        PROVE  /\ Granted(profile, c)
               /\ profile[c] \in given(c)
               /\ \A scope \in given(c) : SCOPE_RANK[profile[c]] >= SCOPE_RANK[scope]
    <3>1. special = UNION {Special(g) : g \in inForce}
      BY DEF Special
    <3>2. \A g \in userRoles : Undenied(g, c)
      BY <2>2, <3>1 DEF Undenied
    <3>3. given(c) = UNION {From(g, c) : g \in userRoles}
      <4>1. \A g \in userRoles : From(g, c) \subseteq given(c)
        BY <3>1 DEF From
      <4>2. ASSUME NEW x \in given(c)
            PROVE  \E g \in userRoles : x \in From(g, c)
        <5>1. CASE \E g \in inForce : c \in RoleCodes[g.role] /\ x = g.scope
          BY <5>1 DEF From
        <5>2. CASE \E s \in special : c \in s.extra /\ x = s.scope
          <6>1. PICK s \in special : c \in s.extra /\ x = s.scope
            BY <5>2
          <6>2. PICK g \in inForce : s \in Special(g)
            BY <3>1, <6>1
          <6>3. x \in {t.scope : t \in {t \in Special(g) : c \in t.extra}}
            BY <6>1, <6>2
          <6> QED  BY <6>2, <6>3 DEF From
        <5>3. \/ \E g \in inForce : c \in RoleCodes[g.role] /\ x = g.scope
              \/ \E s \in special : c \in s.extra /\ x = s.scope
          BY <4>2
        <5> QED  BY <5>1, <5>2, <5>3
      <4>3. given(c) \subseteq UNION {From(g, c) : g \in userRoles}
        BY <4>2
      <4>4. UNION {From(g, c) : g \in userRoles} \subseteq given(c)
        BY <4>1
      <4> QED  BY <4>3, <4>4
    <3>4. PICK S : S = given(c)
      OBVIOUS
    <3> HIDE DEF given, special, denied, inForce
    <3>5. S = UNION {From(g, c) : g \in userRoles} /\ S # {}
      BY <2>2, <3>3, <3>4
    <3>6. /\ c \in DOMAIN profile /\ profile[c] \in S
          /\ \A s \in S : SCOPE_RANK[profile[c]] >= SCOPE_RANK[s]
      BY <1>1, <2>1, <3>2, <3>5, ProfileWidest
    <3> QED  BY <3>4, <3>6 DEF Granted
  <2>3. view = profile
    <3> DEFINE grants == {[code |-> c, scope |-> profile[c]] : c \in DOMAIN profile}
    <3>0. /\ \A g \in grants : g.code \in DOMAIN profile
          /\ \A c \in DOMAIN profile : \E g \in grants : g.code = c
      <4>1. ASSUME NEW c \in DOMAIN profile
            PROVE  \E g \in grants : g.code = c
        <5>1. PICK g : g = [code |-> c, scope |-> profile[c]]
          OBVIOUS
        <5>2. g \in grants /\ g.code = c
          BY <5>1
        <5> QED  BY <5>2
      <4>2. \A g \in grants : g.code \in DOMAIN profile
        OBVIOUS
      <4> QED  BY <4>1, <4>2
    <3>1. {g.code : g \in grants} = DOMAIN profile
      <4> HIDE DEF grants
      <4> QED  BY <3>0
    <3>2. ASSUME NEW c \in DOMAIN profile
          PROVE  (CHOOSE g \in grants : /\ g.code = c
                    /\ \A o \in grants : o.code = c => ViewRank[g.scope] >= ViewRank[o.scope]).scope
                 = profile[c]
      <4>1. \A g \in grants : g.code = c => g.scope = profile[c]
        OBVIOUS
      <4>2. ViewRank[profile[c]] \in Nat
        BY <1>1, <2>1, ProfileAt, Ranks DEF Scoped
      <4>3. \E g \in grants : g.code = c
        BY <3>0
      <4> HIDE DEF grants
      <4>4. \E g \in grants : /\ g.code = c
                    /\ \A o \in grants : o.code = c => ViewRank[g.scope] >= ViewRank[o.scope]
        BY <4>1, <4>2, <4>3
      <4> QED  BY <4>1, <4>4
    <3>3. view = [c \in DOMAIN profile |-> profile[c]]
      BY <3>1, <3>2 DEF AccessView
    <3> QED  BY <1>1, <2>1, <3>3, ProfileAt
  <2>4. ViewFacilityWide(view) = isFacilityWide
    BY <2>3 DEF ViewFacilityWide, isFacilityWide
  <2> HIDE DEF given, denied, view
  <2> QED  BY <2>2, <2>3, <2>4 DEF WidestGrantWins, given, denied, view
<1> QED  BY <1>1, AccessInvariant, PTL

\* Every scope is one of six, and a place in the user's subdivision is in his department.
LEMMA ScopesAndPlaces ==
  /\ Scope = {"NONE", "SELF", "TEAM", "SUBDEPT", "DEPT", "ALL"}
  /\ \A row \in ReadRow : row.at.sub = "own" => row.at.dept = "own"
  /\ \A c \in DOMAIN profile : profile[c] = "ALL" => isFacilityWide
BY DEF Scope, SCOPE_RANK, ReadRow, Place, isFacilityWide

\* A sample that the board counts is in the list.
LEMMA CountedIsListed ==
  ASSUME AccessInv, profile # NotLoaded, NEW row \in ReadRow, ~row.mine,
         SampleCounted(row), GivenWith("lab.result.view", "lab.sample.view"),
         ~Tied("lab.result.view", "lab.sample.view")
  PROVE  SampleListed(row, FALSE)
<1>1. MayRead("lab.result.view") /\ sampleScope("lab.result.view", row)
  BY DEF SampleCounted
<1>2. PICK r : r = profile["lab.result.view"]
  OBVIOUS
<1>3. PICK s : s = profile["lab.sample.view"]
  OBVIOUS
<1>4. GoesWith(profile, "lab.result.view", "lab.sample.view")
  BY ProfileFollows
<1>5. /\ MayRead("lab.sample.view") /\ r \in Scope /\ s \in Scope
      /\ SCOPE_RANK[s] >= SCOPE_RANK[r]
  BY <1>1, <1>2, <1>3, <1>4, ProfileAt DEF GoesWith, Scoped, MayRead, Granted
<1>6. ~({r, s} \subseteq {"NONE", "SELF", "TEAM"})
  BY <1>2, <1>3 DEF Tied
<1>7. SUFFICES sampleScope("lab.sample.view", row)
  BY <1>5 DEF SampleListed
<1>8. CASE isFacilityWide
  BY <1>8 DEF sampleScope
<1>9. CASE ~isFacilityWide
  <2>1. r # "ALL" /\ s # "ALL"
    BY <1>1, <1>2, <1>3, <1>5, <1>9, ScopesAndPlaces DEF MayRead, Granted
  <2>2. \/ r = "DEPT" /\ row.at.dept = "own"
        \/ r = "SUBDEPT" /\ atLab /\ row.at.dept = "own"
        \/ r = "TEAM" /\ row.at.sub = "own"
        \/ r = "SUBDEPT" /\ ~atLab /\ row.at.sub = "own"
    BY <1>1, <1>2, <1>9, <2>1 DEF sampleScope
  <2>3. row.at.dept = "own"
    BY <2>2, ScopesAndPlaces
  <2>4. s \in {"SUBDEPT", "DEPT"}
    BY <1>5, <1>6, <2>1, <2>2, ScopesAndPlaces DEF SCOPE_RANK
  <2>5. s = "SUBDEPT" => r \in {"SUBDEPT", "TEAM"}
    BY <1>5, <2>2 DEF SCOPE_RANK
  <2> QED  BY <1>3, <2>2, <2>3, <2>4, <2>5 DEF sampleScope
<1> QED  BY <1>8, <1>9

\* What a list shows opens, in every reachable state and whatever the roles hold.
THEOREM ListedRowsOpen == AccessSpec => []WhatIsListedOpens
<1>1. ASSUME AccessInv
      PROVE  WhatIsListedOpens
  <2>1. SUFFICES ASSUME profile # NotLoaded, NEW row \in ReadRow
                 PROVE  /\ \A search \in BOOLEAN : OrderListed(row, search) => OrderOpens(row)
                        /\ SampleListed(row, FALSE) => SampleOpens(row)
                        /\ CaseListed(row) /\ GivenWith("lab.oos.view", "lab.oos.manage")
                              /\ GivenWith("lab.oos.manage", "lab.oos.view") => CaseYields(row)
                        /\ row.mine \/
                              /\ SampleCounted(row) /\ GivenWith("lab.result.view", "lab.sample.view")
                                    /\ ~Tied("lab.result.view", "lab.sample.view")
                                    => SampleListed(row, FALSE)
                              /\ OrderListed(row, FALSE) \/ SampleListed(row, FALSE)
                                    => pullScope(row, FALSE)
                        /\ DocListed(row) /\ profile["doc.view"] \in {"SELF", "SUBDEPT", "ALL"}
                              => DocOpens(row)
    BY DEF WhatIsListedOpens
  <2>2. ASSUME NEW search \in BOOLEAN, OrderListed(row, search)
        PROVE  OrderOpens(row)
    BY <2>2 DEF OrderListed, OrderOpens
  <2>3. SampleListed(row, FALSE) => SampleOpens(row)
    BY DEF SampleListed, SampleOpens
  <2>4. ASSUME CaseListed(row), GivenWith("lab.oos.view", "lab.oos.manage"),
               GivenWith("lab.oos.manage", "lab.oos.view")
        PROVE  CaseYields(row)
    <3>1. Matches(profile, "lab.oos.view", "lab.oos.manage")
      BY <1>1, <2>1, <2>4, ProfileFollows
    <3>2. /\ "lab.oos.manage" \in DOMAIN profile
          /\ profile["lab.oos.manage"] = profile["lab.oos.view"]
      BY <2>4, <3>1 DEF Matches, CaseListed, MayRead, Granted
    <3> QED  BY <2>4, <3>2 DEF CaseListed, CaseYields, MayRead, Granted, sampleScope
  <2>5. ASSUME ~row.mine, SampleCounted(row),
               GivenWith("lab.result.view", "lab.sample.view"),
               ~Tied("lab.result.view", "lab.sample.view")
        PROVE  SampleListed(row, FALSE)
    BY <1>1, <2>1, <2>5, CountedIsListed
  <2>6. ASSUME ~row.mine, OrderListed(row, FALSE)
        PROVE  pullScope(row, FALSE)
    BY <2>6, ScopesAndPlaces DEF OrderListed, OrderScope, pullScope, MayRead, Granted
  <2>7. ASSUME ~row.mine, SampleListed(row, FALSE)
        PROVE  pullScope(row, FALSE)
    BY <2>7, ScopesAndPlaces DEF SampleListed, sampleScope, pullScope, MayRead, Granted
  <2>8. ASSUME DocListed(row), profile["doc.view"] \in {"SELF", "SUBDEPT", "ALL"}
        PROVE  DocOpens(row)
    BY <2>8 DEF DocListed, DocOpens, assertCanSee
  <2> QED  BY <2>2, <2>3, <2>4, <2>5, <2>6, <2>7, <2>8
<1> QED  BY <1>1, AccessInvariant, PTL
=============================================================================
