---------------------------- MODULE RouterProofs ----------------------------
(***************************************************************************)
(* Proofs about the router, for any requests, providers, payloads,         *)
(* settings, limits and nonces: the settings file survives crashes, a      *)
(* consent is used no more often than it was shown, what reaches a remote  *)
(* provider was eligible or consented to, and everything keeps its bounds. *)
(***************************************************************************)
EXTENDS Router, FiniteSetTheorems, TLAPS

-----------------------------------------------------------------------------
(* Settings *)

\* What a save in progress has done so far.
SaveShape ==
    /\ saving = "none" <=> step = "idle"
    /\ saving # "none" => saving \in tried
    /\ step = "rename" => temp[pid] = saving
    /\ step = "chmod" => file = saving

SettingsInv == SettingsTypeOK /\ SaveShape /\ SettingsDurable

\* Every step of the router leaves the settings alone, or is one of their operations.
SettingsStep ==
    \/ UNCHANGED settingsVars
    \/ \E s \in Settings : UpdateBegin(s)
    \/ UpdateWrite \/ UpdateRename \/ UpdateFinish
    \/ Load

LEMMA SettingsSteps == [Next]_vars => SettingsStep
<1> SUFFICES ASSUME [Next]_vars PROVE SettingsStep
  OBVIOUS
<1> USE DEF SettingsStep, shared, vars, routerVars, chatVars, agentVars
<1>1. ASSUME NEW r \in Requests, Submit(r, FALSE) \/ Chat(r) \/ Provider(r) \/ Receive(r) \/ Cancel(r)
      PROVE  UNCHANGED settingsVars
  BY <1>1 DEF Submit, Chat, Provider, Receive, Cancel, Validate, Queue, Route, NextCandidate,
     Probe, Announce, Fall, Start, BeginRound, Select, Drain, NextCall, Invoke, Report, Finish,
     Fail, FallBack, SendError, SendDone, Chunk, Answer
<1>2. ASSUME NEW v \in Remotes, NEW p \in Payloads, ConsentPreview(v, p) PROVE UNCHANGED settingsVars
  BY <1>2 DEF ConsentPreview
<1>3. ASSUME NEW v \in Remotes, Status(v) PROVE UNCHANGED settingsVars
  BY <1>3 DEF Status
<1>4. ASSUME NEW s \in Settings, SettingsUpdate(s) PROVE SettingsStep
  BY <1>4 DEF SettingsUpdate
<1>5. CASE Save
  BY <1>5 DEF Save
<1>6. CASE Tick
  BY <1>6 DEF Tick
<1>7. CASE Restart
  BY <1>7 DEF Restart
<1>8. CASE UNCHANGED vars
  BY <1>8
<1> QED
  BY <1>1, <1>2, <1>3, <1>4, <1>5, <1>6, <1>7, <1>8 DEF Next

LEMMA SettingsInitInv == Init => SettingsInv
<1> SUFFICES ASSUME Init PROVE SettingsInv
  OBVIOUS
<1> QED
  BY SettingsAssumption DEF Init, SettingsInit, SettingsInv, SettingsTypeOK, SaveShape, SettingsDurable,
     Loaded, Contents

LEMMA SettingsStepInv == SettingsInv /\ SettingsStep => SettingsInv'
<1> SUFFICES ASSUME SettingsInv, SettingsStep PROVE SettingsInv'
  OBVIOUS
<1> USE SettingsAssumption DEF SettingsInv, SettingsTypeOK, SaveShape, SettingsDurable, Loaded, Contents
<1>1. CASE UNCHANGED settingsVars
  BY <1>1 DEF settingsVars
<1>2. ASSUME NEW s \in Settings, UpdateBegin(s) PROVE SettingsInv'
  BY <1>2 DEF UpdateBegin, Unlocked
<1>3. CASE UpdateWrite
  BY <1>3 DEF UpdateWrite
<1>4. CASE UpdateRename
  BY <1>4 DEF UpdateRename
<1>5. CASE UpdateFinish
  BY <1>5 DEF UpdateFinish
<1>6. CASE Load
  BY <1>6 DEF Load
<1> QED
  BY <1>1, <1>2, <1>3, <1>4, <1>5, <1>6 DEF SettingsStep

\* Whatever crash or error interrupts a save, the settings file is whole and holds what
\* was last reported saved or asked for since (settings.rs: load, update,
\* write_private_json).
THEOREM SettingsAreDurable == Spec => []SettingsDurable
<1>1. Spec => []SettingsInv
  BY SettingsInitInv, SettingsSteps, SettingsStepInv, PTL DEF Spec
<1> QED
  BY <1>1, PTL DEF SettingsInv

-----------------------------------------------------------------------------
(* Consents *)

\* What preview makes: it expires a lifetime after it was issued.
IsToken(t) ==
    /\ t.issued \in Int
    /\ t = [id |-> t.id, provider |-> t.id.provider, payload |-> t.id.payload,
            issued |-> t.issued, expires |-> t.issued + Lifetime]

\* Whether t could still be accepted for something.
Avail(t) == IF Known(t) /\ entries[t.id].expires = t.expires THEN 1 ELSE 0

ConsentInv ==
    /\ now \in Nat
    /\ shown \in [DOMAIN shown -> Nat] /\ spent \in [DOMAIN spent -> Nat]
    /\ DOMAIN spent \subseteq DOMAIN shown
    /\ token \in [Requests -> SUBSET DOMAIN shown]
    /\ \A t \in DOMAIN shown : IsToken(t)
    /\ \A t \in DOMAIN shown : Count(spent, t) + Avail(t) <= Count(shown, t)

\* Every step of the router leaves the consents alone, shows one, spends one that
\* a request presents, or forgets them with the process.
ConsentStep ==
    /\ now' \in {now, now + 1}
    /\ \/ UNCHANGED consentVars
          /\ \/ UNCHANGED token
             \/ \E r \in Requests, t \in DOMAIN shown : token' = [token EXCEPT ![r] = {t}]
       \/ UNCHANGED token /\ \E v \in Remotes, p \in Payloads : Preview(v, p)
       \/ UNCHANGED token /\ \E r \in Requests : \E t \in token[r] :
             \E v, p : Consume(t, v, p)
       \/ UNCHANGED token /\ ForgetConsents

LEMMA CountBump ==
    ASSUME NEW f, f \in [DOMAIN f -> Nat], NEW x
    PROVE  /\ DOMAIN Bump(f, x) = DOMAIN f \cup {x}
           /\ Bump(f, x) \in [DOMAIN f \cup {x} -> Nat]
           /\ Count(f, x) \in Nat
           /\ Count(Bump(f, x), x) = Count(f, x) + 1
           /\ \A y : y # x => Count(Bump(f, x), y) = Count(f, y)
  BY DEF Bump, Count

LEMMA ConsentInitInv == Init => ConsentInv
  BY ConsentAssumption DEF Init, ConsentInit, ConsentInv, Count, Avail, Known

LEMMA ConsentStepInv == ConsentInv /\ ConsentStep => ConsentInv'
<1> SUFFICES ASSUME ConsentInv, ConsentStep PROVE ConsentInv'
  OBVIOUS
<1>0. now' \in Nat
  BY DEF ConsentInv, ConsentStep
<1>1. ASSUME UNCHANGED consentVars,
             \/ UNCHANGED token
             \/ \E r \in Requests, t \in DOMAIN shown : token' = [token EXCEPT ![r] = {t}]
      PROVE  ConsentInv'
  BY <1>0, <1>1 DEF ConsentInv, consentVars, IsToken, Avail, Known, Count
<1>2. ASSUME UNCHANGED token, NEW v \in Remotes, NEW p \in Payloads, Preview(v, p)
      PROVE  ConsentInv'
  <2> DEFINE kept == {i \in DOMAIN entries : entries[i].expires >= now}
             n == Nonce(Cardinality(kept), now)
             k == [id |-> [boot |-> boot, provider |-> v, payload |-> p, nonce |-> n],
                   provider |-> v, payload |-> p, issued |-> now, expires |-> now + Lifetime]
  <2>1. /\ shown' = Bump(shown, k) /\ spent' = spent
        /\ entries' = [i \in kept \cup {k.id} |->
                          IF i = k.id THEN [provider |-> v, payload |-> p, expires |-> k.expires]
                                      ELSE entries[i]]
    BY <1>2 DEF Preview, PreviewToken
  <2>2. IsToken(k)
    BY DEF IsToken, ConsentInv
  <2> HIDE DEF k
  <2>3. /\ DOMAIN shown' = DOMAIN shown \cup {k} /\ shown' \in [DOMAIN shown' -> Nat]
        /\ Count(shown', k) = Count(shown, k) + 1 /\ Count(shown, k) \in Nat
        /\ \A y : y # k => Count(shown', y) = Count(shown, y)
    <3>1. shown \in [DOMAIN shown -> Nat]
      BY DEF ConsentInv
    <3>2. /\ DOMAIN Bump(shown, k) = DOMAIN shown \cup {k}
          /\ Bump(shown, k) \in [DOMAIN shown \cup {k} -> Nat]
          /\ Count(shown, k) \in Nat /\ Count(Bump(shown, k), k) = Count(shown, k) + 1
          /\ \A y : y # k => Count(Bump(shown, k), y) = Count(shown, y)
      BY <3>1, CountBump
    <3> QED
      BY <2>1, <3>2
  <2>4. ASSUME NEW t \in DOMAIN shown' PROVE IsToken(t)
    BY <2>2, <2>3, <2>4 DEF ConsentInv
  <2>5. ASSUME NEW t \in DOMAIN shown' PROVE Count(spent, t) + Avail(t)' <= Count(shown', t)
    <3>1. CASE t = k
      <4>1. Avail(t)' \in {0, 1}
        BY DEF Avail
      <4>2. Count(spent, k) <= Count(shown, k) /\ Count(spent, k) \in Nat
        <5>1. CASE k \in DOMAIN shown
          BY <5>1 DEF ConsentInv, Count, Avail
        <5>2. CASE k \notin DOMAIN shown
          BY <5>2 DEF ConsentInv, Count
        <5> QED BY <5>1, <5>2
      <4> QED
        BY <3>1, <4>1, <4>2, <2>3
    <3>2. CASE t # k
      <4>1. t \in DOMAIN shown /\ IsToken(t) /\ Count(shown', t) = Count(shown, t)
        BY <3>2, <2>3, <2>4
      <4>2. ~(t.id = k.id /\ t.expires = k.expires)
        BY <3>2, <4>1, <2>2, ConsentAssumption DEF IsToken
      <4>3. Avail(t)' = 1 => Avail(t) = 1
        BY <4>2, <2>1 DEF Avail, Known
      <4>4. Count(spent, t) + Avail(t) <= Count(shown, t) /\ Count(spent, t) \in Nat
            /\ Count(shown, t) \in Nat
        BY <4>1 DEF ConsentInv, Count
      <4>5. Avail(t) \in {0, 1} /\ Avail(t)' \in {0, 1}
        BY DEF Avail
      <4> QED
        BY <4>1, <4>3, <4>4, <4>5
    <3> QED BY <3>1, <3>2
  <2> QED
    BY <1>0, <1>2, <2>1, <2>3, <2>4, <2>5 DEF ConsentInv, IsToken
<1>3. ASSUME UNCHANGED token, NEW r \in Requests, NEW t \in token[r],
             NEW v, NEW p, Consume(t, v, p)
      PROVE  ConsentInv'
  <2>1. /\ entries' = [i \in DOMAIN entries \ {t.id} |-> entries[i]] /\ shown' = shown
        /\ spent' = IF Accepts(t, v, p) THEN Bump(spent, t) ELSE spent
    BY <1>3 DEF Consume
  <2>2. t \in DOMAIN shown
    BY DEF ConsentInv
  <2>0. /\ DOMAIN Bump(spent, t) = DOMAIN spent \cup {t}
        /\ Bump(spent, t) \in [DOMAIN spent \cup {t} -> Nat]
        /\ Count(spent, t) \in Nat /\ Count(Bump(spent, t), t) = Count(spent, t) + 1
        /\ \A y : y # t => Count(Bump(spent, t), y) = Count(spent, y)
    <3>1. spent \in [DOMAIN spent -> Nat]
      BY DEF ConsentInv
    <3> QED
      BY <3>1, CountBump
  <2>3. \A y : y # t => Count(spent', y) = Count(spent, y)
    BY <2>1, <2>0
  <2>4. DOMAIN spent' \subseteq DOMAIN shown /\ spent' \in [DOMAIN spent' -> Nat]
    BY <2>1, <2>2, <2>0 DEF ConsentInv
  <2>5. \A y : Avail(y) \in {0, 1} /\ Avail(y)' \in {0, 1} /\ Avail(y)' <= Avail(y)
    BY <2>1 DEF Avail, Known
  <2>6. Count(spent', t) + Avail(t)' <= Count(spent, t) + Avail(t)
    <3>1. Avail(t)' = 0
      BY <2>1 DEF Avail, Known
    <3>2. CASE Accepts(t, v, p)
      <4>1. Avail(t) = 1
        BY <3>2 DEF Accepts, Avail
      <4> QED
        BY <3>1, <3>2, <4>1, <2>1, <2>0
    <3>3. CASE ~Accepts(t, v, p)
      BY <3>1, <3>3, <2>1, <2>5, <2>0
    <3> QED BY <3>2, <3>3
  <2>7. \A y \in DOMAIN shown : Count(spent', y) + Avail(y)' <= Count(shown, y)
    <3> TAKE y \in DOMAIN shown
    <3>1. Count(spent, y) + Avail(y) <= Count(shown, y)
          /\ Count(spent, y) \in Nat /\ Count(spent', y) \in Nat /\ Count(shown, y) \in Nat
      BY <2>4 DEF ConsentInv, Count
    <3> QED
      BY <3>1, <2>3, <2>5, <2>6
  <2> QED
    BY <1>0, <1>3, <2>1, <2>4, <2>7 DEF ConsentInv, IsToken
<1>4. ASSUME UNCHANGED token, ForgetConsents PROVE ConsentInv'
  <2>1. \A y \in DOMAIN shown : Avail(y)' = 0 /\ Avail(y) \in {0, 1}
    BY <1>4 DEF ForgetConsents, Avail, Known
  <2>2. \A y \in DOMAIN shown : Count(spent, y) + Avail(y)' <= Count(shown, y)
    BY <2>1 DEF ConsentInv, Count
  <2> QED
    BY <1>0, <1>4, <2>2 DEF ForgetConsents, ConsentInv, IsToken
<1> QED
  BY <1>1, <1>2, <1>3, <1>4 DEF ConsentStep

LEMMA ConsentSteps == ConsentInv /\ [Next]_vars => ConsentStep
<1> SUFFICES ASSUME ConsentInv, [Next]_vars PROVE ConsentStep
  OBVIOUS
<1> USE DEF ConsentStep, shared, vars, routerVars, chatVars, agentVars
<1>1. ASSUME NEW r \in Requests, Provider(r) \/ Receive(r) \/ Cancel(r)
      PROVE  ConsentStep
  BY <1>1 DEF Provider, Receive, Cancel, Chunk, Answer
<1>2. ASSUME NEW r \in Requests, Submit(r, FALSE) PROVE ConsentStep
  BY <1>2 DEF Submit
<1>3. ASSUME NEW r \in Requests, Chat(r) PROVE ConsentStep
  <2>1. CASE Route(r)
    BY <2>1 DEF Route
  <2>2. CASE ~Route(r)
    BY <1>3, <2>2 DEF Chat, Validate, Queue, NextCandidate,
     Probe, Announce, Fall, Start, BeginRound, Select, Drain, NextCall, Invoke, Report, Finish,
     Fail, FallBack, SendError, SendDone
  <2> QED BY <2>1, <2>2
<1>4. ASSUME NEW v \in Remotes, NEW p \in Payloads, ConsentPreview(v, p) PROVE ConsentStep
  BY <1>4 DEF ConsentPreview
<1>5. ASSUME NEW v \in Remotes, Status(v) PROVE ConsentStep
  BY <1>5 DEF Status
<1>6. ASSUME NEW s \in Settings, SettingsUpdate(s) PROVE ConsentStep
  BY <1>6 DEF SettingsUpdate
<1>7. CASE Save
  BY <1>7 DEF Save
<1>8. CASE Tick
  BY <1>8 DEF Tick
<1>9. CASE Restart
  BY <1>9 DEF Restart
<1>10. CASE UNCHANGED vars
  BY <1>10
<1> QED
  BY <1>1, <1>2, <1>3, <1>4, <1>5, <1>6, <1>7, <1>8, <1>9, <1>10 DEF Next

LEMMA ConsentInvSingleUse == ConsentInv => ConsentSingleUse
<1> SUFFICES ASSUME ConsentInv, NEW t \in DOMAIN shown \cup DOMAIN spent
             PROVE  Count(spent, t) <= Count(shown, t)
  BY DEF ConsentSingleUse
<1>1. t \in DOMAIN shown /\ Avail(t) \in {0, 1}
  BY DEF ConsentInv, Avail
<1> QED
  BY <1>1 DEF ConsentInv, Count

\* A consent is spent at most as often as it was shown, through collisions of
\* previews, expiry, restarts and requests that race with the same token
\* (privacy.rs: preview, consume_consent; router.rs: build_route).
THEOREM ConsentsAreSingleUse == Spec => []ConsentSingleUse
  BY ConsentInitInv, ConsentSteps, ConsentStepInv, ConsentInvSingleUse, PTL DEF Spec

-----------------------------------------------------------------------------
(* Routes *)

Early == {"idle", "validate", "queue", "route"}
\* Where chat has a candidate in hand.
Held == {"probe", "announce", "fall", "start", "round", "stream", "drain", "tools", "invoke",
         "used", "propose", "finish", "fail"}

Justified(c, b, v) ==
    \/ /\ c.policy \in {"local_preferred", "remote_preferred"}
       /\ ~c.sensitive /\ CategoriesOf[c.payload] \subseteq b.eligible
    \/ \E t \in b.token : t.provider = v /\ t.payload = c.payload

Users(t) == {r \in Requests : t \in basis[r].token}

\* The route of one request: it is empty and stands on nothing before build_route,
\* every remote candidate left in it was granted, and the loop works on its head.
RouteOK(at, rt, c, b) ==
    /\ at \in Early => rt = <<>> /\ b.token = {}
    /\ at \in Held => rt # <<>>
    /\ \A i \in 1..Len(rt) : IsRemote(rt[i]) => Justified(c, b, rt[i])

RouteTypeOK ==
    /\ env \in Scenarios /\ mem \in Settings
    /\ pc \in [Requests -> Steps]
    /\ chat \in [Requests -> ChatInputs]
    /\ route \in [Requests -> Seq(Remotes \cup {"local"})]
    /\ basis \in [Requests -> [eligible : SUBSET UNION {CategoriesOf[p] : p \in Payloads},
                              token : SUBSET DOMAIN spent]]
    /\ spent \in [DOMAIN spent -> Nat]

RouteInv ==
    /\ RouteTypeOK
    /\ \A r \in Requests : RouteOK(pc[r], route[r], chat[r], basis[r])
    /\ \A t : Cardinality(Users(t)) <= Count(spent, t)

\* A step that builds no route: each request keeps its route and goes on, or drops
\* the candidate it has in hand.
Proceed ==
    /\ UNCHANGED <<chat, basis>>
    /\ pc' \in [Requests -> Steps]
    /\ \/ UNCHANGED route
       \/ \E r \in Requests : /\ route' = [route EXCEPT ![r] = Tail(@)]
                              /\ route[r] # <<>> /\ pc'[r] \notin Held
    /\ \A r \in Requests : /\ pc'[r] \in Early => pc[r] \in Early
                           /\ pc'[r] \in Held => route[r] # <<>>

RouteStep ==
    /\ UNCHANGED env /\ mem' \in Settings
    /\ \/ UNCHANGED spent /\ Proceed
       \/ UNCHANGED spent /\ \E r \in Requests, stopped \in BOOLEAN : Submit(r, stopped)
       \/ \E r \in Requests : Route(r)

LEMMA RouteInitInv == Init => RouteInv
<1> SUFFICES ASSUME Init PROVE RouteInv
  OBVIOUS
<1>1. (CHOOSE c \in env.chats : TRUE) \in ChatInputs
  BY RouterAssumption DEF Init
<1>2. RouteTypeOK
  <2>1. env \in Scenarios /\ mem \in Settings /\ pc \in [Requests -> Steps]
        /\ chat \in [Requests -> ChatInputs] /\ spent \in [DOMAIN spent -> Nat]
    <3>1. mem \in Settings
      BY SettingsInitInv DEF SettingsInv, SettingsTypeOK
    <3>2. env \in Scenarios /\ pc \in [Requests -> Steps]
      BY DEF Init, Steps
    <3>3. spent \in [DOMAIN spent -> Nat]
      BY DEF Init, ConsentInit
    <3>4. chat \in [Requests -> ChatInputs]
      BY <1>1 DEF Init
    <3> QED
      BY <3>1, <3>2, <3>3, <3>4
  <2>2. route \in [Requests -> Seq(Remotes \cup {"local"})]
    BY DEF Init
  <2>3. basis \in [Requests -> [eligible : SUBSET UNION {CategoriesOf[p] : p \in Payloads},
                               token : SUBSET DOMAIN spent]]
    BY DEF Init
  <2> QED
    BY <2>1, <2>2, <2>3 DEF RouteTypeOK
<1>3. \A r \in Requests : RouteOK(pc[r], route[r], chat[r], basis[r])
  BY DEF Init, RouteOK, Early, Held
<1>4. ASSUME NEW t PROVE Cardinality(Users(t)) <= Count(spent, t)
  <2>1. Users(t) = {} /\ Count(spent, t) = 0
    BY DEF Users, Init, ConsentInit, Count
  <2> QED
    BY <2>1, FS_EmptySet
<1> QED
  BY <1>2, <1>3, <1>4 DEF RouteInv

LEMMA ProceedInv ==
    ASSUME RouteInv, UNCHANGED <<env, spent>>, mem' \in Settings, Proceed
    PROVE  RouteInv'
<1>1. RouteTypeOK'
  <2>1. route' \in [Requests -> Seq(Remotes \cup {"local"})]
    <3>1. \A r \in Requests : route[r] \in Seq(Remotes \cup {"local"})
                              /\ (route[r] # <<>> => Tail(route[r]) \in Seq(Remotes \cup {"local"}))
      BY DEF RouteInv, RouteTypeOK
    <3> QED
      BY <3>1 DEF RouteInv, RouteTypeOK, Proceed
  <2> QED
    BY <2>1 DEF RouteInv, RouteTypeOK, Proceed
<1>2. ASSUME NEW r \in Requests PROVE RouteOK(pc[r], route[r], chat[r], basis[r])'
  <2>1. chat'[r] = chat[r] /\ basis'[r] = basis[r] /\ route[r] \in Seq(Remotes \cup {"local"})
    BY DEF Proceed, RouteInv, RouteTypeOK
  <2>2. CASE route'[r] = route[r]
    BY <2>1, <2>2 DEF Proceed, RouteInv, RouteOK
  <2>3. CASE route'[r] = Tail(route[r]) /\ route[r] # <<>> /\ pc'[r] \notin Held
    <3>1. Len(route'[r]) = Len(route[r]) - 1 /\ Len(route[r]) \in Nat
          /\ \A i \in 1..Len(route'[r]) : route'[r][i] = route[r][i + 1]
      BY <2>1, <2>3
    <3>2. \A i \in 1..Len(route[r]) : IsRemote(route[r][i]) => Justified(chat[r], basis[r], route[r][i])
      BY DEF RouteInv, RouteOK
    <3>3. \A i \in 1..Len(route'[r]) : IsRemote(route'[r][i]) => Justified(chat[r], basis[r], route'[r][i])
      BY <3>1, <3>2
    <3>4. pc'[r] \in Early => pc[r] \in Early
      BY DEF Proceed
    <3> QED
      BY <2>1, <2>3, <3>3, <3>4 DEF RouteInv, RouteOK
  <2> QED
    BY <2>2, <2>3 DEF Proceed, RouteInv, RouteTypeOK
<1>3. ASSUME NEW t PROVE Cardinality(Users(t))' <= Count(spent', t)
  BY DEF Users, Proceed, RouteInv
<1> QED
  BY <1>1, <1>2, <1>3 DEF RouteInv

\* Which candidates Plan lists.
LEMMA PlanGrants ==
    ASSUME NEW c \in ChatInputs, c.policy # "ask_before_remote", NEW s \in Settings
    PROVE  /\ Plan(c, s).route \in Seq(Remotes \cup {"local"})
           /\ \A i \in 1..Len(Plan(c, s).route) : IsRemote(Plan(c, s).route[i]) =>
                 /\ c.policy \in {"local_preferred", "remote_preferred"}
                 /\ MayLeave(c, s)
<1> DEFINE v == RemoteOf(c, s)
           remote == IF v # "none" /\ MayLeave(c, s) THEN <<v>> ELSE <<>>
<1>1. v \in Remotes \cup {"none"}
  BY DEF RemoteOf
<1>2. LocalRoute \in Seq(Remotes \cup {"local"})
      /\ \A i \in 1..Len(LocalRoute) : ~IsRemote(LocalRoute[i])
  <2>1. CASE env.local
    BY <2>1 DEF LocalRoute, IsRemote
  <2>2. CASE ~env.local
    BY <2>2 DEF LocalRoute, IsRemote
  <2> QED
    BY <2>1, <2>2
<1>3. remote \in Seq(Remotes \cup {"local"}) /\ (remote # <<>> => MayLeave(c, s))
  <2>1. ASSUME NEW w \in Remotes PROVE <<w>> \in Seq(Remotes \cup {"local"})
    OBVIOUS
  <2>2. CASE v # "none" /\ MayLeave(c, s)
    <3>1. remote = <<v>>
      BY <2>2
    <3> QED
      BY <1>1, <2>1, <2>2, <3>1
  <2>3. CASE ~(v # "none" /\ MayLeave(c, s))
    <3>1. remote = <<>>
      BY <2>3
    <3> QED
      BY <3>1
  <2> QED
    BY <2>2, <2>3
<1> HIDE DEF remote, v
<1>4. CASE c.policy = "local_only"
  BY <1>2, <1>4 DEF Plan
<1>5. CASE c.policy = "local_preferred"
  <2>1. Plan(c, s).route = LocalRoute \o remote
    BY <1>5 DEF Plan, remote, v
  <2>2. remote = <<>> => LocalRoute \o remote = LocalRoute
    BY <1>2
  <2> QED
    BY <1>2, <1>3, <1>5, <2>1, <2>2
<1>6. CASE c.policy = "remote_preferred"
  <2>1. Plan(c, s).route = remote \o LocalRoute
    BY <1>6 DEF Plan, remote, v
  <2>2. remote = <<>> => remote \o LocalRoute = LocalRoute
    BY <1>2
  <2> QED
    BY <1>2, <1>3, <1>6, <2>1, <2>2
<1> QED
  BY <1>4, <1>5, <1>6 DEF ChatInputs, Policies

LEMMA ShortRoutes ==
    ASSUME NEW S, NEW v \in S, NEW w \in S
    PROVE  /\ <<v>> \o <<>> \in Seq(S) /\ <<v>> \o <<w>> \in Seq(S)
           /\ \A i \in 1..Len(<<v>> \o <<>>) : (<<v>> \o <<>>)[i] = v
           /\ \A i \in 1..Len(<<v>> \o <<w>>) : (<<v>> \o <<w>>)[i] \in {v, w}
<1>1. <<v>> \in Seq(S) /\ <<w>> \in Seq(S) /\ <<>> \in Seq(S)
  OBVIOUS
<1>2. <<v>> \o <<>> = <<v>>
  BY <1>1
<1>3. <<v>> \o <<w>> \in Seq(S)
  BY <1>1
<1>4. \A i \in 1..Len(<<v>> \o <<w>>) : (<<v>> \o <<w>>)[i] \in {v, w}
  BY <1>1
<1>5. \A i \in 1..Len(<<v>>) : <<v>>[i] = v
  OBVIOUS
<1> QED
  BY <1>1, <1>2, <1>3, <1>4, <1>5

LEMMA SubmitInv ==
    ASSUME RouteInv, UNCHANGED spent, mem' \in Settings, NEW r \in Requests,
           NEW stopped \in BOOLEAN, Submit(r, stopped)
    PROVE  RouteInv'
<1> PICK c \in env.chats : chat' = [chat EXCEPT ![r] = c]
  BY DEF Submit
<1>1. /\ pc[r] = "idle" /\ pc' = [pc EXCEPT ![r] = "validate"]
      /\ UNCHANGED <<env, route, basis>>
  BY DEF Submit, Go
<1>2. c \in ChatInputs
  BY RouterAssumption DEF RouteInv, RouteTypeOK
<1>3. RouteTypeOK'
  BY <1>1, <1>2 DEF RouteInv, RouteTypeOK, Steps
<1>4. ASSUME NEW q \in Requests PROVE RouteOK(pc[q], route[q], chat[q], basis[q])'
  <2>1. CASE q = r
    <3>1. route[r] = <<>> /\ basis[r].token = {}
      BY <1>1 DEF RouteInv, RouteOK, Early
    <3> QED
      BY <1>1, <2>1, <3>1 DEF RouteOK, Early, Held, RouteInv, RouteTypeOK
  <2>2. CASE q # r
    BY <1>1, <2>2 DEF RouteInv, RouteTypeOK
  <2> QED
    BY <2>1, <2>2
<1>5. ASSUME NEW t PROVE Cardinality(Users(t))' <= Count(spent', t)
  BY <1>1 DEF Users, RouteInv
<1> QED
  BY <1>3, <1>4, <1>5 DEF RouteInv

LEMMA RouteActionInv ==
    ASSUME RouteInv, UNCHANGED env, mem' \in Settings, NEW r \in Requests, Route(r)
    PROVE  RouteInv'
<1> DEFINE c == chat[r]
           v == RemoteOf(c, mem)
<1>1. /\ pc[r] = "route" /\ UNCHANGED chat
      /\ c \in ChatInputs /\ mem \in Settings
  BY DEF Route, RouteInv, RouteTypeOK
<1>2. route[r] = <<>> /\ basis[r].token = {}
  BY <1>1 DEF RouteInv, RouteOK, Early
<1>3. v \in Remotes \cup {"none"}
  BY DEF RemoteOf
<1>4. ASSUME NEW x \in Seq(Remotes \cup {"local"}), NEW at \in Steps, at \notin Early \cup Held,
             pc' = [pc EXCEPT ![r] = at],
             route' = [route EXCEPT ![r] = x],
             \A i \in 1..Len(x) : IsRemote(x[i]) => Justified(c, basis'[r], x[i]),
             \A q \in Requests \ {r} : basis'[q] = basis[q]
      PROVE  \A q \in Requests : RouteOK(pc[q], route[q], chat[q], basis[q])'
  <2> TAKE q \in Requests
  <2>1. CASE q = r
    BY <1>1, <1>4, <2>1 DEF RouteOK, RouteInv, RouteTypeOK
  <2>2. CASE q # r
    BY <1>1, <1>4, <2>2 DEF RouteInv, RouteTypeOK
  <2> QED
    BY <2>1, <2>2
<1> HIDE DEF v
<1>5. CASE c.policy # "ask_before_remote"
  <2>1. /\ route' = [route EXCEPT ![r] = Plan(c, mem).route]
        /\ basis' = [basis EXCEPT ![r].eligible = EligibleIn[mem]]
        /\ pc' = [pc EXCEPT ![r] = "next"]
        /\ spent' = spent
    BY <1>5 DEF Route, Go, consentVars
  <2> DEFINE x == Plan(c, mem).route
  <2>2. /\ x \in Seq(Remotes \cup {"local"})
        /\ \A i \in 1..Len(x) : IsRemote(x[i]) =>
              c.policy \in {"local_preferred", "remote_preferred"} /\ MayLeave(c, mem)
    BY <1>1, <1>5, PlanGrants
  <2> HIDE DEF x
  <2>3. EligibleIn[mem] \in SUBSET UNION {CategoriesOf[p] : p \in Payloads}
    BY <1>1, RouterAssumption
  <2>4. /\ basis'[r].eligible = EligibleIn[mem]
        /\ \A q \in Requests : basis'[q].token = basis[q].token
        /\ \A q \in Requests \ {r} : basis'[q] = basis[q]
    BY <2>1 DEF RouteInv, RouteTypeOK
  <2>5. \A i \in 1..Len(x) : IsRemote(x[i]) => Justified(c, basis'[r], x[i])
    BY <2>2, <2>4 DEF Justified, MayLeave, Eligible
  <2>6. RouteTypeOK'
    BY <1>1, <2>1, <2>2, <2>3, ZenonT(40) DEF RouteInv, RouteTypeOK, Steps, x
  <2>7. \A q \in Requests : RouteOK(pc[q], route[q], chat[q], basis[q])'
    BY <1>4, <2>1, <2>2, <2>4, <2>5 DEF Steps, Early, Held, x
  <2>8. ASSUME NEW t PROVE Cardinality(Users(t))' <= Count(spent', t)
    <3>1. Users(t)' = Users(t)
      BY <2>4 DEF Users
    <3> QED
      BY <2>1, <3>1 DEF RouteInv
  <2> QED
    BY <2>6, <2>7, <2>8 DEF RouteInv
<1>6. ASSUME UNCHANGED <<route, basis, spent>>, pc' = [pc EXCEPT ![r] = "error"]
      PROVE  RouteInv'
  <2>1. RouteTypeOK'
    BY <1>1, <1>6 DEF RouteInv, RouteTypeOK, Steps
  <2>2. ASSUME NEW q \in Requests PROVE RouteOK(pc[q], route[q], chat[q], basis[q])'
    BY <1>1, <1>6 DEF RouteInv, RouteTypeOK, RouteOK, Early, Held
  <2>3. ASSUME NEW t PROVE Cardinality(Users(t))' <= Count(spent', t)
    BY <1>6 DEF Users, RouteInv
  <2> QED
    BY <2>1, <2>2, <2>3 DEF RouteInv
<1>7. ASSUME v # "none", NEW t, Accepts(t, v, c.payload), spent' = Bump(spent, t),
             route' = [route EXCEPT ![r] = <<v>> \o LocalRoute],
             basis' = [basis EXCEPT ![r].token = {t}],
             pc' = [pc EXCEPT ![r] = "next"]
      PROVE  RouteInv'
  <2>0. /\ DOMAIN Bump(spent, t) = DOMAIN spent \cup {t}
        /\ Bump(spent, t) \in [DOMAIN spent \cup {t} -> Nat]
        /\ Count(spent, t) \in Nat /\ Count(Bump(spent, t), t) = Count(spent, t) + 1
        /\ \A y : y # t => Count(Bump(spent, t), y) = Count(spent, y)
    <3>1. spent \in [DOMAIN spent -> Nat]
      BY DEF RouteInv, RouteTypeOK
    <3> QED
      BY <3>1, CountBump
  <2> DEFINE x == <<v>> \o LocalRoute
  <2>1. x \in Seq(Remotes \cup {"local"}) /\ \A i \in 1..Len(x) : IsRemote(x[i]) => x[i] = v
    <3>1. v \in Remotes
      BY <1>3, <1>7
    <3>2. LocalRoute = <<>> \/ LocalRoute = <<"local">>
      BY DEF LocalRoute
    <3>3. CASE LocalRoute = <<>>
      BY <3>1, <3>3, ShortRoutes
    <3>4. CASE LocalRoute = <<"local">>
      <4>1. v \in Remotes \cup {"local"} /\ "local" \in Remotes \cup {"local"}
        BY <3>1
      <4>2. <<v>> \o <<"local">> \in Seq(Remotes \cup {"local"})
            /\ \A i \in 1..Len(<<v>> \o <<"local">>) : (<<v>> \o <<"local">>)[i] \in {v, "local"}
        BY <4>1, ShortRoutes
      <4> QED
        BY <3>4, <4>2 DEF IsRemote
    <3> QED
      BY <3>2, <3>3, <3>4
  <2> HIDE DEF x
  <2>2. /\ basis'[r].token = {t}
        /\ \A q \in Requests \ {r} : basis'[q] = basis[q]
    BY <1>7 DEF RouteInv, RouteTypeOK
  <2>3. t.provider = v /\ t.payload = c.payload
    BY <1>7 DEF Accepts
  <2>4. \A i \in 1..Len(x) : IsRemote(x[i]) => Justified(c, basis'[r], x[i])
    BY <2>1, <2>2, <2>3 DEF Justified
  <2>5. RouteTypeOK'
    <3>1. basis' \in [Requests -> [eligible : SUBSET UNION {CategoriesOf[p] : p \in Payloads},
                                  token : SUBSET DOMAIN spent']]
      <4>1. DOMAIN spent' = DOMAIN spent \cup {t}
        BY <1>7, <2>0
      <4> DEFINE Basis(T) == [eligible : SUBSET UNION {CategoriesOf[p] : p \in Payloads},
                              token : SUBSET T]
      <4>2. basis \in [Requests -> Basis(DOMAIN spent)]
        BY DEF RouteInv, RouteTypeOK
      <4>3. \A b \in Basis(DOMAIN spent) : b \in Basis(DOMAIN spent')
                                           /\ [b EXCEPT !.token = {t}] \in Basis(DOMAIN spent')
        BY <4>1
      <4> HIDE DEF Basis
      <4>4. basis' \in [Requests -> Basis(DOMAIN spent')]
        BY <1>7, <4>2, <4>3
      <4> QED
        BY <4>4 DEF Basis
    <3>2. spent' \in [DOMAIN spent' -> Nat]
      BY <1>7, <2>0
    <3> QED
      BY <1>1, <1>7, <2>1, <3>1, <3>2 DEF RouteInv, RouteTypeOK, Steps, x
  <2>6. \A q \in Requests : RouteOK(pc[q], route[q], chat[q], basis[q])'
    BY <1>4, <1>7, <2>1, <2>2, <2>4 DEF Steps, Early, Held, x
  <2>7. ASSUME NEW y PROVE Cardinality(Users(y))' <= Count(spent', y)
    <3>1. CASE y # t
      <4>1. Users(y)' = Users(y)
        BY <1>2, <2>2, <3>1 DEF Users
      <4> QED
        BY <1>7, <2>0, <3>1, <4>1 DEF RouteInv
    <3>2. CASE y = t
      <4>1. Users(t)' = Users(t) \cup {r} /\ r \notin Users(t)
        BY <1>2, <2>2 DEF Users
      <4>2. IsFiniteSet(Users(t))
        BY RouterAssumption, FS_Subset DEF Users
      <4>3. Cardinality(Users(t) \cup {r}) = Cardinality(Users(t)) + 1
            /\ Cardinality(Users(t)) \in Nat
        BY <4>1, <4>2, FS_AddElement, FS_CardinalityType
      <4>4. Cardinality(Users(t)) <= Count(spent, t)
        BY DEF RouteInv
      <4> QED
        BY <1>7, <2>0, <3>2, <4>1, <4>3, <4>4
    <3> QED BY <3>1, <3>2
  <2> QED
    BY <2>5, <2>6, <2>7 DEF RouteInv
<1> QED
  <2>1. CASE c.policy = "ask_before_remote"
    <3>1. \/ pc' = [pc EXCEPT ![r] = "error"] /\ UNCHANGED <<route, basis, consentVars>>
          \/ /\ v # "none"
             /\ \E t \in token[r] :
                   /\ Consume(t, v, c.payload)
                   /\ IF Accepts(t, v, c.payload)
                      THEN /\ route' = [route EXCEPT ![r] = <<v>> \o LocalRoute]
                           /\ basis' = [basis EXCEPT ![r].token = {t}]
                           /\ pc' = [pc EXCEPT ![r] = "next"]
                      ELSE pc' = [pc EXCEPT ![r] = "error"] /\ UNCHANGED <<route, basis>>
      BY <2>1 DEF Route, Go, v
    <3>2. CASE pc' = [pc EXCEPT ![r] = "error"] /\ UNCHANGED <<route, basis, consentVars>>
      BY <3>2, <1>6 DEF consentVars
    <3>3. ASSUME v # "none", NEW t \in token[r], Consume(t, v, c.payload),
                 IF Accepts(t, v, c.payload)
                      THEN /\ route' = [route EXCEPT ![r] = <<v>> \o LocalRoute]
                           /\ basis' = [basis EXCEPT ![r].token = {t}]
                           /\ pc' = [pc EXCEPT ![r] = "next"]
                      ELSE pc' = [pc EXCEPT ![r] = "error"] /\ UNCHANGED <<route, basis>>
          PROVE  RouteInv'
      <4>1. CASE Accepts(t, v, c.payload)
        BY <3>3, <4>1, <1>7 DEF Consume
      <4>2. CASE ~Accepts(t, v, c.payload)
        BY <3>3, <4>2, <1>6 DEF Consume
      <4> QED BY <4>1, <4>2
    <3> QED
      BY <3>1, <3>2, <3>3
  <2> QED
    BY <1>5, <2>1

LEMMA GoesOn ==
    ASSUME RouteInv, NEW r \in Requests, NEW at \in Steps, pc' = [pc EXCEPT ![r] = at],
           UNCHANGED <<chat, basis, route>>,
           at \in Early => pc[r] \in Early,
           at \in Held => route[r] # <<>>
    PROVE  Proceed
<1>1. \A q \in Requests : pc[q] \in Held => route[q] # <<>>
  BY DEF RouteInv, RouteOK
<1> QED
  BY <1>1 DEF Proceed, RouteInv, RouteTypeOK

LEMMA Drops ==
    ASSUME RouteInv, NEW r \in Requests, NEW at \in Steps, pc' = [pc EXCEPT ![r] = at],
           UNCHANGED <<chat, basis>>, Skip(r), route[r] # <<>>, at \notin Early \cup Held
    PROVE  Proceed
<1>1. \A q \in Requests : pc[q] \in Held => route[q] # <<>>
  BY DEF RouteInv, RouteOK
<1> QED
  BY <1>1 DEF Proceed, RouteInv, RouteTypeOK, Skip

LEMMA StaysProceed ==
    ASSUME RouteInv, UNCHANGED <<pc, chat, basis, route>>
    PROVE  Proceed
  BY DEF Proceed, RouteInv, RouteTypeOK, RouteOK

LEMMA ChatProceeds ==
    ASSUME RouteInv, NEW r \in Requests, Chat(r), ~Route(r)
    PROVE  UNCHANGED <<env, spent>> /\ Proceed
<1>1. UNCHANGED <<env, spent, chat, basis>>
  BY DEF Chat, Validate, Queue, NextCandidate, shared, consentVars, agentVars,
     Probe, Announce, Fall, Start, BeginRound, Select, Drain, NextCall, Invoke, Report, Finish,
     Fail, FallBack, SendError, SendDone
<1>2. pc[r] \in Held => route[r] # <<>>
  BY DEF RouteInv, RouteOK
<1>3. pc \in [Requests -> Steps]
  BY DEF RouteInv, RouteTypeOK
<1> USE DEF Go, Steps, Early, Held
<1>4. CASE Validate(r) \/ Queue(r) \/ Announce(r) \/ Fall(r) \/ Start(r) \/ BeginRound(r)
  BY <1>1, <1>2, <1>4, GoesOn DEF Validate, Queue, Announce, Fall, Start, BeginRound
<1>5. CASE Select(r) \/ Drain(r) \/ NextCall(r) \/ Invoke(r) \/ Report(r)
  <2>1. UNCHANGED pc \/ \E at \in Held : pc[r] \in Held /\ pc' = [pc EXCEPT ![r] = at]
    BY <1>5 DEF Select, Drain, NextCall, Invoke, Report
  <2>2. UNCHANGED <<chat, basis, route>>
    BY <1>1, <1>5 DEF Select, Drain, NextCall, Invoke, Report
  <2> QED
    BY <1>1, <1>2, <2>1, <2>2, GoesOn, StaysProceed
<1>6. CASE Finish(r) \/ FallBack(r) \/ SendError(r) \/ SendDone(r)
  BY <1>1, <1>2, <1>6, GoesOn DEF Finish, FallBack, SendError, SendDone
<1>7. CASE NextCandidate(r)
  <2>1. \/ /\ UNCHANGED route
           /\ \E at \in {"error", "cancel", "announce", "probe"} :
                 pc' = [pc EXCEPT ![r] = at] /\ (at \in Held => route[r] # <<>>)
        \/ Skip(r) /\ route[r] # <<>> /\ UNCHANGED pc /\ pc[r] = "next"
    BY <1>7 DEF NextCandidate
  <2>2. UNCHANGED pc /\ pc[r] = "next" => pc' = [pc EXCEPT ![r] = "next"]
    BY <1>3
  <2> QED
    BY <1>1, <2>1, <2>2, GoesOn, Drops
<1>8. CASE Probe(r)
  <2>1. \/ UNCHANGED route /\ pc' = [pc EXCEPT ![r] = "announce"]
        \/ Skip(r) /\ pc' = [pc EXCEPT ![r] = "next"]
    BY <1>8 DEF Probe
  <2>2. route[r] # <<>>
    BY <1>2, <1>8 DEF Probe
  <2> QED
    BY <1>1, <2>1, <2>2, GoesOn, Drops
<1>9. CASE Fail(r)
  <2>1. \/ UNCHANGED route /\ pc' = [pc EXCEPT ![r] = "cancel"]
        \/ Skip(r) /\ pc' = [pc EXCEPT ![r] = "fallback"]
    BY <1>9 DEF Fail
  <2>2. route[r] # <<>>
    BY <1>2, <1>9 DEF Fail
  <2> QED
    BY <1>1, <2>1, <2>2, GoesOn, Drops
<1> QED
  BY <1>4, <1>5, <1>6, <1>7, <1>8, <1>9 DEF Chat

LEMMA RouteSteps == RouteInv /\ mem' \in Settings /\ [Next]_vars => RouteStep
<1> SUFFICES ASSUME RouteInv, mem' \in Settings, [Next]_vars PROVE RouteStep
  OBVIOUS
<1> USE DEF RouteStep
<1>1. ASSUME UNCHANGED <<env, spent, pc, chat, basis, route>> PROVE RouteStep
  BY <1>1, StaysProceed
<1>2. ASSUME NEW r \in Requests, Provider(r) \/ Receive(r) \/ Cancel(r)
      PROVE  RouteStep
  BY <1>1, <1>2 DEF Provider, Receive, Cancel, Chunk, Answer, chatVars, shared, consentVars
<1>3. ASSUME NEW r \in Requests, Submit(r, FALSE) PROVE RouteStep
  BY <1>3 DEF Submit, shared, consentVars
<1>4. ASSUME NEW r \in Requests, Chat(r) PROVE RouteStep
  <2>1. CASE Route(r)
    BY <2>1 DEF Route
  <2>2. CASE ~Route(r)
    BY <1>4, <2>2, ChatProceeds
  <2> QED BY <2>1, <2>2
<1>5. ASSUME NEW v \in Remotes, NEW p \in Payloads, ConsentPreview(v, p) PROVE RouteStep
  BY <1>1, <1>5 DEF ConsentPreview, Preview, routerVars, chatVars
<1>6. ASSUME NEW v \in Remotes, Status(v) PROVE RouteStep
  BY <1>1, <1>6 DEF Status, routerVars, chatVars, consentVars
<1>7. ASSUME NEW s \in Settings, SettingsUpdate(s) PROVE RouteStep
  BY <1>1, <1>7 DEF SettingsUpdate, routerVars, chatVars, consentVars
<1>8. CASE Save \/ Tick
  BY <1>1, <1>8 DEF Save, Tick, routerVars, chatVars, consentVars
<1>9. CASE Restart
  <2>1. UNCHANGED <<env, spent, chat, basis, route>>
    BY <1>9 DEF Restart, ForgetConsents
  <2>2. pc' = [r \in Requests |-> IF pc[r] = "idle" THEN "idle" ELSE "end"]
    BY <1>9 DEF Restart
  <2>3. pc' \in [Requests -> Steps]
    BY <2>2 DEF Steps
  <2> QED
    BY <2>1, <2>2, <2>3 DEF Proceed, Early, Held
<1>10. CASE UNCHANGED vars
  BY <1>1, <1>10 DEF vars, routerVars, chatVars, consentVars
<1> QED
  BY <1>2, <1>3, <1>4, <1>5, <1>6, <1>7, <1>8, <1>9, <1>10 DEF Next

LEMMA RouteStepInv == RouteInv /\ RouteStep => RouteInv'
  BY ProceedInv, SubmitInv, RouteActionInv DEF RouteStep

THEOREM RouteInductive == Spec => []RouteInv
<1>1. SettingsInv => mem \in Settings
  BY DEF SettingsInv, SettingsTypeOK
<1>2. Spec => []SettingsInv
  BY SettingsInitInv, SettingsSteps, SettingsStepInv, PTL DEF Spec
<1>3. SettingsInv' => mem' \in Settings
  BY DEF SettingsInv, SettingsTypeOK
<1>4. RouteInv /\ SettingsInv' /\ [Next]_vars => RouteInv'
  BY <1>3, RouteSteps, RouteStepInv
<1> QED
  BY <1>2, <1>4, RouteInitInv, PTL DEF Spec

LEMMA RouteInvJustifies == RouteInv => RemoteJustified
<1> SUFFICES ASSUME RouteInv PROVE RemoteJustified
  OBVIOUS
<1>1. ASSUME NEW r \in Requests, AtProvider(r), IsRemote(Cand(r))
      PROVE  Justified(chat[r], basis[r], Cand(r))
  <2>1. route[r] # <<>> /\ route[r] \in Seq(Remotes \cup {"local"})
    BY <1>1 DEF AtProvider, RouteInv, RouteTypeOK, RouteOK, Held
  <2>2. 1 \in 1..Len(route[r]) /\ Cand(r) = route[r][1]
    BY <2>1 DEF Cand
  <2> QED
    BY <1>1, <2>2 DEF RouteInv, RouteOK
<1>2. \A t : Cardinality({r \in Requests : t \in basis[r].token}) <= Count(spent, t)
  BY DEF RouteInv, Users
<1> QED
  BY <1>1, <1>2 DEF RemoteJustified, Justified

\* Whatever the settings, the circuits and the consents became since its route was
\* built, a payload at a remote provider was eligible then and is not sensitive, or a
\* consent for that provider and payload was spent on it and on no other request
\* beyond the previews that showed it (router.rs: build_route, chat).
THEOREM RemoteIsJustified == Spec => []RemoteJustified
  BY RouteInductive, RouteInvJustifies, PTL

-----------------------------------------------------------------------------
(* Types *)

\* The channels and the agent loop: what a step sends is an event, the queues keep to
\* their bounds, a call is reported only while it is at the head of the round's
\* calls, and the provider's task runs only while the loop listens to it.
FlagsInv ==
    /\ chat \in [Requests -> env.chats]
    /\ lastError \in [Requests -> BOOLEAN] /\ reason \in [Requests -> BOOLEAN]
    /\ cancelled \in [Requests -> BOOLEAN]

EventsInv ==
    /\ events \in [Requests -> Seq(Events)]
    /\ \A r \in Requests : Len(events[r]) <= EventCap

LoopTypeOK ==
    /\ task \in [Requests -> Answers]
    /\ chunks \in [Requests -> Seq({"progress", "delta"})]
    /\ \A r \in Requests : Len(chunks[r]) <= ChunkCap
    /\ streamed \in [Requests -> 0..MaxChunks]
    /\ round \in [Requests -> 0..MaxRounds]
    /\ calls \in [Requests -> Seq(CallIds \X CallKinds)]
    /\ seen \in [Requests -> SUBSET CallIds]

LoopInv ==
    /\ LoopTypeOK
    /\ \A r \in Requests : /\ pc[r] \in {"invoke", "used", "propose"} => calls[r] # <<>>
                           /\ task[r] = "running" => pc[r] = "stream"

\* The table of consents, and the breakers.
TableInv ==
    /\ boot \in Nat
    /\ entries \in [DOMAIN entries -> ConsentEntry]
    /\ BreakersTypeOK

LEMMA TypesInit == Init => FlagsInv /\ EventsInv /\ LoopInv /\ TableInv
<1> SUFFICES ASSUME Init PROVE FlagsInv /\ EventsInv /\ LoopInv /\ TableInv
  OBVIOUS
<1>1. (CHOOSE c \in env.chats : TRUE) \in env.chats
  BY RouterAssumption DEF Init
<1>2. FlagsInv /\ EventsInv
  BY <1>1, RouterAssumption DEF Init, FlagsInv, EventsInv
<1>3. LoopInv
  BY RouterAssumption DEF Init, LoopInv, LoopTypeOK, Answers
<1>4. TableInv
  BY BreakerAssumption DEF Init, ConsentInit, BreakersInit, BreakersTypeOK, TableInv
<1> QED
  BY <1>2, <1>3, <1>4

\* The candidate in hand is a registered provider.
LEMMA HeldCandidate ==
    ASSUME RouteInv, NEW r \in Requests, pc[r] \in Held \/ route[r] # <<>>
    PROVE  Cand(r) \in Remotes \cup {"local"}
  BY DEF RouteInv, RouteTypeOK, RouteOK, Cand

LEMMA HeadAndTail ==
    ASSUME NEW S, NEW s \in Seq(S), s # <<>>
    PROVE  Head(s) \in S /\ Tail(s) \in Seq(S) /\ Len(Tail(s)) = Len(s) - 1 /\ Len(s) \in Nat \ {0}
  OBVIOUS

LEMMA SendTyped ==
    ASSUME EventsInv, NEW r \in Requests, NEW e \in Events, Send(r, e)
    PROVE  EventsInv'
  BY RouterAssumption DEF EventsInv, Send

LEMMA FlagsStep ==
    ASSUME RouteInv, FlagsInv, [Next]_vars
    PROVE  FlagsInv'
<1> USE DEF FlagsInv, Skip
<1>1. ASSUME NEW r \in Requests, Submit(r, FALSE) PROVE FlagsInv'
  BY <1>1 DEF Submit
<1>2. ASSUME NEW r \in Requests, Route(r) PROVE FlagsInv'
  <2>1. reason' \in [Requests -> BOOLEAN]
    <3>1. chat[r].policy # "ask_before_remote" => Plan(chat[r], mem).reason \in BOOLEAN
      <4>1. chat[r] \in ChatInputs
        BY DEF RouteInv, RouteTypeOK
      <4> QED
        BY <4>1 DEF Plan, ChatInputs, Policies
    <3> QED
      BY <1>2, <3>1 DEF Route
  <2> QED
    BY <1>2, <2>1 DEF Route
<1>3. ASSUME NEW r \in Requests, Chat(r), ~Route(r) PROVE FlagsInv'
  <2>1. CASE NextCandidate(r) \/ Probe(r) \/ Fail(r)
    BY <2>1 DEF NextCandidate, Probe, Fail
  <2> QED
    BY <1>3, <2>1 DEF Chat, Validate, Queue, Announce, Fall, Start, BeginRound, Select, Drain,
       NextCall, Invoke, Report, Finish, FallBack, SendError, SendDone
<1>4. ASSUME NEW r \in Requests, Provider(r) \/ Receive(r) \/ Cancel(r) PROVE FlagsInv'
  BY <1>4 DEF Provider, Chunk, Answer, Receive, Cancel, chatVars
<1>5. CASE Restart
  BY <1>5 DEF Restart
<1> QED
  BY <1>1, <1>2, <1>3, <1>4, <1>5 DEF Next, ConsentPreview, Status, SettingsUpdate, Save, Tick,
     vars, routerVars, chatVars

LEMMA EventsStep ==
    ASSUME RouteInv, LoopInv, FlagsInv, EventsInv, [Next]_vars
    PROVE  EventsInv'
<1> USE SendTyped
<1>1. ASSUME UNCHANGED events PROVE EventsInv'
  BY <1>1 DEF EventsInv
<1>2. \A e \in Plain : <<e>> \in Events
  BY DEF Events
<1>3. ASSUME NEW r \in Requests, Chat(r) PROVE EventsInv'
  <2>1. CASE Validate(r) \/ FallBack(r) \/ Finish(r) \/ Fail(r) \/ SendError(r) \/ SendDone(r) \/ Report(r)
    BY <2>1, <1>2 DEF Validate, FallBack, Finish, Fail, SendError, SendDone, Report, Plain
  <2>2. CASE Queue(r) \/ Announce(r) \/ Fall(r)
    <3>1. \A m \in ValidTransitions : <<"move", m[1], m[2]>> \in Events
      BY DEF Events, Moves
    <3>2. /\ <<"received", "queued">> \in ValidTransitions
          /\ <<"running_remote", "fallback_to_local">> \in ValidTransitions
          /\ <<"queued", "running_remote">> \in ValidTransitions
          /\ <<"queued", "running_local">> \in ValidTransitions
          /\ <<"fallback_to_local", "running_local">> \in ValidTransitions
      BY DEF ValidTransitions
    <3>3. /\ <<"move", "received", "queued">> \in Events
          /\ <<"move", "running_remote", "fallback_to_local">> \in Events
          /\ <<"move", "queued", "running_remote">> \in Events
          /\ <<"move", "queued", "running_local">> \in Events
          /\ <<"move", "fallback_to_local", "running_local">> \in Events
      BY <3>1, <3>2
    <3> QED
      BY <2>2, <3>3, <1>1 DEF Queue, Announce, Fall
  <2>3. CASE Start(r)
    <3>1. Cand(r) \in Remotes \cup {"local"} /\ reason[r] \in BOOLEAN
      BY <2>3, HeldCandidate DEF Start, Held, FlagsInv
    <3>2. <<"start", Cand(r), reason[r]>> \in Events
      BY <3>1 DEF Events, Starts
    <3> QED
      BY <2>3, <3>2 DEF Start
  <2>4. CASE Select(r) \/ Drain(r)
    <3>1. chunks[r] # <<>> => <<Head(chunks[r])>> \in Events
      <4>1. chunks[r] # <<>> => Head(chunks[r]) \in {"progress", "delta"}
        BY HeadAndTail DEF LoopInv, LoopTypeOK
      <4> QED
        BY <1>2, <4>1 DEF Plain
    <3> QED
      BY <2>4, <3>1, <1>1, <1>2 DEF Select, Drain, Plain
  <2>5. CASE Route(r) \/ NextCandidate(r) \/ Probe(r) \/ BeginRound(r) \/ NextCall(r) \/ Invoke(r)
    <3>1. UNCHANGED events
      BY <2>5 DEF Route, NextCandidate, Probe, BeginRound, NextCall, Invoke
    <3> QED
      BY <3>1, <1>1
  <2> QED
    BY <1>3, <2>1, <2>2, <2>3, <2>4, <2>5 DEF Chat
<1>4. ASSUME NEW r \in Requests, Receive(r) PROVE EventsInv'
  <2>1. events[r] # <<>> /\ events' = [events EXCEPT ![r] = Tail(events[r])]
    BY <1>4 DEF Receive
  <2>2. Tail(events[r]) \in Seq(Events) /\ Len(Tail(events[r])) <= EventCap
    BY <2>1, RouterAssumption DEF EventsInv
  <2> QED
    BY <2>1, <2>2 DEF EventsInv
<1>5. ASSUME NEW r \in Requests, Submit(r, FALSE) \/ Provider(r) \/ Cancel(r) PROVE EventsInv'
  BY <1>1, <1>5 DEF Submit, Provider, Chunk, Answer, Cancel
<1>6. CASE Restart
  BY <1>6, RouterAssumption DEF Restart, EventsInv
<1> QED
  BY <1>1, <1>3, <1>4, <1>5, <1>6 DEF Next, ConsentPreview, Status, SettingsUpdate, Save, Tick,
     vars, routerVars

LEMMA LoopStep ==
    ASSUME RouteInv, LoopInv, [Next]_vars
    PROVE  LoopInv'
<1>0. pc \in [Requests -> Steps]
  BY DEF RouteInv, RouteTypeOK
<1>1. ASSUME UNCHANGED <<pc, agentVars>> PROVE LoopInv'
  BY <1>1 DEF LoopInv, LoopTypeOK, agentVars
<1>2. ASSUME UNCHANGED agentVars, NEW r \in Requests, NEW at, pc' = [pc EXCEPT ![r] = at],
             pc[r] # "stream" \/ at = "stream", at \notin {"invoke", "used", "propose"}
      PROVE  LoopInv'
  BY <1>0, <1>2 DEF LoopInv, LoopTypeOK, agentVars
<1> USE DEF Go
<1>3. ASSUME NEW r \in Requests, Submit(r, FALSE) PROVE LoopInv'
  BY <1>2, <1>3 DEF Submit
<1>4. ASSUME NEW r \in Requests,
             \/ Validate(r) \/ Queue(r) \/ Route(r) \/ Announce(r) \/ Fall(r)
             \/ Finish(r) \/ Fail(r) \/ FallBack(r) \/ SendError(r) \/ SendDone(r)
      PROVE  LoopInv'
  BY <1>2, <1>4 DEF Validate, Queue, Route, Announce, Fall, Finish, Fail, FallBack, SendError,
     SendDone
<1>5. ASSUME NEW r \in Requests, NextCandidate(r) \/ Probe(r) PROVE LoopInv'
  BY <1>1, <1>2, <1>5 DEF NextCandidate, Probe
<1>6. ASSUME NEW r \in Requests, Start(r) PROVE LoopInv'
  BY <1>0, <1>6, RouterAssumption DEF Start, LoopInv, LoopTypeOK
<1>7. ASSUME NEW r \in Requests, BeginRound(r) PROVE LoopInv'
  <2>0. <<>> \in Seq({"progress", "delta"}) /\ Len(<<>>) <= ChunkCap
    BY RouterAssumption
  <2>1. CASE round[r] = MaxRounds
    <3>1. /\ task' = [task EXCEPT ![r] = "error"]
          /\ chunks' = [chunks EXCEPT ![r] = <<>>]
          /\ UNCHANGED <<round, streamed, calls, seen>>
      BY <1>7, <2>1 DEF BeginRound
    <3>2. LoopTypeOK'
      BY <3>1, <2>0 DEF LoopInv, LoopTypeOK, Answers
    <3> QED
      BY <1>0, <1>7, <2>1, <3>2 DEF BeginRound, LoopInv, LoopTypeOK
  <2>2. CASE round[r] # MaxRounds
    <3>1. round[r] + 1 \in 0..MaxRounds
      BY <2>2, RouterAssumption DEF LoopInv, LoopTypeOK
    <3>2. /\ task' = [task EXCEPT ![r] = "running"]
          /\ round' = [round EXCEPT ![r] = round[r] + 1]
          /\ chunks' = [chunks EXCEPT ![r] = <<>>]
          /\ UNCHANGED <<streamed, calls, seen>>
      BY <1>7, <2>2 DEF BeginRound
    <3>3. LoopTypeOK'
      BY <3>1, <3>2, <2>0 DEF LoopInv, LoopTypeOK, Answers
    <3> QED
      BY <1>0, <1>7, <2>2, <3>3, ZenonT(40) DEF BeginRound, LoopInv, LoopTypeOK
  <2> QED
    BY <2>1, <2>2
<1>8. ASSUME NEW r \in Requests, Select(r) PROVE LoopInv'
  <2>1. chunks[r] \in Seq({"progress", "delta"}) /\ Len(chunks[r]) <= ChunkCap
    BY DEF LoopInv, LoopTypeOK
  <2>2. chunks[r] # <<>> => Tail(chunks[r]) \in Seq({"progress", "delta"})
                            /\ Len(Tail(chunks[r])) <= ChunkCap
    BY <2>1, HeadAndTail, RouterAssumption
  <2> QED
    BY <1>0, <1>8, <2>2 DEF Select, LoopInv, LoopTypeOK, Answers
<1>9. ASSUME NEW r \in Requests, Drain(r) PROVE LoopInv'
  <2>1. chunks[r] \in Seq({"progress", "delta"}) /\ Len(chunks[r]) <= ChunkCap
    BY DEF LoopInv, LoopTypeOK
  <2>2. chunks[r] # <<>> => Tail(chunks[r]) \in Seq({"progress", "delta"})
                            /\ Len(Tail(chunks[r])) <= ChunkCap
    BY <2>1, HeadAndTail, RouterAssumption
  <2> QED
    BY <1>0, <1>9, <2>2 DEF Drain, LoopInv, LoopTypeOK, Answers
<1>10. ASSUME NEW r \in Requests, NextCall(r) \/ Invoke(r) \/ Report(r) PROVE LoopInv'
  <2>1. calls[r] \in Seq(CallIds \X CallKinds)
    BY DEF LoopInv, LoopTypeOK
  <2>2. calls[r] # <<>> => /\ Tail(calls[r]) \in Seq(CallIds \X CallKinds)
                           /\ Head(calls[r])[1] \in CallIds
    BY <2>1, HeadAndTail
  <2>3. CASE NextCall(r)
    <3>0. /\ \/ seen' = seen
             \/ calls[r] # <<>> /\ seen' = [seen EXCEPT ![r] = seen[r] \cup {Head(calls[r])[1]}]
          /\ calls' = calls \/ (calls[r] # <<>> /\ calls' = [calls EXCEPT ![r] = Tail(@)])
          /\ UNCHANGED <<task, chunks, streamed, round>>
      BY <2>3 DEF NextCall
    <3>1. seen' \in [Requests -> SUBSET CallIds]
      <4>1. calls[r] # <<>> => seen[r] \cup {Head(calls[r])[1]} \in SUBSET CallIds
        BY <2>2 DEF LoopInv, LoopTypeOK
      <4>2. seen \in [Requests -> SUBSET CallIds]
        BY DEF LoopInv, LoopTypeOK
      <4> QED
        BY <3>0, <4>1, <4>2
    <3>2. calls' \in [Requests -> Seq(CallIds \X CallKinds)]
      BY <2>2, <3>0 DEF LoopInv, LoopTypeOK
    <3>3. LoopTypeOK'
      BY <3>0, <3>1, <3>2 DEF LoopInv, LoopTypeOK
    <3> QED
      BY <1>0, <2>3, <3>3, ZenonT(40) DEF NextCall, LoopInv, LoopTypeOK
  <2>4. CASE Invoke(r) \/ Report(r)
    BY <1>0, <2>2, <2>4 DEF Invoke, Report, LoopInv, LoopTypeOK
  <2> QED
    BY <1>10, <2>3, <2>4
<1>11. ASSUME NEW r \in Requests, Provider(r) PROVE LoopInv'
  <2>1. CASE Chunk(r)
    <3>1. streamed[r] + 1 \in 0..MaxChunks
      BY <2>1, RouterAssumption DEF Chunk, LoopInv, LoopTypeOK
    <3>2. ASSUME NEW c \in {"progress", "delta"}
          PROVE  /\ Append(chunks[r], c) \in Seq({"progress", "delta"})
                 /\ Len(Append(chunks[r], c)) <= ChunkCap
      BY <2>1, RouterAssumption DEF Chunk, LoopInv, LoopTypeOK
    <3> QED
      BY <1>0, <2>1, <3>1, <3>2 DEF Chunk, LoopInv, LoopTypeOK, chatVars
  <2>2. CASE Answer(r)
    <3>1. \A c \in Calls : c \in Seq(CallIds \X CallKinds)
      BY RouterAssumption
    <3>0. /\ \E a \in Answers : task' = [task EXCEPT ![r] = a]
          /\ calls' = [calls EXCEPT ![r] = <<>>] \/ \E c \in Calls : calls' = [calls EXCEPT ![r] = c]
          /\ UNCHANGED <<chunks, streamed, round, seen>>
      BY <2>2 DEF Answer, Answers
    <3>3. task' \in [Requests -> Answers]
      BY <3>0 DEF LoopInv, LoopTypeOK
    <3>4. calls' \in [Requests -> Seq(CallIds \X CallKinds)]
      <4>1. <<>> \in Seq(CallIds \X CallKinds)
        OBVIOUS
      <4> QED
        BY <3>0, <3>1, <4>1 DEF LoopInv, LoopTypeOK
    <3>2. LoopTypeOK'
      BY <3>0, <3>3, <3>4 DEF LoopInv, LoopTypeOK
    <3> QED
      BY <1>0, <2>2, <3>2 DEF Answer, LoopInv, LoopTypeOK, chatVars
  <2> QED
    BY <1>11, <2>1, <2>2 DEF Provider
<1>12. ASSUME NEW r \in Requests, Receive(r) \/ Cancel(r) PROVE LoopInv'
  BY <1>1, <1>12 DEF Receive, Cancel, chatVars
<1>13. CASE Restart
  BY <1>0, <1>13 DEF Restart, LoopInv, LoopTypeOK, Answers
<1>14. ASSUME NEW r \in Requests, Chat(r) PROVE LoopInv'
  BY <1>4, <1>5, <1>6, <1>7, <1>8, <1>9, <1>10, <1>14 DEF Chat
<1>15. CASE UNCHANGED vars \/ Save \/ Tick \/ (\E v \in Remotes : Status(v))
            \/ (\E s \in Settings : SettingsUpdate(s))
            \/ (\E v \in Remotes, p \in Payloads : ConsentPreview(v, p))
  <2>1. UNCHANGED <<pc, agentVars>>
    BY <1>15 DEF vars, routerVars, chatVars, Save, Tick, Status, SettingsUpdate, ConsentPreview
  <2> QED
    BY <2>1, <1>1
<1> QED
  BY <1>3, <1>11, <1>12, <1>13, <1>14, <1>15 DEF Next

LEMMA TableStep ==
    ASSUME TableInv, now \in Nat, [Next]_vars
    PROVE  TableInv'
<1> DEFINE Breaker == \/ UNCHANGED breakerVars
                      \/ \E v : Allow(v) \/ Success(v) \/ Failure(v)
<1>1. ASSUME Breaker, UNCHANGED consentVars PROVE TableInv'
  <2>1. ASSUME NEW v, Allow(v) PROVE BreakersTypeOK'
    BY <2>1, BreakerAssumption DEF Allow, BreakersTypeOK, TableInv, breakerVars
  <2>0. 0 \in 0..Threshold /\ -1 \in Nat \cup {-1}
    BY BreakerAssumption
  <2>2. ASSUME NEW v, Success(v) PROVE BreakersTypeOK'
    BY <2>0, <2>2 DEF Success, BreakersTypeOK, TableInv
  <2>3. ASSUME NEW v, Failure(v) PROVE BreakersTypeOK'
    <3>0. v \in Remotes => (IF failures[v] + 1 > Threshold THEN Threshold ELSE failures[v] + 1)
                           \in 0..Threshold
      BY BreakerAssumption DEF BreakersTypeOK, TableInv
    <3>1. failures' \in [Remotes -> 0..Threshold]
      BY <2>3, <3>0 DEF Failure, BreakersTypeOK, TableInv
    <3>2. now + Cooldown \in Nat
      BY BreakerAssumption
    <3>3. openUntil' \in [Remotes -> Nat \cup {-1}]
      BY <2>3, <3>2 DEF Failure, BreakersTypeOK, TableInv
    <3> QED
      BY <3>1, <3>3 DEF BreakersTypeOK
  <2>4. BreakersTypeOK'
    BY <1>1, <2>1, <2>2, <2>3 DEF TableInv, BreakersTypeOK, breakerVars
  <2> QED
    BY <1>1, <2>4 DEF TableInv, consentVars
<1>2. ASSUME UNCHANGED breakerVars, boot' \in Nat, entries' \in [DOMAIN entries' -> ConsentEntry]
      PROVE  TableInv'
  BY <1>2 DEF TableInv, BreakersTypeOK, breakerVars
<1>3. ASSUME NEW r \in Requests, Route(r) PROVE TableInv'
  <2>1. UNCHANGED breakerVars
    BY <1>3 DEF Route
  <2>2. UNCHANGED consentVars \/ \E t, v, p : Consume(t, v, p)
    BY <1>3 DEF Route
  <2>3. ASSUME NEW t, NEW v, NEW p, Consume(t, v, p)
        PROVE  boot' = boot /\ entries' \in [DOMAIN entries' -> ConsentEntry]
    BY <2>3 DEF Consume, TableInv
  <2> QED
    BY <1>2, <2>1, <2>2, <2>3 DEF TableInv, consentVars
<1>4. ASSUME NEW r \in Requests, Chat(r), ~Route(r) PROVE TableInv'
  <2>1. UNCHANGED consentVars
    BY <1>4 DEF Chat, Validate, Queue, NextCandidate, shared,
       Probe, Announce, Fall, Start, BeginRound, Select, Drain, NextCall, Invoke, Report, Finish,
       Fail, FallBack, SendError, SendDone
  <2>2. Breaker
    <3>1. CASE NextCandidate(r) \/ Probe(r) \/ Drain(r) \/ Fail(r)
      BY <3>1 DEF NextCandidate, Probe, Drain, Fail
    <3> QED
      BY <1>4, <3>1 DEF Chat, Validate, Queue, shared,
         Announce, Fall, Start, BeginRound, Select, NextCall, Invoke, Report, Finish,
         FallBack, SendError, SendDone
  <2> QED
    BY <1>1, <2>1, <2>2
<1>5. ASSUME NEW r \in Requests, Submit(r, FALSE) \/ Provider(r) \/ Receive(r) \/ Cancel(r)
      PROVE  TableInv'
  BY <1>1, <1>5 DEF Submit, Provider, Chunk, Answer, Receive, Cancel, shared
<1>6. ASSUME NEW v \in Remotes, NEW p \in Payloads, ConsentPreview(v, p) PROVE TableInv'
  <2>1. now + Lifetime \in Nat
    BY ConsentAssumption
  <2>2. entries' \in [DOMAIN entries' -> ConsentEntry] /\ boot' = boot
    BY <1>6, <2>1 DEF ConsentPreview, Preview, PreviewToken, TableInv, ConsentEntry
  <2> QED
    BY <1>2, <1>6, <2>2 DEF ConsentPreview, TableInv
<1>7. ASSUME NEW v \in Remotes, Status(v) PROVE TableInv'
  BY <1>1, <1>7 DEF Status
<1>8. CASE Restart
  BY <1>8, BreakerAssumption DEF Restart, ForgetConsents, ResetBreakers, TableInv, BreakersTypeOK
<1>9. CASE UNCHANGED vars \/ Save \/ Tick \/ (\E s \in Settings : SettingsUpdate(s))
  BY <1>1, <1>9 DEF vars, Save, Tick, SettingsUpdate
<1> QED
  BY <1>3, <1>4, <1>5, <1>6, <1>7, <1>8, <1>9 DEF Next

\* The channels never exceed what they were made for, an answer's rounds and chunks
\* their bounds, a request presents only tokens that were shown, and every status a
\* request goes through is a transition the protocol allows (router.rs: chat,
\* run_agent_loop; provider.rs: CircuitBreakers; privacy.rs: ConsentState).
THEOREM RouterTypes == Spec => []TypeOK
<1> DEFINE Inv == FlagsInv /\ EventsInv /\ LoopInv /\ TableInv
<1>1. Spec => []ConsentInv
  BY ConsentInitInv, ConsentSteps, ConsentStepInv, PTL DEF Spec
<1>2. Spec => []SettingsInv
  BY SettingsInitInv, SettingsSteps, SettingsStepInv, PTL DEF Spec
<1>3. RouteInv /\ ConsentInv /\ Inv /\ [Next]_vars => Inv'
  BY FlagsStep, EventsStep, LoopStep, TableStep DEF ConsentInv
<1>4. Spec => []Inv
  <2> HIDE DEF Inv
  <2>1. Init => Inv
    BY TypesInit DEF Inv
  <2> QED
    BY <1>1, <1>3, <2>1, RouteInductive, PTL DEF Spec
<1>5. ConsentInv /\ SettingsInv /\ RouteInv /\ Inv => TypeOK
  <2> SUFFICES ASSUME ConsentInv, SettingsInv, RouteInv, Inv PROVE TypeOK
    OBVIOUS
  <2>1. ConsentTypeOK /\ token \in [Requests -> SUBSET DOMAIN shown]
    BY DEF ConsentInv, TableInv, ConsentTypeOK
  <2>2. BreakersTypeOK /\ SettingsTypeOK
    BY DEF SettingsInv, TableInv
  <2>3. /\ pc \in [Requests -> Steps] /\ env \in Scenarios
        /\ route \in [Requests -> Seq(Remotes \cup {"local"})]
        /\ basis \in [Requests -> [eligible : SUBSET UNION {CategoriesOf[p] : p \in Payloads},
                                  token : SUBSET DOMAIN spent]]
    BY DEF RouteInv, RouteTypeOK
  <2> QED
    BY <2>1, <2>2, <2>3 DEF TypeOK, FlagsInv, EventsInv, LoopInv, LoopTypeOK
<1> QED
  BY <1>1, <1>2, <1>4, <1>5, RouteInductive, PTL
=============================================================================
