------------------------------- MODULE Consent -------------------------------
(***************************************************************************)
(* The router's privacy boundary (crates/sentia-router/src/privacy.rs):    *)
(* what may be sent to a remote provider without asking (sanitize), and    *)
(* the table of one-time consents behind consent_preview and               *)
(* ASK_BEFORE_REMOTE (preview, consume_consent).                           *)
(*                                                                         *)
(* The table is guarded by one mutex, so an operation is one action.  It   *)
(* lives in the process's memory and is keyed by a digest of the process's *)
(* secret, the provider, the payload and a nonce.                          *)
(***************************************************************************)
EXTENDS Integers, FiniteSets

CONSTANTS
    Remotes,        \* registered remote providers
    Payloads,       \* minimized payloads, one for each SHA-256 digest
    CategoriesOf,   \* the privacy categories each payload discloses
    Unsendable,     \* payloads with a forbidden source, or over the size limits
    Lifetime,       \* CONSENT_LIFETIME, five minutes
    Nonce(_, _),    \* len ^ now ^ pid, of the table's size and the time
    MaxTime         \* bound of the clock

ASSUME ConsentAssumption ==
    /\ Lifetime \in Nat \ {0}
    /\ MaxTime \in Nat
    /\ Unsendable \subseteq Payloads
    /\ DOMAIN CategoriesOf = Payloads

VARIABLES
    now,        \* the time, in units the lifetime and the cooldown are given in
    boot,       \* which run of the process this is: each has a secret of its own
    entries,    \* ConsentState.entries
    shown,      \* how often each token was returned by a preview
    spent       \* how often each token let a payload out

consentVars == <<boot, entries, shown, spent>>

ConsentEntry == [provider : Remotes, payload : Payloads, expires : Nat]

\* A count that is zero for what was never counted.
Count(f, x) == IF x \in DOMAIN f THEN f[x] ELSE 0
Bump(f, x) == [y \in DOMAIN f \cup {x} |-> Count(f, y) + (IF y = x THEN 1 ELSE 0)]

ConsentInit ==
    /\ now = 0
    /\ boot = 0
    /\ entries = <<>>
    /\ shown = <<>>
    /\ spent = <<>>

\* PrivacyGuard::sanitize with the persistent categories, and with None.
Sanitizes(p) == p \notin Unsendable
Eligible(p, categories) == Sanitizes(p) /\ CategoriesOf[p] \subseteq categories

\* PrivacyGuard::preview: expired consents are dropped, and the new one is
\* entered under a digest that another preview may have produced before.
PreviewToken(v, p) ==
    LET kept == {i \in DOMAIN entries : entries[i].expires >= now}
    IN  [id |-> [boot |-> boot, provider |-> v, payload |-> p,
                 nonce |-> Nonce(Cardinality(kept), now)],
         provider |-> v, payload |-> p, issued |-> now, expires |-> now + Lifetime]

Preview(v, p) ==
    LET kept == {i \in DOMAIN entries : entries[i].expires >= now}
        t == PreviewToken(v, p)
    IN  /\ entries' = [i \in kept \cup {t.id} |->
                          IF i = t.id THEN [provider |-> v, payload |-> p,
                                            expires |-> t.expires]
                                      ELSE entries[i]]
        /\ shown' = Bump(shown, t)
        /\ UNCHANGED <<boot, spent>>

\* PrivacyGuard::consume_consent: the entry goes before it is compared.
Known(t) == t.id \in DOMAIN entries

Accepts(t, v, p) ==
    /\ Known(t)
    /\ t.expires >= now
    /\ t.expires = entries[t.id].expires
    /\ t.issued < t.expires
    /\ entries[t.id].provider = v /\ entries[t.id].payload = p
    /\ t.payload = p /\ t.provider = v

\* Mutant of Consume: the entry stays in the table.
ConsumeKeeping(t, v, p) ==
    /\ entries' = entries
    /\ spent' = IF Accepts(t, v, p) THEN Bump(spent, t) ELSE spent
    /\ UNCHANGED <<boot, shown>>

Consume(t, v, p) ==
    /\ entries' = [i \in DOMAIN entries \ {t.id} |-> entries[i]]
    /\ spent' = IF Accepts(t, v, p) THEN Bump(spent, t) ELSE spent
    /\ UNCHANGED <<boot, shown>>

\* The process ends: its table and its secret are gone, its tokens are not.
ForgetConsents ==
    /\ entries' = <<>>
    /\ boot' = boot + 1
    /\ UNCHANGED <<shown, spent>>

-----------------------------------------------------------------------------
ConsentTypeOK ==
    /\ now \in Nat
    /\ boot \in Nat
    /\ entries \in [DOMAIN entries -> ConsentEntry]
    /\ shown \in [DOMAIN shown -> Nat]
    /\ spent \in [DOMAIN spent -> Nat]

\* A consent lets its payload out at most as often as the user was shown it:
\* previews may collide on a token, and consumption may race expiry, restart and
\* other requests that present the same token.  What is still in the table counts
\* as not yet used.
ConsentSingleUse ==
    \A t \in DOMAIN shown \cup DOMAIN spent : Count(spent, t) <= Count(shown, t)
=============================================================================
