-------------------------- MODULE ProviderConsent ---------------------------
(***************************************************************************)
(* The consent to send mail to cloud models: the ai_consent rows of        *)
(* vectors/consent.rs, the decisions of vectors/privacy.rs, and the        *)
(* handlers of api/consent.rs that carry each over to the enabled flags of *)
(* the generative router, an await after the row was written.  Nothing     *)
(* reads the rows again when a model is called or the process starts.      *)
(***************************************************************************)
EXTENDS Integers

CONSTANTS
    CloudTypes,         \* providers the cloud_ai decision toggles, that are registered
    Requests,           \* requests to the consent endpoints
    MaxConsentRestarts  \* bound: restarts of the process

\* Without a registered provider there is no flag to write.
ASSUME ConsentAssumption == MaxConsentRestarts \in Nat /\ CloudTypes # {}

VARIABLES
    consent,    \* ai_consent: the row of each provider
    decision,   \* consent_decisions: the latest cloud_ai decision
    enabled,    \* RegisteredProvider.enabled
    requests,   \* where each request is
    reopened,   \* history: providers whose flag was set otherwise, or left as it was by a
                \* request that was dropped, since their consent was revoked
    consentRestarts

consentVars == <<consent, decision, enabled, requests, reopened, consentRestarts>>

-----------------------------------------------------------------------------
ConsentState == {"none", "granted", "revoked"}

NoRequest == [pc |-> "idle", flag |-> TRUE, left |-> {}]

UnderWay(r) == requests[r].pc # "idle"

\* The requests, r apart, that have yet to write the flag of p.
Crossing(r, p) == \E q \in Requests \ {r} : UnderWay(q) /\ p \in requests[q].left

\* A row or a decision is written; the flags follow.
Follow(r, flag, types) ==
    requests' = [requests EXCEPT ![r] = [pc |-> "toggle", flag |-> flag, left |-> types]]

ConsentInit ==
    /\ consent = [p \in CloudTypes |-> "none"] /\ decision = "none"
    /\ enabled = [p \in CloudTypes |-> TRUE]
    /\ requests = [r \in Requests |-> NoRequest]
    /\ reopened = {} /\ consentRestarts = 0

\* POST /consent
Grant(r, p) ==
    /\ ~UnderWay(r)
    /\ consent' = [consent EXCEPT ![p] = "granted"]
    /\ Follow(r, TRUE, {p})
    /\ reopened' = reopened \ {p}
    /\ UNCHANGED <<decision, enabled, consentRestarts>>

\* Mutant: the flag is left to the next grant.
FlagAfterRevoke == TRUE

FlagOfRevoke == FALSE

\* DELETE /consent/:provider; without an active row it is an error and the flag
\* stays as it is.
Revoke(r, p) ==
    /\ ~UnderWay(r) /\ consent[p] = "granted"
    /\ consent' = [consent EXCEPT ![p] = "revoked"]
    /\ Follow(r, FlagOfRevoke, {p})
    /\ reopened' = IF Crossing(r, p) THEN reopened \cup {p} ELSE reopened \ {p}
    /\ UNCHANGED <<decision, enabled, consentRestarts>>

\* POST /consent/gdpr: an insert, for a grant an update of the older rows, and
\* the audit entry. A failure in between leaves the flags as they are.
Decide(r, b) ==
    /\ ~UnderWay(r)
    /\ decision' = IF b THEN "granted" ELSE "revoked"
    /\ \/ Follow(r, b, CloudTypes)
       \/ UNCHANGED requests
    /\ reopened' = IF b THEN CloudTypes ELSE reopened
    /\ UNCHANGED <<consent, enabled, consentRestarts>>

AfterToggle(r, p) == IF requests[r].left = {p} THEN NoRequest
                     ELSE [requests[r] EXCEPT !.left = @ \ {p}]

\* enable_provider or disable_provider under the write lock.
Toggle(r, p) ==
    /\ UnderWay(r) /\ p \in requests[r].left
    /\ enabled' = [enabled EXCEPT ![p] = requests[r].flag]
    /\ requests' = [requests EXCEPT ![r] = AfterToggle(r, p)]
    /\ UNCHANGED <<consent, decision, reopened, consentRestarts>>

\* The caller is gone, and with it what the request had yet to write.
DropConsent(r) ==
    /\ UnderWay(r)
    /\ requests' = [requests EXCEPT ![r] = NoRequest]
    /\ reopened' = reopened \cup {p \in requests[r].left : enabled[p] /\ ~requests[r].flag}
    /\ UNCHANGED <<consent, decision, enabled, consentRestarts>>

\* POST /ai/providers/:provider/enable and /disable ask for no consent.
SetByHand(p) ==
    /\ enabled' = [enabled EXCEPT ![p] = ~@]
    /\ reopened' = IF enabled'[p] THEN reopened \cup {p} ELSE reopened
    /\ UNCHANGED <<consent, decision, requests, consentRestarts>>

\* The router is built anew: register enables whatever it registers.
ConsentRestart ==
    /\ consentRestarts < MaxConsentRestarts
    /\ consentRestarts' = consentRestarts + 1
    /\ enabled' = [p \in CloudTypes |-> TRUE]
    /\ requests' = [r \in Requests |-> NoRequest]
    /\ reopened' = CloudTypes
    /\ UNCHANGED <<consent, decision>>

ConsentNext ==
    \/ \E r \in Requests :
          \/ \E p \in CloudTypes : Grant(r, p) \/ Revoke(r, p) \/ Toggle(r, p)
          \/ \E b \in BOOLEAN : Decide(r, b)
          \/ DropConsent(r)
    \/ \E p \in CloudTypes : SetByHand(p)
    \/ ConsentRestart

ConsentSpec == ConsentInit /\ [][ConsentNext]_consentVars

-----------------------------------------------------------------------------
ConsentTypeOK ==
    /\ consent \in [CloudTypes -> ConsentState] /\ decision \in ConsentState
    /\ enabled \in [CloudTypes -> BOOLEAN]
    /\ requests \in [Requests -> [pc : {"idle", "toggle"}, flag : BOOLEAN, left : SUBSET CloudTypes]]
    /\ \A r \in Requests : UnderWay(r) <=> requests[r].left # {}
    /\ reopened \subseteq CloudTypes /\ consentRestarts \in 0..MaxConsentRestarts

\* A provider whose consent was revoked is out of the failover once the request
\* is over, unless the request was dropped before it wrote the flag, or a restart, a
\* hand, a decision or a request that crossed the revocation let it in again.
RevokedIsExcluded ==
    \A p \in CloudTypes \ reopened :
        consent[p] = "revoked" /\ (\A r \in Requests : p \notin requests[r].left) => ~enabled[p]

\* The flags of the providers follow the consents.
ConsentInv == ConsentTypeOK /\ RevokedIsExcluded
=============================================================================
