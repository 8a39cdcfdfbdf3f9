--------------------------- MODULE AccountTokens ----------------------------
(***************************************************************************)
(* The tokens of one connected account in email/oauth.rs: the callback     *)
(* that connects it, the callers that fetch an access token and refresh it *)
(* on the way, and the disconnection. A refresh token is a number; the     *)
(* provider that rotates them answers with a new one and ends the old.     *)
(***************************************************************************)
EXTENDS Integers

CONSTANTS
    Callers,        \* tasks that call get_access_token
    MaxGrants,      \* bound: refresh tokens the provider hands out
    MaxTokenFaults  \* bound: failed calls and updates

ASSUME TokenAssumption ==
    MaxGrants \in Nat \ {0} /\ MaxTokenFaults \in Nat

VARIABLES
    account,    \* the row: status, access and refresh token, and whether the former has expired
    rotating,   \* the provider answers every refresh with a new refresh token
    grants,     \* refresh tokens the provider has handed out
    live,       \* those it still accepts
    callers,    \* what each caller has in hand
    revived,    \* history: a refresh was under way when the account was disconnected
    lost,       \* history: refresh tokens whose answer or update failed
    tokenFaults

tokenVars == <<account, rotating, grants, live, callers, revived, lost, tokenFaults>>

-----------------------------------------------------------------------------
Row == [status : {"none", "connected", "disconnected"}, access : {"none", "fresh", "expired"},
        refresh : Nat]

NoRow == [status |-> "none", access |-> "none", refresh |-> 0]

Waiting == [pc |-> "idle", refresh |-> 0, new |-> 0]

TokenFault == tokenFaults < MaxTokenFaults /\ tokenFaults' = tokenFaults + 1

Go(c, s) == callers' = [callers EXCEPT ![c] = s]

TokenInit ==
    /\ account = NoRow
    /\ rotating \in BOOLEAN /\ grants = 0 /\ live = {}
    /\ callers = [c \in Callers |-> Waiting]
    /\ revived = FALSE /\ lost = {} /\ tokenFaults = 0

\* The callback: the code is exchanged for tokens and save_account stores them.
Connect ==
    /\ grants < MaxGrants
    /\ grants' = grants + 1 /\ live' = live \cup {grants + 1}
    /\ account' = [status |-> "connected", access |-> "fresh", refresh |-> grants + 1]
    /\ revived' = FALSE
    /\ UNCHANGED <<rotating, callers, lost, tokenFaults>>

\* token_expires_at comes within a minute.
Expire ==
    /\ account.access = "fresh"
    /\ account' = [account EXCEPT !.access = "expired"]
    /\ UNCHANGED <<rotating, grants, live, callers, revived, lost, tokenFaults>>

\* get_access_token reads the row of an account whose token has expired. With a
\* fresh token, or without one, it returns at once.
ReadExpired(c) ==
    /\ callers[c].pc = "idle" /\ account.access = "expired"
    /\ Go(c, [Waiting EXCEPT !.pc = "refresh"])
    /\ UNCHANGED <<rotating, account, grants, live, revived, lost, tokenFaults>>

\* try_refresh_token reads the refresh token; there may be none by now.
ReadRefresh(c) ==
    /\ callers[c].pc = "refresh"
    /\ Go(c, IF account.refresh = 0 THEN Waiting
             ELSE [Waiting EXCEPT !.pc = "post", !.refresh = account.refresh])
    /\ UNCHANGED <<rotating, account, grants, live, revived, lost, tokenFaults>>

\* The provider answers with a new refresh token, which ends the one used, or,
\* when it does not rotate them, with none.
Rotates(r) ==
    /\ rotating /\ grants < MaxGrants /\ grants' = grants + 1
    /\ live' = (live \ {r}) \cup {grants + 1}

PostAccepted(c) ==
    /\ callers[c].pc = "post" /\ callers[c].refresh \in live
    /\ \/ /\ Rotates(callers[c].refresh)
          /\ Go(c, [callers[c] EXCEPT !.pc = "update", !.new = grants + 1])
       \/ ~rotating /\ UNCHANGED <<grants, live>> /\ Go(c, [callers[c] EXCEPT !.pc = "update"])
    /\ UNCHANGED <<rotating, account, revived, lost, tokenFaults>>

\* The refresh token is dead: the caller gets the expired access token.
PostRefused(c) ==
    /\ callers[c].pc = "post" /\ callers[c].refresh \notin live
    /\ Go(c, Waiting)
    /\ UNCHANGED <<rotating, account, grants, live, revived, lost, tokenFaults>>

\* The call fails on the way, or its answer is lost.
PostFails(c) ==
    /\ callers[c].pc = "post" /\ TokenFault
    /\ \/ UNCHANGED <<grants, live, lost>>
       \/ /\ callers[c].refresh \in live /\ Rotates(callers[c].refresh)
          /\ lost' = lost \cup {callers[c].refresh}
    /\ Go(c, Waiting)
    /\ UNCHANGED <<rotating, account, revived>>

\* Mutant: a new refresh token in the response is not taken over.
KeepUsed(c) == callers[c].refresh

\* A response without a refresh token keeps the one that was used.
Kept(c) == IF callers[c].new = 0 THEN callers[c].refresh ELSE callers[c].new

\* update_tokens writes the row whatever its status is.
UpdateTokens(c) ==
    /\ callers[c].pc = "update"
    /\ account' = [account EXCEPT !.access = "fresh", !.refresh = Kept(c)]
    /\ Go(c, Waiting)
    /\ UNCHANGED <<rotating, grants, live, revived, lost, tokenFaults>>

\* The update fails: it is logged, and the new tokens are gone with the caller.
UpdateFails(c) ==
    /\ callers[c].pc = "update" /\ TokenFault
    /\ lost' = lost \cup {callers[c].refresh}
    /\ Go(c, Waiting)
    /\ UNCHANGED <<rotating, account, grants, live, revived>>

InFlight == \E c \in Callers : callers[c].pc \in {"post", "update"}

\* disconnect_account clears the tokens.
Disconnect ==
    /\ account.status # "none"
    /\ account' = [status |-> "disconnected", access |-> "none", refresh |-> 0]
    /\ revived' = (revived \/ InFlight)
    /\ UNCHANGED <<rotating, grants, live, callers, lost, tokenFaults>>

Refresh(c) ==
    \/ ReadExpired(c) \/ ReadRefresh(c) \/ PostAccepted(c) \/ PostRefused(c) \/ PostFails(c)
    \/ UpdateTokens(c) \/ UpdateFails(c)

TokenNext == Connect \/ Expire \/ Disconnect \/ \E c \in Callers : Refresh(c)

TokenSpec == TokenInit /\ [][TokenNext]_tokenVars

-----------------------------------------------------------------------------
TokenTypeOK ==
    /\ account \in Row /\ rotating \in BOOLEAN
    /\ account.status = "connected" => account.access # "none" /\ account.refresh # 0
    /\ grants \in 0..MaxGrants /\ live \subseteq 1..grants /\ lost \subseteq 0..grants
    /\ callers \in [Callers -> [pc : {"idle", "refresh", "post", "update"}, refresh : 0..grants,
                                new : 0..grants]]
    /\ revived \in BOOLEAN /\ tokenFaults \in 0..MaxTokenFaults

\* Callers that refresh side by side never leave a connected account with a
\* refresh token the provider has ended, unless its successor is still on its
\* way to the row or was lost there.
StoredTokenLives ==
    account.status = "connected" =>
        \/ account.refresh \in live
        \/ account.refresh \in lost
        \/ \E c \in Callers : callers[c].pc = "update" /\ callers[c].refresh = account.refresh

\* A disconnected account has no tokens, unless a refresh was under way.
DisconnectClears ==
    account.status = "disconnected" /\ ~revived => account.access = "none" /\ account.refresh = 0

\* The row of an account and the tokens the provider still accepts.
TokenInv == TokenTypeOK /\ StoredTokenLives /\ DisconnectClears
=============================================================================
