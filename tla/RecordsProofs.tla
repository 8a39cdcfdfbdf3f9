--------------------------- MODULE RecordsProofs ---------------------------
(***************************************************************************)
(* The parts of the system that keep records in step: theorems about the   *)
(* tokens of an account, consent, the embedding model, the vector index,   *)
(* the data of an account, the topic clusters, the requests on a mailbox   *)
(* and the cleanup plan, for every number of tasks, providers, messages    *)
(* and accounts.                                                           *)
(***************************************************************************)
EXTENDS AccountTokens, ProviderConsent, EmbeddingModel, VectorIndex, AccountData, TopicClusters,
        MailboxActions, PlanBuilder, FiniteSetTheorems, SequenceTheorems, TLAPS

-----------------------------------------------------------------------------
(* The tokens of an account *)

\* The tokens of an account, for any number of callers that refresh side
\* by side, of grants and of faults, and with either kind of provider.

Updating(c) == callers[c].pc = "update"

\* A caller holds a refresh token from the moment it calls the provider.
HoldsToken ==
    \A c \in Callers : callers[c].pc \in {"post", "update"} => callers[c].refresh # 0

\* A provider that does not rotate accepts whatever it has handed out.
NothingEnds == ~rotating => live = 1..grants

\* Only a provider that rotates answers with a new refresh token, and it does each time.
NewWhenRotating ==
    \A c \in Callers : (callers[c].new # 0) <=> (Updating(c) /\ rotating)

\* A new refresh token is accepted, and only the caller that was given it knows it,
\* until it is in the row.
NewIsPrivate ==
    \A c \in Callers : callers[c].new # 0 =>
        /\ callers[c].new \in live
        /\ callers[c].new # account.refresh
        /\ \A d \in Callers : callers[d].refresh # callers[c].new
                              /\ (d # c => callers[d].new # callers[c].new)

\* Once an account is disconnected nobody refreshes, unless somebody was at it then.
NobodyRefreshes == account.status = "disconnected" /\ ~revived => ~InFlight

TokenTypes == TokenTypeOK /\ account.refresh \in 0..grants /\ grants \in Nat

TokenInd ==
    /\ TokenTypes /\ HoldsToken /\ NothingEnds /\ NewWhenRotating /\ NewIsPrivate
    /\ StoredTokenLives /\ DisconnectClears /\ NobodyRefreshes

CallerRecords(g) ==
    [pc : {"idle", "refresh", "post", "update"}, refresh : 0..g, new : 0..g]

\* A step of one caller leaves the others as they are.
LEMMA OneGoes ==
    ASSUME TokenTypes, NEW c \in Callers, NEW s, Go(c, s)
    PROVE  /\ callers'[c] = s /\ \A d \in Callers \ {c} : callers'[d] = callers[d]
           /\ \A g : s \in CallerRecords(g) /\ CallerRecords(grants) \subseteq CallerRecords(g)
                    => callers' \in [Callers -> CallerRecords(g)]
BY DEF TokenTypes, TokenTypeOK, CallerRecords, Go

LEMMA TokenInitially == TokenInit => TokenInd
<1> SUFFICES ASSUME TokenInit PROVE TokenInd
  OBVIOUS
<1>1. \A c \in Callers : callers[c] = [pc |-> "idle", refresh |-> 0, new |-> 0]
  BY DEF TokenInit, Waiting
<1>2. callers \in [Callers -> CallerRecords(0)]
  BY <1>1 DEF TokenInit, Waiting, CallerRecords
<1>3. TokenTypes
  <2>1. grants = 0 /\ grants \in 0..MaxGrants /\ tokenFaults \in 0..MaxTokenFaults
    BY TokenAssumption DEF TokenInit
  <2>2. account \in Row /\ account.refresh = 0 /\ account.status = "none"
    BY DEF TokenInit, Row, NoRow
  <2>3. rotating \in BOOLEAN /\ revived \in BOOLEAN /\ live = {} /\ lost = {}
    BY DEF TokenInit
  <2> QED BY <1>2, <2>1, <2>2, <2>3 DEF TokenTypes, TokenTypeOK, CallerRecords
<1> QED BY <1>1, <1>3
        DEF TokenInit, TokenInd, NoRow, HoldsToken, NothingEnds, NewWhenRotating, NewIsPrivate,
            StoredTokenLives, DisconnectClears, NobodyRefreshes, Updating

\* A token that is new to everybody: nothing known before is equal to it.
LEMMA GrantIsNew ==
    ASSUME TokenInd
    PROVE  /\ grants + 1 \notin live /\ grants + 1 # account.refresh /\ grants + 1 # 0
           /\ \A c \in Callers : callers[c].refresh # grants + 1 /\ callers[c].new # grants + 1
           /\ 0..grants \subseteq 0..(grants + 1) /\ 1..grants \subseteq 1..(grants + 1)
BY DEF TokenInd, TokenTypes, TokenTypeOK, CallerRecords

\* The user connects, disconnects, or time passes.
LEMMA RowKeeps ==
    ASSUME TokenInd, Connect \/ Expire \/ Disconnect
    PROVE  TokenInd'
<1>1. CASE Connect
  <2>1. TokenTypes'
    <3>1. grants' \in 0..MaxGrants /\ grants' \in Nat
      BY <1>1, TokenAssumption DEF TokenInd, TokenTypes, TokenTypeOK, Connect
    <3>2. callers' \in [Callers -> CallerRecords(grants')]
      BY <1>1, GrantIsNew DEF TokenInd, TokenTypes, TokenTypeOK, Connect, CallerRecords
    <3>3. account' \in Row /\ account'.refresh \in 0..grants'
      BY <1>1, <3>1 DEF Row, Connect
    <3>4. live' \subseteq 1..grants' /\ lost' \subseteq 0..grants'
      BY <1>1, GrantIsNew, <3>1 DEF TokenInd, TokenTypes, TokenTypeOK, Connect
    <3> QED BY <1>1, <3>1, <3>2, <3>3, <3>4, GrantIsNew
            DEF TokenInd, TokenTypes, TokenTypeOK, Connect, CallerRecords
  <2>2. NothingEnds'
    BY <1>1 DEF TokenInd, TokenTypes, NothingEnds, Connect
  <2>3. HoldsToken' /\ NewWhenRotating' /\ NewIsPrivate'
    BY <1>1, GrantIsNew
       DEF TokenInd, HoldsToken, NewWhenRotating, NewIsPrivate, Updating, Connect
  <2> QED BY <1>1, <2>1, <2>2, <2>3
          DEF TokenInd, StoredTokenLives, DisconnectClears, NobodyRefreshes, Connect
<1>2. CASE Expire
  BY <1>2
     DEF TokenInd, TokenTypes, TokenTypeOK, Row, HoldsToken, NothingEnds, NewWhenRotating,
         NewIsPrivate, Updating, StoredTokenLives, DisconnectClears, NobodyRefreshes, InFlight,
         Expire
<1>3. CASE Disconnect
  <2>1. TokenTypes'
    BY <1>3 DEF TokenInd, TokenTypes, TokenTypeOK, Row, Disconnect, InFlight
  <2> QED BY <1>3, <2>1
          DEF TokenInd, HoldsToken, NothingEnds, NewWhenRotating, NewIsPrivate, Updating,
              StoredTokenLives, DisconnectClears, NobodyRefreshes, InFlight, Disconnect
<1> QED BY <1>1, <1>2, <1>3

\* A caller reads the row.
LEMMA ReadKeeps ==
    ASSUME TokenInd, NEW c \in Callers, ReadExpired(c) \/ ReadRefresh(c)
    PROVE  TokenInd'
<1>1. PICK s \in CallerRecords(grants) :
               /\ Go(c, s) /\ s.new = 0 /\ s.pc # "update" /\ s.refresh \in {0, account.refresh}
               /\ s.pc = "post" => account.refresh # 0 /\ s.refresh = account.refresh
  <2> DEFINE asks == [pc |-> "refresh", refresh |-> 0, new |-> 0]
             holds == [pc |-> "post", refresh |-> account.refresh, new |-> 0]
  <2>1. 0 \in 0..grants /\ account.refresh \in 0..grants
    BY DEF TokenInd, TokenTypes
  <2>2. Waiting \in CallerRecords(grants) /\ asks \in CallerRecords(grants)
        /\ holds \in CallerRecords(grants)
    BY <2>1 DEF CallerRecords, Waiting
  <2>3. CASE ReadExpired(c)
    <3>1. Go(c, asks)
      BY <2>3 DEF ReadExpired, Waiting
    <3> QED BY <2>2, <3>1
  <2>4. CASE ReadRefresh(c)
    <3>1. Go(c, IF account.refresh = 0 THEN Waiting ELSE holds)
      BY <2>4 DEF ReadRefresh, Waiting
    <3> QED BY <2>2, <3>1 DEF Waiting
  <2> QED BY <2>3, <2>4
<1>2. /\ callers'[c] = s /\ \A d \in Callers \ {c} : callers'[d] = callers[d]
      /\ callers' \in [Callers -> CallerRecords(grants)]
  BY <1>1, OneGoes DEF TokenInd
<1>3. ~Updating(c)
  BY DEF ReadExpired, ReadRefresh, Updating
<1>4. TokenTypes'
  BY <1>2 DEF TokenInd, TokenTypes, TokenTypeOK, CallerRecords, ReadExpired, ReadRefresh
<1>5. UNCHANGED <<rotating, account, grants, live, revived, lost, tokenFaults>>
  BY DEF ReadExpired, ReadRefresh
<1>6. HoldsToken' /\ NothingEnds'
  BY <1>1, <1>2, <1>3, <1>5 DEF TokenInd, HoldsToken, NothingEnds, Updating
<1>7. NewWhenRotating' /\ NewIsPrivate'
  BY <1>1, <1>2, <1>3, <1>5 DEF TokenInd, NewWhenRotating, NewIsPrivate, Updating
<1>8. StoredTokenLives'
  BY <1>1, <1>2, <1>3, <1>5 DEF TokenInd, StoredTokenLives, Updating
<1>9. DisconnectClears' /\ NobodyRefreshes'
  BY <1>1, <1>2, <1>3, <1>5 DEF TokenInd, DisconnectClears, NobodyRefreshes, InFlight, Updating
<1> QED BY <1>4, <1>6, <1>7, <1>8, <1>9 DEF TokenInd

\* The provider ends a token that nobody but its holder awaits a successor of.
LEMMA RotationKeeps ==
    ASSUME TokenInd, NEW r \in live, Rotates(r), \E c \in Callers : callers[c].refresh = r
    PROVE  /\ grants' = grants + 1 /\ grants' \in 0..MaxGrants /\ grants' \in Nat
           /\ live' \subseteq 1..grants' /\ grants + 1 \in live' /\ rotating
           /\ \A t \in live : t # r => t \in live'
           /\ \A c \in Callers : callers[c].new # 0 => callers[c].new \in live'
           /\ CallerRecords(grants) \subseteq CallerRecords(grants')
<1>1. /\ grants' = grants + 1 /\ grants' \in 0..MaxGrants /\ grants' \in Nat
      /\ live' = (live \ {r}) \cup {grants + 1} /\ live \subseteq 1..grants /\ rotating
  BY TokenAssumption DEF TokenInd, TokenTypes, TokenTypeOK, Rotates
<1>2. \A c \in Callers : callers[c].new # 0 => callers[c].new \in live'
  BY <1>1 DEF TokenInd, NewIsPrivate
<1>3. live' \subseteq 1..grants' /\ CallerRecords(grants) \subseteq CallerRecords(grants')
  BY <1>1, GrantIsNew DEF TokenInd, TokenTypes, CallerRecords
<1> QED BY <1>1, <1>2, <1>3

\* The provider has accepted a refresh and answered.
LEMMA AcceptedKeeps ==
    ASSUME TokenInd, NEW c \in Callers, PostAccepted(c)
    PROVE  TokenInd'
<1> DEFINE r == callers[c].refresh
<1>1. /\ callers[c].pc = "post" /\ r \in live /\ r # 0 /\ callers[c].new = 0
      /\ callers[c] \in CallerRecords(grants) /\ grants \in Nat
  BY DEF TokenInd, TokenTypes, TokenTypeOK, HoldsToken, NewWhenRotating, Updating, PostAccepted,
         CallerRecords
<1>2. UNCHANGED <<rotating, account, revived, lost, tokenFaults>>
  BY DEF PostAccepted
<1>3. NobodyRefreshes' /\ DisconnectClears'
  <2>1. InFlight
    BY <1>1 DEF InFlight
  <2> QED BY <1>2, <2>1 DEF TokenInd, NobodyRefreshes, DisconnectClears
<1>4. CASE Rotates(r) /\ Go(c, [callers[c] EXCEPT !.pc = "update", !.new = grants + 1])
  <2> DEFINE s == [callers[c] EXCEPT !.pc = "update", !.new = grants + 1]
  <2>1. /\ grants' = grants + 1 /\ grants' \in 0..MaxGrants /\ grants' \in Nat
        /\ live' \subseteq 1..grants' /\ grants + 1 \in live' /\ rotating
        /\ \A t \in live : t # r => t \in live'
        /\ \A d \in Callers : callers[d].new # 0 => callers[d].new \in live'
        /\ CallerRecords(grants) \subseteq CallerRecords(grants')
    BY <1>1, <1>4, RotationKeeps
  <2>2. s \in CallerRecords(grants') /\ s.pc = "update" /\ s.new = grants + 1 /\ s.refresh = r
    <3>1. callers[c] \in CallerRecords(grants') /\ grants + 1 \in 0..grants'
      BY <1>1, <2>1
    <3> QED BY <3>1 DEF CallerRecords
  <2>3. /\ callers'[c] = s /\ \A d \in Callers \ {c} : callers'[d] = callers[d]
        /\ callers' \in [Callers -> CallerRecords(grants')]
    BY <1>4, <2>1, <2>2, OneGoes DEF TokenInd
  <2>4. TokenTypes'
    BY <1>2, <2>1, <2>3, GrantIsNew DEF TokenInd, TokenTypes, TokenTypeOK, CallerRecords
  <2> HIDE DEF s, r
  <2>5. HoldsToken' /\ NothingEnds' /\ NewWhenRotating'
    <3>1. HoldsToken'
      BY <1>1, <2>2, <2>3 DEF TokenInd, HoldsToken
    <3>2. NothingEnds'
      BY <1>2, <2>1 DEF NothingEnds
    <3>3. NewWhenRotating'
      BY <1>1, <1>2, <2>1, <2>2, <2>3 DEF TokenInd, TokenTypes, NewWhenRotating, Updating
    <3> QED BY <3>1, <3>2, <3>3
  <2>6. NewIsPrivate'
    <3>1. /\ s.new \in live' /\ s.new # account'.refresh /\ s.refresh # s.new
          /\ \A d \in Callers \ {c} : callers[d].refresh # s.new /\ callers[d].new # s.new
      BY <1>1, <1>2, <2>1, <2>2, GrantIsNew DEF r
    <3>2. \A d \in Callers \ {c} : callers[d].new # 0 => s.refresh # callers[d].new
      BY <2>2 DEF TokenInd, NewIsPrivate, r
    <3> QED BY <1>2, <2>1, <2>3, <3>1, <3>2 DEF TokenInd, NewIsPrivate
  <2>7. StoredTokenLives'
    <3>1. CASE account.refresh = r
      BY <1>2, <2>2, <2>3, <3>1 DEF StoredTokenLives
    <3>2. CASE account.refresh # r
      BY <1>1, <1>2, <2>1, <2>3, <3>2 DEF TokenInd, StoredTokenLives
    <3> QED BY <3>1, <3>2
  <2> QED BY <1>3, <2>4, <2>5, <2>6, <2>7 DEF TokenInd
<1>5. CASE ~rotating /\ UNCHANGED <<grants, live>> /\ Go(c, [callers[c] EXCEPT !.pc = "update"])
  <2> DEFINE s == [callers[c] EXCEPT !.pc = "update"]
  <2>1. s \in CallerRecords(grants) /\ s.pc = "update" /\ s.new = 0 /\ s.refresh = r
    BY <1>1 DEF CallerRecords
  <2>2. /\ callers'[c] = s /\ \A d \in Callers \ {c} : callers'[d] = callers[d]
        /\ callers' \in [Callers -> CallerRecords(grants)]
    BY <1>5, <2>1, OneGoes DEF TokenInd
  <2>3. TokenTypes'
    BY <1>2, <1>5, <2>2 DEF TokenInd, TokenTypes, TokenTypeOK, CallerRecords
  <2> HIDE DEF s
  <2>4. HoldsToken' /\ NothingEnds' /\ NewWhenRotating' /\ NewIsPrivate'
    <3>1. HoldsToken'
      BY <1>1, <2>1, <2>2 DEF TokenInd, HoldsToken
    <3>2. NothingEnds'
      BY <1>2, <1>5 DEF TokenInd, NothingEnds
    <3>3. NewWhenRotating' /\ NewIsPrivate'
      BY <1>1, <1>2, <1>5, <2>1, <2>2 DEF TokenInd, NewWhenRotating, NewIsPrivate, Updating
    <3> QED BY <3>1, <3>2, <3>3
  <2>5. StoredTokenLives'
    BY <1>1, <1>2, <1>5, <2>2 DEF TokenInd, StoredTokenLives
  <2> QED BY <1>3, <2>3, <2>4, <2>5 DEF TokenInd
<1> QED BY <1>4, <1>5 DEF PostAccepted

\* A call that was refused or got lost: the caller gives up.
LEMMA GivesUpKeeps ==
    ASSUME TokenInd, NEW c \in Callers, PostRefused(c) \/ PostFails(c) \/ UpdateFails(c)
    PROVE  TokenInd'
<1> DEFINE r == callers[c].refresh
<1>1. /\ InFlight /\ r # 0 /\ callers[c] \in CallerRecords(grants) /\ grants \in Nat
      /\ r \in 0..grants
  BY DEF TokenInd, TokenTypes, TokenTypeOK, HoldsToken, InFlight, CallerRecords, PostRefused,
         PostFails, UpdateFails
<1>2. UNCHANGED <<rotating, account, revived>> /\ Go(c, Waiting)
  BY DEF PostRefused, PostFails, UpdateFails
<1>3. Waiting \in CallerRecords(grants) /\ Waiting.new = 0 /\ Waiting.refresh = 0
      /\ Waiting.pc = "idle"
  BY <1>1 DEF CallerRecords, Waiting
<1>4. callers'[c] = Waiting /\ \A d \in Callers \ {c} : callers'[d] = callers[d]
  BY <1>2, <1>3, OneGoes DEF TokenInd
<1>5. NobodyRefreshes' /\ DisconnectClears'
  BY <1>1, <1>2 DEF TokenInd, NobodyRefreshes, DisconnectClears
<1>6. \/ UNCHANGED <<grants, live>> /\ lost' \in {lost, lost \cup {r}}
      \/ r \in live /\ Rotates(r) /\ lost' = lost \cup {r}
  BY DEF PostRefused, PostFails, UpdateFails
<1>7. tokenFaults' \in 0..MaxTokenFaults
  BY TokenAssumption DEF TokenInd, TokenTypes, TokenTypeOK, TokenFault, PostRefused, PostFails,
     UpdateFails
<1>8. Updating(c) => lost' = lost \cup {r}
  BY DEF Updating, PostRefused, PostFails, UpdateFails
<1>9. /\ grants' \in 0..MaxGrants /\ grants' \in Nat /\ live' \subseteq 1..grants'
      /\ lost' \subseteq 0..grants' /\ 0..grants \subseteq 0..grants'
      /\ CallerRecords(grants) \subseteq CallerRecords(grants')
      /\ \A t \in live : t \in live' \/ t \in lost'
      /\ \A d \in Callers : callers[d].new # 0 => callers[d].new \in live'
      /\ ~rotating => UNCHANGED <<grants, live>>
  <2>1. CASE UNCHANGED <<grants, live>> /\ lost' \in {lost, lost \cup {r}}
    BY <1>1, <2>1 DEF TokenInd, TokenTypes, TokenTypeOK, NewIsPrivate
  <2>2. CASE r \in live /\ Rotates(r) /\ lost' = lost \cup {r}
    <3>1. /\ grants' = grants + 1 /\ grants' \in 0..MaxGrants /\ grants' \in Nat
          /\ live' \subseteq 1..grants' /\ rotating
          /\ \A t \in live : t # r => t \in live'
          /\ \A d \in Callers : callers[d].new # 0 => callers[d].new \in live'
          /\ CallerRecords(grants) \subseteq CallerRecords(grants')
      BY <2>2, RotationKeeps
    <3> QED BY <1>1, <2>2, <3>1, GrantIsNew DEF TokenInd, TokenTypes, TokenTypeOK
  <2> QED BY <1>6, <2>1, <2>2
<1>10. TokenTypes'
  <2>1. callers' \in [Callers -> CallerRecords(grants')]
    BY <1>2, <1>3, <1>9, OneGoes DEF TokenInd
  <2> QED BY <1>2, <1>7, <1>9, <2>1 DEF TokenInd, TokenTypes, TokenTypeOK, CallerRecords
<1>11. HoldsToken' /\ NothingEnds' /\ NewWhenRotating' /\ NewIsPrivate'
  BY <1>2, <1>3, <1>4, <1>9
     DEF TokenInd, HoldsToken, NothingEnds, NewWhenRotating, NewIsPrivate, Updating
<1>12. StoredTokenLives'
  BY <1>2, <1>4, <1>6, <1>8, <1>9 DEF TokenInd, StoredTokenLives, Updating
<1> QED BY <1>5, <1>10, <1>11, <1>12 DEF TokenInd

\* The row gets what the caller was given.
LEMMA UpdateKeeps ==
    ASSUME TokenInd, NEW c \in Callers, UpdateTokens(c)
    PROVE  TokenInd'
<1>1. /\ Updating(c) /\ callers[c].refresh # 0 /\ callers[c] \in CallerRecords(grants)
      /\ grants \in Nat /\ InFlight
  BY DEF TokenInd, TokenTypes, TokenTypeOK, HoldsToken, CallerRecords, UpdateTokens, Updating,
         InFlight
<1>2. Kept(c) \in live /\ Kept(c) # 0 /\ Kept(c) \in 0..grants
  <2>1. CASE rotating
    BY <1>1, <2>1 DEF TokenInd, NewWhenRotating, NewIsPrivate, Kept, CallerRecords
  <2>2. CASE ~rotating
    <3>1. callers[c].new = 0 /\ live = 1..grants
      BY <2>2 DEF TokenInd, NewWhenRotating, NothingEnds
    <3> QED BY <1>1, <3>1 DEF Kept, CallerRecords
  <2> QED BY <2>1, <2>2
<1>3. \A d \in Callers \ {c} : callers[d].new # 0 => callers[d].new # Kept(c)
  BY DEF TokenInd, NewIsPrivate, Kept
<1>4. /\ account' = [account EXCEPT !.access = "fresh", !.refresh = Kept(c)]
      /\ Go(c, Waiting) /\ UNCHANGED <<rotating, grants, live, revived, lost, tokenFaults>>
  BY DEF UpdateTokens
<1>5. /\ account' \in Row /\ account'.status = account.status /\ account'.access = "fresh"
      /\ account'.refresh = Kept(c)
  <2>1. account \in Row /\ Kept(c) \in Nat
    BY <1>1, <1>2 DEF TokenInd, TokenTypes, TokenTypeOK
  <2> HIDE DEF Kept
  <2> QED BY <1>4, <2>1 DEF Row
<1>6. Waiting \in CallerRecords(grants) /\ Waiting.new = 0 /\ Waiting.refresh = 0
      /\ Waiting.pc = "idle"
  BY <1>1 DEF CallerRecords, Waiting
<1>7. /\ callers'[c] = Waiting /\ \A d \in Callers \ {c} : callers'[d] = callers[d]
      /\ callers' \in [Callers -> CallerRecords(grants)]
  BY <1>4, <1>6, OneGoes DEF TokenInd
<1>8. TokenTypes'
  BY <1>2, <1>4, <1>5, <1>7 DEF TokenInd, TokenTypes, TokenTypeOK, CallerRecords
<1>9. HoldsToken' /\ NothingEnds' /\ NewWhenRotating'
  BY <1>4, <1>6, <1>7 DEF TokenInd, HoldsToken, NothingEnds, NewWhenRotating, Updating
<1>10. NewIsPrivate'
  BY <1>3, <1>4, <1>5, <1>6, <1>7 DEF TokenInd, NewIsPrivate
<1>11. StoredTokenLives' /\ DisconnectClears' /\ NobodyRefreshes'
  BY <1>1, <1>2, <1>4, <1>5
     DEF TokenInd, StoredTokenLives, DisconnectClears, NobodyRefreshes
<1> QED BY <1>8, <1>9, <1>10, <1>11 DEF TokenInd

LEMMA TokenKept == TokenInd /\ [TokenNext]_tokenVars => TokenInd'
<1> SUFFICES ASSUME TokenInd, [TokenNext]_tokenVars PROVE TokenInd'
  OBVIOUS
<1>1. CASE Connect \/ Expire \/ Disconnect
  BY <1>1, RowKeeps
<1>2. CASE \E c \in Callers : Refresh(c)
  BY <1>2, ReadKeeps, AcceptedKeeps, GivesUpKeeps, UpdateKeeps DEF Refresh
<1>3. CASE UNCHANGED tokenVars
  BY <1>3
     DEF tokenVars, TokenInd, TokenTypes, TokenTypeOK, HoldsToken, NothingEnds, NewWhenRotating,
         NewIsPrivate, StoredTokenLives, DisconnectClears, NobodyRefreshes, InFlight, Updating
<1> QED BY <1>1, <1>2, <1>3 DEF TokenNext

\* However many callers refresh one account, and whatever gets lost, a connected
\* account keeps a refresh token that the provider accepts, or whose successor was lost
\* or is on its way to the row; and nothing puts tokens into a row that was cleared
\* while nobody refreshed.
THEOREM TokensHold == TokenSpec => []TokenInv
<1>1. TokenInd => TokenInv
  BY DEF TokenInd, TokenTypes, TokenInv
<1> QED BY <1>1, TokenInitially, TokenKept, PTL DEF TokenSpec

-----------------------------------------------------------------------------
(* Consent *)

\* The flags of the cloud providers follow the consents, for any number of
\* providers, requests and restarts.

\* While the flag of a provider whose consent was revoked has yet to be written, it
\* will be written FALSE; and once nobody has, it is.
RevocationPrevails ==
    \A p \in CloudTypes \ reopened : consent[p] = "revoked" =>
        /\ \A r \in Requests : p \in requests[r].left => requests[r].flag = FALSE
        /\ (\A r \in Requests : p \notin requests[r].left) => enabled[p] = FALSE

ConsentInd == ConsentTypeOK /\ RevocationPrevails

RequestRecords == [pc : {"idle", "toggle"}, flag : BOOLEAN, left : SUBSET CloudTypes]

LEMMA ConsentInitially == ConsentInit => ConsentInd
BY ConsentAssumption
   DEF ConsentInit, ConsentInd, ConsentTypeOK, ConsentState, RevocationPrevails, NoRequest, UnderWay

\* A request takes in hand the flags it has to write.
LEMMA Follows ==
    ASSUME ConsentTypeOK, NEW r \in Requests, NEW flag \in BOOLEAN,
           NEW types \in (SUBSET CloudTypes) \ {{}}, Follow(r, flag, types)
    PROVE  /\ requests' \in [Requests -> RequestRecords]
           /\ \A q \in Requests : (requests'[q].pc # "idle") <=> (requests'[q].left # {})
           /\ requests'[r].left = types /\ requests'[r].flag = flag
           /\ \A q \in Requests \ {r} : requests'[q] = requests[q]
BY DEF ConsentTypeOK, RequestRecords, Follow, UnderWay

\* A consent is given, or taken back.
LEMMA GrantKeeps ==
    ASSUME ConsentInd, NEW r \in Requests, NEW p \in CloudTypes, Grant(r, p) \/ Revoke(r, p)
    PROVE  ConsentInd'
<1>1. requests[r].left = {}
  BY DEF ConsentInd, ConsentTypeOK, Grant, Revoke
<1>2. CASE Grant(r, p)
  <2>1. /\ requests' \in [Requests -> RequestRecords]
        /\ \A q \in Requests : (requests'[q].pc # "idle") <=> (requests'[q].left # {})
        /\ requests'[r].left = {p}
        /\ \A q \in Requests \ {r} : requests'[q] = requests[q]
    BY <1>2, Follows DEF ConsentInd, Grant
  <2>2. ConsentTypeOK'
    BY <1>2, <2>1
       DEF ConsentInd, ConsentTypeOK, ConsentState, RequestRecords, UnderWay, Grant
  <2>3. RevocationPrevails'
    <3>1. SUFFICES ASSUME NEW o \in CloudTypes \ reopened', consent'[o] = "revoked"
                   PROVE  /\ \A q \in Requests : o \in requests'[q].left =>
                                                     requests'[q].flag = FALSE
                          /\ (\A q \in Requests : o \notin requests'[q].left) =>
                                 enabled'[o] = FALSE
      BY DEF RevocationPrevails
    <3>2. o # p /\ o \in CloudTypes \ reopened /\ consent[o] = "revoked"
      BY <1>2, <3>1 DEF ConsentInd, ConsentTypeOK, Grant
    <3> QED BY <1>1, <1>2, <2>1, <3>2 DEF ConsentInd, RevocationPrevails, Grant
  <2> QED BY <2>2, <2>3 DEF ConsentInd
<1>3. CASE Revoke(r, p)
  <2>1. /\ requests' \in [Requests -> RequestRecords]
        /\ \A q \in Requests : (requests'[q].pc # "idle") <=> (requests'[q].left # {})
        /\ requests'[r].left = {p} /\ requests'[r].flag = FALSE
        /\ \A q \in Requests \ {r} : requests'[q] = requests[q]
    BY <1>3, Follows DEF ConsentInd, Revoke, FlagOfRevoke
  <2>2. ConsentTypeOK'
    BY <1>3, <2>1
       DEF ConsentInd, ConsentTypeOK, ConsentState, RequestRecords, UnderWay, Revoke
  <2>3. RevocationPrevails'
    <3>1. SUFFICES ASSUME NEW o \in CloudTypes \ reopened', consent'[o] = "revoked"
                   PROVE  /\ \A q \in Requests : o \in requests'[q].left =>
                                                     requests'[q].flag = FALSE
                          /\ (\A q \in Requests : o \notin requests'[q].left) =>
                                 enabled'[o] = FALSE
      BY DEF RevocationPrevails
    <3>2. CASE o = p
      <4>1. ~Crossing(r, p)
        BY <1>3, <3>1, <3>2 DEF Revoke
      <4>2. \A q \in Requests \ {r} : p \notin requests[q].left
        BY <4>1 DEF Crossing, ConsentInd, ConsentTypeOK
      <4> QED BY <2>1, <3>2, <4>2
    <3>3. CASE o # p
      <4>1. o \in CloudTypes \ reopened /\ consent[o] = "revoked"
        BY <1>3, <3>1, <3>3 DEF ConsentInd, ConsentTypeOK, Revoke
      <4> QED BY <1>1, <1>3, <2>1, <3>3, <4>1 DEF ConsentInd, RevocationPrevails, Revoke
    <3> QED BY <3>2, <3>3
  <2> QED BY <2>2, <2>3 DEF ConsentInd
<1> QED BY <1>2, <1>3

\* A decision about all providers.
LEMMA DecideKeeps ==
    ASSUME ConsentInd, NEW r \in Requests, NEW b \in BOOLEAN, Decide(r, b)
    PROVE  ConsentInd'
<1>1. /\ UNCHANGED <<consent, enabled, consentRestarts>> /\ decision' \in ConsentState
      /\ reopened' \subseteq CloudTypes /\ requests[r].left = {}
      /\ b => reopened' = CloudTypes
      /\ ~b => reopened' = reopened
  BY DEF ConsentInd, ConsentTypeOK, ConsentState, Decide
<1>2. CASE Follow(r, b, CloudTypes)
  <2>1. /\ requests' \in [Requests -> RequestRecords]
        /\ \A q \in Requests : (requests'[q].pc # "idle") <=> (requests'[q].left # {})
        /\ requests'[r].left = CloudTypes /\ requests'[r].flag = b
        /\ \A q \in Requests \ {r} : requests'[q] = requests[q]
    BY <1>2, Follows, ConsentAssumption DEF ConsentInd
  <2>2. ConsentTypeOK'
    BY <1>1, <2>1 DEF ConsentInd, ConsentTypeOK, RequestRecords, UnderWay
  <2>3. RevocationPrevails'
    BY <1>1, <2>1 DEF ConsentInd, RevocationPrevails
  <2> QED BY <2>2, <2>3 DEF ConsentInd
<1>3. CASE UNCHANGED requests
  BY <1>1, <1>3 DEF ConsentInd, ConsentTypeOK, RevocationPrevails, UnderWay
<1> QED BY <1>2, <1>3 DEF Decide

\* A request writes one flag.
LEMMA ToggleKeeps ==
    ASSUME ConsentInd, NEW r \in Requests, NEW p \in CloudTypes, Toggle(r, p)
    PROVE  ConsentInd'
<1>1. /\ requests[r].left \ {p} = requests'[r].left /\ requests'[r] \in RequestRecords
      /\ (requests'[r].pc # "idle") <=> (requests'[r].left # {})
      /\ requests'[r].left # {} => requests'[r].flag = requests[r].flag
      /\ p \in requests[r].left
      /\ \A q \in Requests \ {r} : requests'[q] = requests[q]
      /\ requests' \in [Requests -> RequestRecords]
  <2>1. requests[r] \in RequestRecords /\ requests[r].pc # "idle" /\ p \in requests[r].left
    BY DEF ConsentInd, ConsentTypeOK, RequestRecords, UnderWay, Toggle
  <2>2. NoRequest \in RequestRecords /\ NoRequest.pc = "idle" /\ NoRequest.left = {}
    BY DEF NoRequest, RequestRecords
  <2>3. AfterToggle(r, p) \in RequestRecords
    BY <2>1, <2>2 DEF AfterToggle, RequestRecords
  <2>4. requests' = [requests EXCEPT ![r] = AfterToggle(r, p)]
        /\ requests \in [Requests -> RequestRecords]
    BY DEF ConsentInd, ConsentTypeOK, RequestRecords, Toggle
  <2>5. requests'[r] = AfterToggle(r, p) /\ requests' \in [Requests -> RequestRecords]
        /\ \A q \in Requests \ {r} : requests'[q] = requests[q]
    BY <2>3, <2>4
  <2>6. CASE requests[r].left = {p}
    BY <2>1, <2>2, <2>5, <2>6 DEF AfterToggle
  <2>7. CASE requests[r].left # {p}
    BY <2>1, <2>5, <2>7 DEF AfterToggle, RequestRecords
  <2> QED BY <2>6, <2>7
<1>2. /\ UNCHANGED <<consent, decision, reopened, consentRestarts>>
      /\ enabled'[p] = requests[r].flag /\ enabled' \in [CloudTypes -> BOOLEAN]
      /\ \A o \in CloudTypes \ {p} : enabled'[o] = enabled[o]
  BY DEF ConsentInd, ConsentTypeOK, Toggle
<1>3. ConsentTypeOK'
  BY <1>1, <1>2 DEF ConsentInd, ConsentTypeOK, RequestRecords, UnderWay
<1>4. RevocationPrevails'
  BY <1>1, <1>2 DEF ConsentInd, RevocationPrevails
<1> QED BY <1>3, <1>4 DEF ConsentInd

\* What a dropped request had to write is noted where it matters.
LEMMA DropConsentKeeps ==
    ASSUME ConsentInd, NEW r \in Requests, DropConsent(r)
    PROVE  ConsentInd'
<1>1. NoRequest \in RequestRecords /\ NoRequest.pc = "idle" /\ NoRequest.left = {}
  BY DEF NoRequest, RequestRecords
<1>2. /\ requests' \in [Requests -> RequestRecords]
      /\ requests'[r] = NoRequest /\ \A q \in Requests \ {r} : requests'[q] = requests[q]
  BY <1>1 DEF DropConsent, ConsentInd, ConsentTypeOK, RequestRecords
<1>3. ConsentTypeOK'
  BY <1>1, <1>2 DEF DropConsent, ConsentInd, ConsentTypeOK, RequestRecords, UnderWay
<1>4. RevocationPrevails'
  <2> SUFFICES ASSUME NEW o \in CloudTypes \ reopened', consent'[o] = "revoked"
               PROVE  /\ \A q \in Requests : o \in requests'[q].left => requests'[q].flag = FALSE
                      /\ (\A q \in Requests : o \notin requests'[q].left) => enabled'[o] = FALSE
    BY DEF RevocationPrevails
  <2>1. o \in CloudTypes \ reopened /\ consent[o] = "revoked" /\ enabled'[o] = enabled[o]
    BY DEF DropConsent
  <2>2. \A q \in Requests : o \in requests[q].left => requests[q].flag = FALSE
    BY <2>1 DEF ConsentInd, RevocationPrevails
  <2>3. o \in requests[r].left => enabled[o] = FALSE
    BY <2>2 DEF DropConsent, ConsentInd, ConsentTypeOK
  <2>4. (\A q \in Requests : o \notin requests[q].left) => enabled[o] = FALSE
    BY <2>1 DEF ConsentInd, RevocationPrevails
  <2> QED BY <1>1, <1>2, <2>1, <2>2, <2>3, <2>4
<1> QED BY <1>3, <1>4 DEF ConsentInd

LEMMA ConsentKept == ConsentInd /\ [ConsentNext]_consentVars => ConsentInd'
<1> SUFFICES ASSUME ConsentInd, [ConsentNext]_consentVars PROVE ConsentInd'
  OBVIOUS
<1>1. CASE \E r \in Requests :
              \/ \E p \in CloudTypes : Grant(r, p) \/ Revoke(r, p) \/ Toggle(r, p)
              \/ \E b \in BOOLEAN : Decide(r, b)
              \/ DropConsent(r)
  BY <1>1, GrantKeeps, ToggleKeeps, DecideKeeps, DropConsentKeeps
<1>2. ASSUME NEW p \in CloudTypes, SetByHand(p) PROVE ConsentInd'
  <2>1. /\ \A o \in CloudTypes \ {p} : enabled'[o] = enabled[o]
        /\ enabled' \in [CloudTypes -> BOOLEAN]
        /\ reopened' = IF enabled'[p] THEN reopened \cup {p} ELSE reopened
        /\ UNCHANGED <<consent, decision, requests, consentRestarts>>
    BY <1>2 DEF ConsentInd, ConsentTypeOK, SetByHand
  <2>2. ConsentTypeOK'
    BY <2>1 DEF ConsentInd, ConsentTypeOK, UnderWay
  <2>3. RevocationPrevails'
    BY <2>1 DEF ConsentInd, RevocationPrevails
  <2> QED BY <2>2, <2>3 DEF ConsentInd
<1>3. CASE ConsentRestart
  BY <1>3, ConsentAssumption
     DEF ConsentInd, ConsentTypeOK, RevocationPrevails, UnderWay, NoRequest, ConsentRestart
<1>4. CASE UNCHANGED consentVars
  BY <1>4 DEF consentVars, ConsentInd, ConsentTypeOK, RevocationPrevails, UnderWay
<1> QED BY <1>1, <1>2, <1>3, <1>4 DEF ConsentNext

\* A provider whose consent was revoked is disabled once the request is over, unless
\* the history reopened names it.
THEOREM RevokedStaysOut == ConsentSpec => []ConsentInv
<1>1. ConsentInd => ConsentInv
  BY DEF ConsentInd, RevocationPrevails, ConsentInv, RevokedIsExcluded
<1> QED BY <1>1, ConsentInitially, ConsentKept, PTL DEF ConsentSpec

-----------------------------------------------------------------------------
(* The embedding model *)

\* Mail that counts as embedded has a vector of the provider's model, for any
\* number of emails, models, starts and faults.

\* Between two starts the rows follow the model that was recorded, not the one in use.
FollowsStored ==
    boot # "stale" => \A e \in With("embedded") \ missed : embedding[e].by = behind

\* While the process runs the model recorded is the one in use.
StoredIsCurrent ==
    (boot = "up" /\ With("embedded") \ missed # {}) \/ boot = "stale" => Recorded

\* What the pipeline has marked is the vector it has in hand, and it has none of mail
\* that is marked otherwise.
HandIsMarked ==
    \A e \in With("embedded") : IF e \in inserting THEN embedding[e].by = hand[e]
                                ELSE hand[e] = NoEmbedModel

\* Embedded mail has its vector, except while the rows of a cleared store wait to be
\* reset, or a start has yet to find its store empty.
VectorsKept ==
    reset = "none" /\ ~(boot = "store" /\ store = {}) =>
        \A e \in With("embedded") \ (inserting \cup torn) : ~Without(e)

EmbedTypes ==
    /\ EmbedTypeOK
    /\ setting \in EmbedModels /\ maker \in EmbedModels
    /\ stored = NoEmbedModel => behind = NoEmbedModel
    /\ \A e \in With("embedded") : embedding[e].by \in EmbedModels

EmbedInd ==
    /\ EmbedTypes /\ FollowsStored /\ StoredIsCurrent /\ HandIsMarked /\ VectorsKept

\* An update that takes every row from one status to another.
LEMMA StatusSet ==
    ASSUME EmbedTypeOK, NEW from \in {"embedded", "stale"}, NEW to \in {"pending", "stale"},
           SetStatus(from, to)
    PROVE  /\ embedding' \in [Letters -> [status : {"pending", "embedded", "stale"},
                                          by : ModelOrNone]]
           /\ \A e \in Letters : embedding'[e].by = embedding[e].by
           /\ With("embedded")' = IF from = "embedded" THEN {} ELSE With("embedded")
<1>1. \A e \in Letters :
         embedding'[e] = IF embedding[e].status = from THEN [embedding[e] EXCEPT !.status = to]
                         ELSE embedding[e]
  BY DEF SetStatus
<1>2. \A e \in Letters : embedding[e] \in [status : {"pending", "embedded", "stale"},
                                           by : ModelOrNone]
  BY DEF EmbedTypeOK
<1>3. \A e \in Letters :
         /\ embedding'[e].status = IF embedding[e].status = from THEN to ELSE embedding[e].status
         /\ embedding'[e].by = embedding[e].by
  BY <1>1, <1>2
<1>4. With("embedded")' = IF from = "embedded" THEN {} ELSE With("embedded")
  BY <1>3 DEF With
<1>5. embedding' \in [Letters -> [status : {"pending", "embedded", "stale"}, by : ModelOrNone]]
  BY <1>1, <1>2 DEF SetStatus
<1> QED BY <1>3, <1>4, <1>5

LEMMA EmbedInitially == EmbedInit => EmbedInd
<1> SUFFICES ASSUME EmbedInit PROVE EmbedInd
  OBVIOUS
<1>1. With("embedded") = {}
  BY DEF EmbedInit, With
<1>2. EmbedTypeOK
  BY DEF EmbedInit, EmbedTypeOK, ModelOrNone
<1> QED BY <1>1, <1>2
        DEF EmbedInit, EmbedInd, EmbedTypes, FollowsStored, StoredIsCurrent,
            HandIsMarked, VectorsKept

\* The checks of a start.
LEMMA BootKeeps ==
    ASSUME EmbedInd, CheckStore \/ CheckModelChange \/ MarkAllStale
    PROVE  EmbedInd'
<1> USE DEF configVars, pipeVars
<1>1. CASE CheckStore
  <2>1. CASE SetStatus("embedded", "pending") /\ store = {}
    <3>1. With("embedded")' = {} /\ EmbedTypes'
      BY <1>1, <2>1, StatusSet DEF EmbedInd, EmbedTypes, EmbedTypeOK, CheckStore, ModelOrNone
    <3> QED BY <1>1, <3>1
            DEF EmbedInd, FollowsStored, StoredIsCurrent, HandIsMarked, VectorsKept, CheckStore
  <2>2. CASE UNCHANGED embedding /\ ((store # {} /\ UNCHANGED torn)
                                     \/ torn' = torn \cup With("embedded"))
    <3>1. With("embedded")' = With("embedded") /\ EmbedTypes'
      BY <1>1, <2>2 DEF EmbedInd, EmbedTypes, EmbedTypeOK, CheckStore, With, ModelOrNone
    <3> QED BY <1>1, <2>2, <3>1
            DEF EmbedInd, FollowsStored, StoredIsCurrent, HandIsMarked, VectorsKept, CheckStore,
                Without
  <2> QED BY <1>1, <2>1, <2>2 DEF CheckStore
<1>2. CASE CheckModelChange
  <2>1. With("embedded")' = With("embedded") /\ EmbedTypes'
    BY <1>2, EmbeddingAssumption
       DEF EmbedInd, EmbedTypes, EmbedTypeOK, CheckModelChange, With, ModelOrNone
  <2>2. FollowsStored' /\ StoredIsCurrent'
    BY <1>2, <2>1, EmbeddingAssumption
       DEF EmbedInd, EmbedTypes, FollowsStored, StoredIsCurrent, CheckModelChange, Recorded
  <2> QED BY <1>2, <2>1, <2>2
          DEF EmbedInd, HandIsMarked, VectorsKept, Without, CheckModelChange
<1>3. CASE MarkAllStale
  <2>1. CASE SetStatus("embedded", "stale") /\ missed' = {}
    <3>1. With("embedded")' = {} /\ EmbedTypes'
      BY <1>3, <2>1, StatusSet DEF EmbedInd, EmbedTypes, EmbedTypeOK, MarkAllStale, ModelOrNone
    <3> QED BY <1>3, <3>1
            DEF EmbedInd, FollowsStored, StoredIsCurrent, HandIsMarked, VectorsKept, MarkAllStale
  <2>2. CASE UNCHANGED embedding /\ missed' = missed \cup With("embedded")
    <3>1. With("embedded")' = With("embedded") /\ EmbedTypes'
      BY <1>3, <2>2 DEF EmbedInd, EmbedTypes, EmbedTypeOK, MarkAllStale, With, ModelOrNone
    <3> QED BY <1>3, <2>2, <3>1
            DEF EmbedInd, FollowsStored, StoredIsCurrent, HandIsMarked, VectorsKept, MarkAllStale,
                Without
  <2> QED BY <1>3, <2>1, <2>2 DEF MarkAllStale
<1> QED BY <1>1, <1>2, <1>3

\* The pipeline: a vector, the mark, the insertion.
LEMMA PipelineKeeps ==
    ASSUME EmbedInd, NEW e \in Letters,
           EmbedText(e) \/ MarkEmbedded(e) \/ InsertVector(e) \/ InsertFails(e)
    PROVE  EmbedInd'
<1> USE DEF configVars, pipeVars
<1>0. /\ hand \in [Letters -> ModelOrNone] /\ cached \in [Letters -> ModelOrNone]
      /\ embedding \in [Letters -> [status : {"pending", "embedded", "stale"}, by : ModelOrNone]]
  BY DEF EmbedInd, EmbedTypes, EmbedTypeOK
<1>1. CASE EmbedText(e)
  <2>1. With("embedded")' = With("embedded") /\ e \notin With("embedded")
    BY <1>1 DEF EmbedText, With
  <2>2. PICK m \in EmbedModels : /\ hand' = [hand EXCEPT ![e] = m]
                                 /\ cached' \in {cached, [cached EXCEPT ![e] = m]}
    BY <1>0, <1>1 DEF EmbedText, EmbedInd, EmbedTypes, ModelOrNone
  <2>3. EmbedTypes'
    BY <1>0, <1>1, <2>1, <2>2, EmbeddingAssumption
       DEF EmbedInd, EmbedTypes, EmbedTypeOK, EmbedText, ModelOrNone
  <2>4. HandIsMarked'
    BY <1>0, <1>1, <2>1, <2>2 DEF EmbedInd, HandIsMarked, EmbedText, With
  <2> QED BY <1>1, <2>1, <2>3, <2>4
          DEF EmbedInd, FollowsStored, StoredIsCurrent, VectorsKept, Without, EmbedText, Recorded
<1>2. CASE MarkEmbedded(e)
  <2>1. /\ embedding'[e] = [status |-> "embedded", by |-> hand[e]]
        /\ \A f \in Letters \ {e} : embedding'[f] = embedding[f]
    BY <1>0, <1>2 DEF MarkEmbedded
  <2>2. With("embedded")' = With("embedded") \cup {e}
    BY <2>1 DEF With
  <2>3. EmbedTypes'
    BY <1>0, <1>2, <2>1, <2>2 DEF EmbedInd, EmbedTypes, EmbedTypeOK, MarkEmbedded, With, ModelOrNone
  <2>4. FollowsStored' /\ StoredIsCurrent'
    BY <1>2, <2>1, <2>2
       DEF EmbedInd, EmbedTypes, EmbedTypeOK, FollowsStored, StoredIsCurrent, MarkEmbedded, With,
           Recorded
  <2>5. HandIsMarked' /\ VectorsKept'
    BY <1>2, <2>1, <2>2
       DEF EmbedInd, EmbedTypes, EmbedTypeOK, HandIsMarked, VectorsKept, MarkEmbedded,
           With, Without
  <2> QED BY <2>3, <2>4, <2>5 DEF EmbedInd
<1>3. CASE InsertVector(e)
  <2>1. PICK older \in {{}, {e} \X EmbedModels} : store' = (store \ older) \cup {<<e, hand[e]>>}
    BY <1>3 DEF InsertVector
  <2>2. /\ hand'[e] = NoEmbedModel /\ \A f \in Letters \ {e} : hand'[f] = hand[f]
        /\ hand' \in [Letters -> ModelOrNone] /\ hand[e] \in EmbedModels
    BY <1>0, <1>3 DEF InsertVector, ModelOrNone
  <2>3. EmbedTypes' /\ With("embedded")' = With("embedded")
    BY <1>3, <2>1, <2>2 DEF EmbedInd, EmbedTypes, EmbedTypeOK, InsertVector, With, ModelOrNone
  <2>4. \A f \in With("embedded") \ (inserting' \cup torn) :
            reset = "none" => <<f, embedding[f].by>> \in store'
    <3>1. TAKE f \in With("embedded") \ (inserting' \cup torn)
    <3>2. CASE f = e
      BY <1>3, <2>1, <3>2 DEF EmbedInd, HandIsMarked, InsertVector
    <3>3. CASE f # e
      BY <1>3, <2>1, <2>2, <3>3
         DEF EmbedInd, EmbedTypes, EmbedTypeOK, VectorsKept, Without, InsertVector
    <3> QED BY <3>2, <3>3
  <2>5. VectorsKept'
    BY <1>3, <2>3, <2>4 DEF VectorsKept, Without, InsertVector
  <2>6. HandIsMarked'
    BY <1>3, <2>2, <2>3 DEF EmbedInd, HandIsMarked, InsertVector, With
  <2> QED BY <1>3, <2>3, <2>5, <2>6
          DEF EmbedInd, FollowsStored, StoredIsCurrent, InsertVector, Recorded
<1>4. CASE InsertFails(e)
  <2>1. /\ hand'[e] = NoEmbedModel /\ \A f \in Letters \ {e} : hand'[f] = hand[f]
        /\ hand' \in [Letters -> ModelOrNone]
    BY <1>0, <1>4 DEF InsertFails, ModelOrNone
  <2>2. EmbedTypes' /\ With("embedded")' = With("embedded")
    BY <1>4, <2>1 DEF EmbedInd, EmbedTypes, EmbedTypeOK, InsertFails, With, ModelOrNone
  <2>3. HandIsMarked'
    BY <1>4, <2>1, <2>2 DEF EmbedInd, HandIsMarked, InsertFails, With
  <2> QED BY <1>4, <2>2, <2>3
          DEF EmbedInd, FollowsStored, StoredIsCurrent, VectorsKept, Without, InsertFails, Recorded
<1> QED BY <1>1, <1>2, <1>3, <1>4

\* The steps of a re-embedding.
LEMMA ReembedKeeps ==
    ASSUME EmbedInd, ClearAll \/ ResetAll \/ ReembedStale
    PROVE  EmbedInd'
<1> USE DEF configVars, pipeVars
<1>1. CASE ClearAll
  <2>1. With("embedded")' = With("embedded") /\ EmbedTypes'
    BY <1>1 DEF EmbedInd, EmbedTypes, EmbedTypeOK, ClearAll, With, ModelOrNone
  <2> QED BY <1>1, <2>1 DEF EmbedInd, FollowsStored, StoredIsCurrent, HandIsMarked, VectorsKept,
                            ClearAll, Recorded
<1>2. CASE ResetAll
  <2>1. CASE embedding' = [e \in Letters |-> [status |-> "pending", by |-> NoEmbedModel]]
    <3>1. With("embedded")' = {}
      BY <2>1 DEF With
    <3>2. EmbedTypes'
      BY <1>2, <2>1, <3>1 DEF EmbedInd, EmbedTypes, EmbedTypeOK, ResetAll, ModelOrNone
    <3> QED BY <1>2, <3>1, <3>2
            DEF EmbedInd, FollowsStored, StoredIsCurrent, HandIsMarked, VectorsKept, ResetAll,
                EmbedTypes, EmbedTypeOK
  <2>2. CASE /\ UNCHANGED embedding
             /\ torn' = torn \cup {e \in With("embedded") \ inserting : Without(e)}
    <3>1. With("embedded")' = With("embedded") /\ EmbedTypes'
      BY <1>2, <2>2 DEF EmbedInd, EmbedTypes, EmbedTypeOK, ResetAll, With, ModelOrNone
    <3> QED BY <1>2, <2>2, <3>1
            DEF EmbedInd, FollowsStored, StoredIsCurrent, HandIsMarked, VectorsKept, Without,
                ResetAll, Recorded
  <2> QED BY <1>2, <2>1, <2>2 DEF ResetAll
<1>3. CASE ReembedStale
  <2>1. /\ With("embedded")' = With("embedded") /\ EmbedTypeOK'
        /\ \A e \in Letters : embedding'[e].by = embedding[e].by
    BY <1>3, StatusSet DEF EmbedInd, EmbedTypes, EmbedTypeOK, ReembedStale, ModelOrNone
  <2>2. With("embedded") \subseteq Letters
    BY DEF With
  <2> QED BY <1>3, <2>1, <2>2
          DEF EmbedInd, EmbedTypes, FollowsStored, StoredIsCurrent,
              HandIsMarked, VectorsKept, Without, ReembedStale, Recorded
<1> QED BY <1>1, <1>2, <1>3

\* A stop, whatever the store keeps and whatever settings the next start is given.
LEMMA RebootKeeps == ASSUME EmbedInd, Reboot PROVE EmbedInd'
<1>1. With("embedded")' = With("embedded") /\ EmbedTypes'
  BY EmbeddingAssumption DEF EmbedInd, EmbedTypes, EmbedTypeOK, Reboot, With, ModelOrNone
<1>2. FollowsStored' /\ StoredIsCurrent' /\ HandIsMarked'
  BY <1>1 DEF EmbedInd, FollowsStored, StoredIsCurrent, HandIsMarked, Reboot, With
<1>3. VectorsKept'
  <2>1. SUFFICES ASSUME store' # {}, NEW e \in With("embedded") \ torn'
                 PROVE  <<e, embedding[e].by>> \in store'
    BY <1>1 DEF VectorsKept, Without, Reboot
  <2>2. reset = "none" /\ e \notin inserting \cup torn /\ e \notin LostBy(store') /\ store # {}
    BY <2>1 DEF EmbedInd, EmbedTypes, EmbedTypeOK, Reboot
  <2>3. <<e, embedding[e].by>> \in store
    BY <2>1, <2>2 DEF EmbedInd, VectorsKept, Without
  <2> QED BY <2>1, <2>2, <2>3 DEF LostBy
<1> QED BY <1>1, <1>2, <1>3 DEF EmbedInd

LEMMA EmbedKept == EmbedInd /\ [EmbedNext]_embedVars => EmbedInd'
<1> SUFFICES ASSUME EmbedInd, [EmbedNext]_embedVars PROVE EmbedInd'
  OBVIOUS
<1>1. CASE CheckStore \/ CheckModelChange \/ MarkAllStale
  BY <1>1, BootKeeps
<1>2. CASE \E e \in Letters : EmbedText(e) \/ MarkEmbedded(e) \/ InsertVector(e) \/ InsertFails(e)
  BY <1>2, PipelineKeeps
<1>3. CASE ClearAll \/ ResetAll \/ ReembedStale
  BY <1>3, ReembedKeeps
<1>4. CASE Reboot
  BY <1>4, RebootKeeps
<1>5. CASE UNCHANGED embedVars
  <2>1. EmbedTypes' /\ With("embedded")' = With("embedded")
    BY <1>5 DEF embedVars, configVars, pipeVars, EmbedInd, EmbedTypes, EmbedTypeOK, With, ModelOrNone
  <2> QED BY <1>5, <2>1 DEF embedVars, configVars, pipeVars, EmbedInd, FollowsStored,
                            StoredIsCurrent, HandIsMarked, VectorsKept, Without, Recorded
<1> QED BY <1>1, <1>2, <1>3, <1>4, <1>5 DEF EmbedNext

\* Whatever the starts find and wherever they fail, mail that counts as embedded has
\* a vector of the model the provider embeds with, but for the mail that the histories
\* missed and torn name.
THEOREM EmbeddedIsTrue == EmbedSpec => []EmbedInv
<1>1. EmbedInd => EmbedInv
  BY DEF EmbedInd, EmbedInv, EmbedTypes, FollowsStored, StoredIsCurrent, VectorsKept,
         EmbeddedByCurrent, EmbeddedHasVector, Recorded
<1> QED BY <1>1, EmbedInitially, EmbedKept, PTL DEF EmbedSpec

-----------------------------------------------------------------------------
(* The vector index *)

\* That the vector store keeps one document for each email, and that index
\* and documents agree, for any number of pipelines, emails and calls.

\* A set of documents in which no email of a pipeline occurs twice.
Single(docs) == \A v, w \in docs : v[1] = w[1] /\ v[1] # Probe => v = w

InsertRecords ==
    [pc : {"idle", "reset", "insert", "open", "fill"}, docs : SUBSET Vectors, save : BOOLEAN,
     json : SUBSET Vectors]
CountRecords == [calls : 0..MaxCalls, stops : Nat, faults : Nat, removals : Nat]

IndexTypes ==
    /\ index \subseteq Vectors /\ documents \subseteq Vectors
    /\ sidecar \in (SUBSET Vectors) \cup {Torn}
    /\ batches \in Nat
    /\ inserts \in [Pipelines -> InsertRecords]
    /\ indexCounts \in CountRecords

\* What OnePerMessage rests on: every set that may become the documents is
\* single, the file's, those serialised and not yet written, and each batch.
AllSingle ==
    /\ Single(documents) /\ Single(sidecar)
    /\ \A p \in Pipelines : Single(inserts[p].docs) /\ Single(inserts[p].json)

IndexInd == IndexTypes /\ AllSingle /\ IndexMatchesDocuments

\* A part of a single set is single, the empty set and a file that does not parse are.
LEMMA SingleParts ==
    /\ \A docs : \A part \in SUBSET docs : Single(docs) => Single(part)
    /\ Single({}) /\ Single(Torn)
BY DEF Single, Torn

\* The documents without the older vectors of a batch, and with the batch, are
\* single again: an email of the batch has no vector left among the others.
LEMMA ReplacedSingle ==
    ASSUME NEW docs, Single(docs), Single(documents), NEW old \in Older(docs)
    PROVE  Single((documents \ old) \cup docs)
<1> DEFINE same == {v \in documents : \E d \in docs : d[1] = v[1]}
<1>1. old \in SUBSET same /\ {v[1] : v \in old} = {v[1] : v \in same}
  BY DEF Older
<1>2. ASSUME NEW v \in documents \ old, NEW d \in docs, v[1] = d[1], v[1] # Probe
      PROVE  FALSE
  <2>1. v \in same
    BY <1>2
  <2>2. PICK w \in old : w[1] = v[1]
    BY <1>1, <2>1
  <2>3. w \in documents
    BY <1>1, <2>2
  <2> QED BY <1>2, <2>2, <2>3 DEF Single
<1> QED BY <1>2 DEF Single

\* The documents of a start: those of the file, or none.
LEMMA LoadedDocuments ==
    ASSUME sidecar' \in (SUBSET Vectors) \cup {Torn}, Single(sidecar')
    PROVE  Loaded \subseteq Vectors /\ Single(Loaded)
BY SingleParts DEF Loaded

LEMMA IndexInitially == IndexInit => IndexInd
<1> SUFFICES ASSUME IndexInit PROVE IndexInd
  OBVIOUS
<1>1. inserts \in [Pipelines -> InsertRecords] /\ sidecar = {} /\ batches = 0
  BY DEF IndexInit, InsertRecords, NoInsert
<1>2. indexCounts \in CountRecords
  BY IndexAssumption DEF IndexInit, CountRecords
<1>3. AllSingle
  BY SingleParts DEF IndexInit, AllSingle, NoInsert
<1> QED BY <1>1, <1>2, <1>3 DEF IndexInit, IndexInd, IndexTypes, IndexMatchesDocuments

\* A pipeline takes up a batch: one vector for each of its emails.
LEMMA CountKeeps ==
    ASSUME IndexInd, NEW p \in Pipelines, NEW mails \in SUBSET Messages, CountBatch(p, mails)
    PROVE  IndexInd'
<1> DEFINE docs == mails \X {indexCounts.calls + 1}
<1>1. indexCounts.calls \in Nat /\ indexCounts.calls < MaxCalls /\ MaxCalls \in Nat
  BY IndexAssumption DEF IndexInd, IndexTypes, CountRecords, CountBatch, Call
<1>2. docs \subseteq Vectors
  BY <1>1 DEF Vectors
<1>3. Single(docs)
  BY DEF Single
<1>4. IndexTypes'
  <2>1. inserts' \in [Pipelines -> InsertRecords]
    BY <1>2 DEF IndexInd, IndexTypes, InsertRecords, CountBatch, ShouldWrite
  <2>2. indexCounts' \in CountRecords
    BY <1>1 DEF IndexInd, IndexTypes, CountRecords, CountBatch, Call
  <2> QED BY <2>1, <2>2 DEF IndexInd, IndexTypes, CountBatch
<1>5. AllSingle'
  BY <1>3, SingleParts DEF IndexInd, IndexTypes, AllSingle, InsertRecords, CountBatch
<1> QED BY <1>4, <1>5 DEF IndexInd, IndexMatchesDocuments, CountBatch

\* Steps of a pipeline that change neither documents nor index.
LEMMA WritingKeeps ==
    ASSUME IndexInd, NEW p \in Pipelines,
           ResetCounter(p) \/ OpenSidecar(p) \/ FillSidecar(p) \/ WriteFails(p)
    PROVE  IndexInd'
<1>1. CASE ResetCounter(p)
  BY <1>1 DEF IndexInd, IndexTypes, InsertRecords, AllSingle, IndexMatchesDocuments, ResetCounter
<1>2. CASE OpenSidecar(p)
  BY <1>2, SingleParts
     DEF IndexInd, IndexTypes, InsertRecords, AllSingle, IndexMatchesDocuments, OpenSidecar
<1>3. ASSUME Return(p)
      PROVE  /\ inserts' \in [Pipelines -> InsertRecords]
             /\ \A q \in Pipelines : Single(inserts'[q].docs) /\ Single(inserts'[q].json)
             /\ IndexMatchesDocuments'
  BY <1>3, SingleParts
     DEF IndexInd, IndexTypes, InsertRecords, AllSingle, IndexMatchesDocuments, Return, NoInsert
<1>4. CASE FillSidecar(p)
  <2>1. sidecar' \in (SUBSET Vectors) \cup {Torn} /\ Single(sidecar')
    BY <1>4, SingleParts DEF IndexInd, IndexTypes, InsertRecords, AllSingle, FillSidecar
  <2> QED BY <1>3, <1>4, <2>1 DEF IndexInd, IndexTypes, AllSingle, FillSidecar, Return
<1>5. CASE WriteFails(p)
  <2>1. indexCounts' \in CountRecords
    BY <1>5 DEF IndexInd, IndexTypes, CountRecords, WriteFails, FaultOnly
  <2> QED BY <1>3, <1>5, <2>1 DEF IndexInd, IndexTypes, AllSingle, WriteFails, Return
<1> QED BY <1>1, <1>2, <1>4, <1>5

\* A batch goes in, in whatever part the index lets it.
LEMMA InsertKeeps ==
    ASSUME IndexInd, NEW p \in Pipelines, InsertBatch(p)
    PROVE  IndexInd'
<1> DEFINE docs == inserts[p].docs
<1>1. docs \subseteq Vectors /\ Single(docs)
  BY DEF IndexInd, IndexTypes, InsertRecords, AllSingle
<1>2. PICK old \in Older(docs) :
           \E kept \in SUBSET old, put \in SUBSET docs : Replace(p, old, kept, put)
  BY DEF InsertBatch
<1>3. PICK kept \in SUBSET old, put \in SUBSET docs : Replace(p, old, kept, put)
  BY <1>2
<1>4. old \subseteq documents
  BY DEF Older
<1>5. documents' \subseteq Vectors /\ Single(documents')
  <2>1. Single((documents \ old) \cup docs)
    BY <1>1, ReplacedSingle DEF IndexInd, AllSingle
  <2>2. documents' \subseteq (documents \ old) \cup docs
    BY <1>3 DEF Replace
  <2>3. Single(documents')
    BY <2>1, <2>2, SingleParts
  <2> QED BY <1>1, <2>2, <2>3 DEF IndexInd, IndexTypes
<1>6. inserts' \in [Pipelines -> InsertRecords]
  <2>1. inserts \in [Pipelines -> InsertRecords] /\ NoInsert \in InsertRecords
    BY DEF IndexInd, IndexTypes, InsertRecords, NoInsert
  <2>2. CASE inserts' = [inserts EXCEPT ![p] = NoInsert]
    BY <2>1, <2>2
  <2>3. CASE inserts' = [inserts EXCEPT ![p].pc = "open", ![p].json = documents']
    BY <1>5, <2>1, <2>3 DEF InsertRecords
  <2> QED BY <1>3, <2>2, <2>3 DEF Replace
<1>7. \A q \in Pipelines : Single(inserts'[q].docs) /\ Single(inserts'[q].json)
  BY <1>3, <1>5, SingleParts
     DEF IndexInd, IndexTypes, AllSingle, InsertRecords, NoInsert, Replace
<1>8. indexCounts' \in CountRecords
  BY <1>3 DEF IndexInd, IndexTypes, CountRecords, FaultOnly, Replace
<1>9. IndexMatchesDocuments'
  BY <1>3, <1>4 DEF IndexInd, IndexMatchesDocuments, Replace
<1> QED BY <1>1, <1>3, <1>5, <1>6, <1>7, <1>8, <1>9
        DEF IndexInd, IndexTypes, AllSingle, InsertBatch, Replace

\* Single insertions, removals and the clearing, and the file they write.
LEMMA LockedKeeps ==
    ASSUME IndexInd, InsertProbe \/ (\E v \in documents : RemoveVector(v)) \/ ClearVectors
    PROVE  IndexInd'
<1>1. ASSUME SaveSidecar, documents' \subseteq Vectors, Single(documents')
      PROVE  sidecar' \in (SUBSET Vectors) \cup {Torn} /\ Single(sidecar')
  BY <1>1, SingleParts DEF SaveSidecar
<1>2. CASE InsertProbe
  <2>1. <<Probe, indexCounts.calls + 1>> \in Vectors /\ indexCounts' \in CountRecords
    BY <1>2, IndexAssumption
       DEF IndexInd, IndexTypes, CountRecords, InsertProbe, Call, Vectors
  <2>2. documents' \subseteq Vectors /\ index' \subseteq Vectors
    BY <1>2, <2>1 DEF IndexInd, IndexTypes, InsertProbe
  <2>3. Single(documents')
    BY <1>2 DEF IndexInd, AllSingle, Single, InsertProbe
  <2>4. IndexMatchesDocuments'
    BY <1>2 DEF IndexInd, IndexMatchesDocuments, InsertProbe
  <2> QED BY <1>1, <1>2, <2>1, <2>2, <2>3, <2>4
          DEF IndexInd, IndexTypes, AllSingle, InsertProbe
<1>3. ASSUME NEW v \in documents, RemoveVector(v) PROVE IndexInd'
  <2>1. documents' \subseteq Vectors /\ index' \subseteq Vectors /\ Single(documents')
    BY <1>3, SingleParts DEF IndexInd, IndexTypes, AllSingle, RemoveVector
  <2>2. sidecar' \in (SUBSET Vectors) \cup {Torn} /\ Single(sidecar')
    BY <1>1, <1>3, <2>1 DEF IndexInd, IndexTypes, AllSingle, RemoveVector
  <2>3. indexCounts' \in CountRecords
    BY <1>3 DEF IndexInd, IndexTypes, CountRecords, RemoveVector, Removal, FaultOnly
  <2>4. IndexMatchesDocuments'
    BY <1>3 DEF IndexInd, IndexMatchesDocuments, RemoveVector
  <2> QED BY <1>3, <2>1, <2>2, <2>3, <2>4 DEF IndexInd, IndexTypes, AllSingle, RemoveVector
<1>4. CASE ClearVectors
  <2>1. documents' \subseteq Vectors /\ index' \subseteq Vectors /\ Single(documents')
    BY <1>4, SingleParts DEF IndexInd, IndexTypes, ClearVectors
  <2>2. indexCounts' \in CountRecords
    BY <1>4 DEF IndexInd, IndexTypes, CountRecords, ClearVectors, Removal
  <2>3. IndexMatchesDocuments'
    BY <1>4 DEF IndexInd, IndexMatchesDocuments, ClearVectors
  <2> QED BY <1>1, <1>4, <2>1, <2>2, <2>3 DEF IndexInd, IndexTypes, AllSingle, ClearVectors
<1> QED BY <1>2, <1>3, <1>4

\* A stop: whatever the file holds becomes the documents.
LEMMA StopKeeps == ASSUME IndexInd, StopAndStart PROVE IndexInd'
<1>1. sidecar' \in (SUBSET Vectors) \cup {Torn} /\ Single(sidecar')
  BY SingleParts DEF IndexInd, IndexTypes, AllSingle, StopAndStart
<1>2. documents' \subseteq Vectors /\ Single(documents')
  BY <1>1, LoadedDocuments DEF StopAndStart
<1>3. /\ inserts' \in [Pipelines -> InsertRecords]
      /\ \A p \in Pipelines : Single(inserts'[p].docs) /\ Single(inserts'[p].json)
  BY SingleParts DEF InsertRecords, NoInsert, StopAndStart
<1>4. indexCounts' \in CountRecords
  BY DEF IndexInd, IndexTypes, CountRecords, StopAndStart
<1>5. IndexMatchesDocuments'
  BY DEF IndexMatchesDocuments, StopAndStart
<1> QED BY <1>1, <1>2, <1>3, <1>4, <1>5 DEF IndexInd, IndexTypes, AllSingle, StopAndStart

\* Every step of the specification, and a stutter, keeps the invariant.
LEMMA IndexKept == IndexInd /\ [IndexNext]_indexVars => IndexInd'
<1>1. SUFFICES ASSUME IndexInd, [IndexNext]_indexVars PROVE IndexInd'
  OBVIOUS
<1>2. CASE \E p \in Pipelines : \E mails \in SUBSET Messages : CountBatch(p, mails)
  BY <1>1, <1>2, CountKeeps
<1>3. CASE \E p \in Pipelines :
              ResetCounter(p) \/ OpenSidecar(p) \/ FillSidecar(p) \/ WriteFails(p)
  BY <1>1, <1>3, WritingKeeps
<1>4. CASE \E p \in Pipelines : InsertBatch(p)
  BY <1>1, <1>4, InsertKeeps
<1>5. CASE InsertProbe \/ (\E v \in documents : RemoveVector(v)) \/ ClearVectors
  BY <1>1, <1>5, LockedKeeps
<1>6. CASE StopAndStart
  BY <1>1, <1>6, StopKeeps
<1>7. CASE UNCHANGED indexVars
  BY <1>1, <1>7
     DEF indexVars, IndexInd, IndexTypes, AllSingle, IndexMatchesDocuments
<1> QED BY <1>1, <1>2, <1>3, <1>4, <1>5, <1>6, <1>7 DEF IndexNext

\* The invariant holds in every reachable state of the vector store.
THEOREM IndexInvariant == IndexSpec => []IndexInd
BY IndexInitially, IndexKept, PTL DEF IndexSpec

\* batch_insert never leaves two documents of one email, whatever batches run at
\* once, and no start loads two, whichever of them wrote the file.
THEOREM OneDocumentPerMessage == IndexSpec => []OnePerMessage
<1>1. IndexInd => OnePerMessage
  BY DEF IndexInd, AllSingle, Single, OnePerMessage
<1> QED BY <1>1, IndexInvariant, PTL

\* Every vector that index and documents do not share, and every answered insertion
\* without its document, was left so by a stop or by an error of the index.
THEOREM OnlyStopsAndErrorsDisagree == IndexSpec => []IndexMatchesDocuments
<1>1. IndexInd => IndexMatchesDocuments
  BY DEF IndexInd
<1> QED BY <1>1, IndexInvariant, PTL

-----------------------------------------------------------------------------
\* What a stop may lose.

\* A batch that a stop would lose now, or may once it is in.
Unsaved(b) == \E v \in documents \ sidecar : Batch(v) = b
Running(b) == \E p \in Pipelines : \E v \in inserts[p].docs : Batch(v) = b

Due == {b \in 1..MaxCalls : b \notin beside /\ (Unsaved(b) \/ Running(b))}

Saving == \E p \in Pipelines : inserts[p].save

\* The batches since the last that wrote, and an interval for each failure; a
\* batch that is about to write has set the counter back.
Allowed ==
    IF Saving THEN Interval * (indexCounts.faults + 1)
              ELSE batches + Interval * indexCounts.faults

IdleIsEmpty == \A p \in Pipelines : inserts[p].pc = "idle" => inserts[p] = NoInsert

OneBatch == \A p \in Pipelines : \A v, w \in inserts[p].docs : Batch(v) = Batch(w)

OverlapIsBeside ==
    \A p, q \in Pipelines : p # q /\ inserts[q].pc # "idle" =>
        \A v \in inserts[p].docs : Batch(v) \in beside

\* What a pipeline is about to write lacks only batches that ran beside it.
WritesAll ==
    \A p \in Pipelines : inserts[p].pc \in {"open", "fill"} =>
        \A v \in documents \ inserts[p].json : Batch(v) \in beside

\* The counter passes the interval only until a batch that saves sets it back.
CounterTurns ==
    /\ \A p \in Pipelines : inserts[p].pc = "reset" => inserts[p].save
    /\ batches >= Interval => \E p \in Pipelines : inserts[p].pc = "reset"

\* A batch that does not save, and runs alone, has been counted.
Counted ==
    \A p \in Pipelines : ~inserts[p].save =>
        \A v \in inserts[p].docs : Batch(v) \in beside \/ batches >= 1

LossParts == IdleIsEmpty /\ OneBatch /\ OverlapIsBeside /\ WritesAll /\ CounterTurns /\ Counted

DueBounded == sidecar # Torn => Cardinality(Due) <= Allowed

LossInd == LossParts /\ DueBounded

\* Sets of batches and how many they are.
LEMMA Fewer ==
    ASSUME NEW all, IsFiniteSet(all), NEW some
    PROVE  /\ Cardinality(all) \in Nat
           /\ some \subseteq all => Cardinality(some) \in Nat /\ Cardinality(some) <= Cardinality(all)
           /\ \A b : some \subseteq all \cup {b} =>
                 Cardinality(some) \in Nat /\ Cardinality(some) <= Cardinality(all) + 1
<1>1. Cardinality(all) \in Nat
  BY FS_CardinalityType
<1>2. ASSUME some \subseteq all
      PROVE  Cardinality(some) \in Nat /\ Cardinality(some) <= Cardinality(all)
  BY <1>2, FS_Subset, FS_CardinalityType
<1>3. ASSUME NEW b, some \subseteq all \cup {b}
      PROVE  Cardinality(some) \in Nat /\ Cardinality(some) <= Cardinality(all) + 1
  <2>1. /\ IsFiniteSet(all \cup {b})
        /\ Cardinality(all \cup {b}) = Cardinality(all) \/ Cardinality(all \cup {b}) = Cardinality(all) + 1
    BY FS_AddElement
  <2>2. Cardinality(some) \in Nat /\ Cardinality(some) <= Cardinality(all \cup {b})
    BY <1>3, <2>1, FS_Subset, FS_CardinalityType
  <2> QED BY <1>1, <2>1, <2>2
<1> QED BY <1>1, <1>2, <1>3

LEMMA DueFinite == IsFiniteSet(Due) /\ Cardinality(Due) \in Nat
<1>1. IsFiniteSet(1..MaxCalls)
  BY IndexAssumption, FS_Interval
<1>2. Due \subseteq 1..MaxCalls
  BY DEF Due
<1> QED BY <1>1, <1>2, FS_Subset, FS_CardinalityType

\* The interval, as often as something failed.
LEMMA Shares ==
    \A n \in Nat : /\ Interval * n \in Nat
                   /\ Interval * (n + 1) = Interval * n + Interval
                   /\ Interval \in Nat /\ Interval >= 1
BY IndexAssumption

\* What is allowed never shrinks while nobody comes to save or to stop saving,
\* and with a failure it grows by an interval, whoever saves.
LEMMA AllowedIs ==
    ASSUME IndexInd, LossParts
    PROVE  /\ Allowed \in Nat
           /\ ~Saving => batches < Interval
           /\ Allowed <= Interval * (indexCounts.faults + 1)
           /\ Allowed >= Interval * indexCounts.faults
<1>1. batches \in Nat /\ indexCounts.faults \in Nat
  BY DEF IndexInd, IndexTypes, CountRecords
<1>2. Interval * indexCounts.faults \in Nat /\ Interval * (indexCounts.faults + 1) \in Nat
      /\ Interval * (indexCounts.faults + 1) = Interval * indexCounts.faults + Interval
      /\ Interval \in Nat
  <2> DEFINE f == indexCounts.faults
  <2>1. f \in Nat
    BY <1>1
  <2> HIDE DEF f
  <2>2. Interval * f \in Nat /\ Interval * (f + 1) \in Nat
        /\ Interval * (f + 1) = Interval * f + Interval /\ Interval \in Nat
    BY <2>1, Shares, IndexAssumption
  <2> QED BY <2>2 DEF f
<1>3. ~Saving => batches < Interval
  BY <1>1, <1>2 DEF LossParts, CounterTurns, Saving
<1> HIDE DEF Saving
<1> QED BY <1>1, <1>2, <1>3 DEF Allowed

\* The batches that run are as few as are allowed: more than one at once are all
\* beside another.
LEMMA RunningFew ==
    ASSUME IndexInd, LossParts, NEW some, some \subseteq {b \in 1..MaxCalls : b \notin beside /\ Running(b)}
    PROVE  Cardinality(some) \in Nat /\ Cardinality(some) <= Allowed
<1>0. indexCounts.faults \in Nat /\ batches \in Nat
  BY DEF IndexInd, IndexTypes, CountRecords
<1>1. CASE some = {}
  BY <1>1, FS_EmptySet, AllowedIs
<1>2. CASE some # {}
  <2>1. PICK b \in some : TRUE
    BY <1>2
  <2>2. PICK p \in Pipelines : \E v \in inserts[p].docs : Batch(v) = b
    BY <2>1 DEF Running
  <2>3. PICK v \in inserts[p].docs : Batch(v) = b
    BY <2>2
  <2>4. some \subseteq {} \cup {b}
    <3> SUFFICES ASSUME NEW c \in some PROVE c = b
      OBVIOUS
    <3>1. PICK q \in Pipelines : \E w \in inserts[q].docs : Batch(w) = c
      BY DEF Running
    <3>2. PICK w \in inserts[q].docs : Batch(w) = c
      BY <3>1
    <3>3. inserts[q].pc # "idle"
      BY <3>2 DEF LossParts, IdleIsEmpty, NoInsert
    <3>4. q = p
      BY <2>1, <2>3, <3>3 DEF LossParts, OverlapIsBeside
    <3> QED BY <2>3, <3>2, <3>4 DEF LossParts, OneBatch
  <2>5. Cardinality(some) \in Nat /\ Cardinality(some) <= 1
    BY <2>4, Fewer, FS_EmptySet
  <2>6. Allowed >= 1
    <3>1. Interval * indexCounts.faults \in Nat /\ Interval >= 1
          /\ Interval * (indexCounts.faults + 1) = Interval * indexCounts.faults + Interval
      BY <1>0, Shares
    <3>2. CASE inserts[p].save
      BY <3>1, <3>2, IndexAssumption DEF Allowed, Saving
    <3>3. CASE ~inserts[p].save
      <4>1. batches >= 1
        BY <2>1, <2>3, <3>3 DEF LossParts, Counted
      <4> QED BY <1>0, <3>1, <4>1, IndexAssumption DEF Allowed
    <3> QED BY <3>2, <3>3
  <2> QED BY <2>5, <2>6, AllowedIs
<1> QED BY <1>1, <1>2

LEMMA LossInitially == IndexInit => LossInd
<1> SUFFICES ASSUME IndexInit PROVE LossInd
  OBVIOUS
<1>1. LossParts
  BY IndexAssumption
     DEF IndexInit, LossParts, IdleIsEmpty, OneBatch, OverlapIsBeside, WritesAll, CounterTurns, Counted, NoInsert
<1>2. Due = {}
  BY DEF IndexInit, Due, Unsaved, Running, NoInsert
<1>3. IndexInd
  BY IndexInitially
<1>4. Allowed \in Nat
  BY <1>1, <1>3, AllowedIs
<1> QED BY <1>1, <1>2, <1>4, FS_EmptySet DEF LossInd, DueBounded

\* What is due stays within what is allowed while it does not grow.
LEMMA StaysBounded ==
    ASSUME IndexInd, LossInd, IndexInd', LossParts', sidecar # Torn, Due' \subseteq Due,
           \/ indexCounts' = indexCounts /\ batches' = batches /\ Saving' = Saving
           \/ Saving /\ Saving' /\ indexCounts.faults' = indexCounts.faults
           \/ indexCounts.faults' = indexCounts.faults + 1
    PROVE  DueBounded'
<1>1. Cardinality(Due') \in Nat /\ Cardinality(Due') <= Cardinality(Due)
  BY DueFinite, Fewer
<1>2. Cardinality(Due) <= Allowed
  BY DEF LossInd, DueBounded
<1>3. /\ Allowed \in Nat /\ Allowed <= Interval * (indexCounts.faults + 1)
      /\ Cardinality(Due) \in Nat
  BY AllowedIs, DueFinite DEF LossInd
<1>4. indexCounts.faults \in Nat /\ indexCounts.faults' \in Nat /\ batches' \in Nat
  BY DEF IndexInd, IndexTypes, CountRecords
<1>5. Allowed' \in Nat
  <2> DEFINE f == indexCounts.faults'
  <2>1. f \in Nat
    BY <1>4
  <2> HIDE DEF f
  <2>2. Interval * f \in Nat /\ Interval * (f + 1) \in Nat
    BY <2>1, Shares, IndexAssumption
  <2> QED BY <1>4, <2>2 DEF f, Allowed
<1>6. Allowed <= Allowed'
  <2>1. CASE indexCounts' = indexCounts /\ batches' = batches /\ Saving' = Saving
    BY <1>3, <2>1 DEF Allowed
  <2>2. CASE Saving /\ Saving' /\ indexCounts.faults' = indexCounts.faults
    BY <1>3, <2>2 DEF Allowed
  <2>3. CASE indexCounts.faults' = indexCounts.faults + 1
    <3> DEFINE share == Interval * (indexCounts.faults + 1)
    <3>1. share \in Nat /\ Interval * (indexCounts.faults' + 1) = share + Interval /\ Interval \in Nat
      <4> DEFINE f == indexCounts.faults + 1
      <4>1. f \in Nat /\ f = indexCounts.faults'
        BY <1>4, <2>3
      <4> HIDE DEF f
      <4>2. Interval * f \in Nat /\ Interval * (f + 1) = Interval * f + Interval /\ Interval \in Nat
        BY <4>1, Shares
      <4> QED BY <4>1, <4>2, <2>3 DEF f
    <3>2. Interval * indexCounts.faults' = share
      BY <2>3
    <3>3. Allowed <= share
      BY <1>3
    <3> HIDE DEF share
    <3>4. Allowed' >= share
      BY <1>4, <3>1, <3>2 DEF Allowed
    <3> QED BY <1>3, <1>5, <3>1, <3>3, <3>4
  <2> QED BY <2>1, <2>2, <2>3
<1> QED BY <1>1, <1>2, <1>3, <1>5, <1>6 DEF DueBounded

\* A batch begins.  Beside another it is let off, and alone it is counted.
LEMMA CountLoses ==
    ASSUME IndexInd, LossInd, IndexInd', NEW p \in Pipelines, NEW mails \in SUBSET Messages, CountBatch(p, mails)
    PROVE  LossInd'
<1> DEFINE k == indexCounts.calls + 1
<1>1. /\ inserts[p] = NoInsert /\ batches \in Nat /\ Interval \in Nat /\ Interval >= 1
      /\ inserts \in [Pipelines -> InsertRecords]
  BY IndexAssumption DEF IndexInd, IndexTypes, LossInd, LossParts, IdleIsEmpty, CountBatch
<1>2. /\ batches' = batches + 1 /\ inserts'[p].save = (batches + 1 >= Interval)
      /\ inserts'[p].pc = (IF batches + 1 >= Interval THEN "reset" ELSE "insert")
      /\ \A v \in inserts'[p].docs : Batch(v) = k
      /\ \A q \in Pipelines \ {p} : inserts'[q] = inserts[q]
      /\ inserts' \in [Pipelines -> InsertRecords]
  BY <1>1 DEF IndexInd, IndexTypes, CountBatch, ShouldWrite, Batch
<1>3. /\ beside \subseteq beside'
      /\ Busy # {} => k \in beside' /\ \A q \in Busy : \A v \in inserts[q].docs : Batch(v) \in beside'
  BY DEF CountBatch, BatchesOf
<1>4. \A q \in Pipelines \ {p} : inserts[q].pc # "idle" => q \in Busy
  BY DEF Busy
<1>5. \A q \in Pipelines \ {p} : q \notin Busy => inserts[q].docs = {} /\ inserts[q].pc = "idle"
  BY DEF Busy, LossInd, LossParts, IdleIsEmpty, NoInsert
<1>6. UNCHANGED <<index, documents, sidecar, answered, astray>> /\ indexCounts'.faults = indexCounts.faults
  BY DEF CountBatch, Call, IndexInd, IndexTypes, CountRecords
<1>7. LossParts'
  <2>1. IdleIsEmpty' /\ OneBatch'
    BY <1>2 DEF LossInd, LossParts, IdleIsEmpty, OneBatch
  <2>2. OverlapIsBeside'
    <3> SUFFICES ASSUME NEW q \in Pipelines, NEW r \in Pipelines, q # r, inserts'[r].pc # "idle",
                        NEW v \in inserts'[q].docs
                 PROVE  Batch(v) \in beside'
      BY DEF OverlapIsBeside
    <3>1. CASE q = p
      BY <3>1, <1>2, <1>3, <1>4
    <3>2. CASE q # p
      BY <3>2, <1>2, <1>3, <1>5
    <3> QED BY <3>1, <3>2
  <2>3. WritesAll'
    BY <1>2, <1>3, <1>6 DEF LossInd, LossParts, WritesAll
  <2>4. CounterTurns'
    BY <1>1, <1>2 DEF LossInd, LossParts, CounterTurns
  <2>5. Counted'
    BY <1>1, <1>2 DEF Counted
  <2> QED BY <2>1, <2>2, <2>3, <2>4, <2>5 DEF LossParts
<1>8. ASSUME sidecar # Torn PROVE Cardinality(Due') <= Allowed'
  <2>1. \A b \in Due' : b \in Due \/ (b = k /\ Busy = {})
    <3> SUFFICES ASSUME NEW b \in Due' PROVE b \in Due \/ (b = k /\ Busy = {})
      OBVIOUS
    <3>1. b \in 1..MaxCalls /\ b \notin beside' /\ b \notin beside /\ (Unsaved(b)' \/ Running(b)')
      BY <1>3 DEF Due
    <3>2. CASE Unsaved(b)'
      BY <3>1, <3>2, <1>6 DEF Due, Unsaved
    <3>3. CASE Running(b)'
      <4>1. PICK q \in Pipelines : \E v \in inserts'[q].docs : Batch(v) = b
        BY <3>3 DEF Running
      <4>2. CASE q = p
        BY <4>1, <4>2, <1>2, <1>3, <3>1
      <4>3. CASE q # p
        BY <4>1, <4>3, <1>2, <3>1 DEF Due, Running
      <4> QED BY <4>2, <4>3
    <3> QED BY <3>1, <3>2, <3>3
  <2>2. /\ Cardinality(Due) \in Nat /\ Cardinality(Due) <= Allowed /\ Allowed \in Nat
        /\ Saving \/ batches < Interval
    BY <1>8, DueFinite, AllowedIs DEF LossInd, DueBounded
  <2>3. Saving => Busy # {} /\ Saving'
    <3> SUFFICES ASSUME NEW q \in Pipelines, inserts[q].save PROVE Busy # {} /\ Saving'
      BY DEF Saving
    <3>1. q # p /\ inserts[q].pc # "idle"
      BY <1>1 DEF LossInd, LossParts, IdleIsEmpty, NoInsert
    <3> QED BY <3>1, <1>2 DEF Busy, Saving
  <2>4. Saving' => Saving \/ batches + 1 >= Interval
    BY <1>2 DEF Saving
  <2> DEFINE f == indexCounts.faults
  <2>5. f \in Nat /\ f = indexCounts.faults'
    BY <1>6 DEF IndexInd, IndexTypes, CountRecords
  <2> HIDE DEF f
  <2>6. Interval * f \in Nat /\ Interval * (f + 1) = Interval * f + Interval
    BY <2>5, Shares
  <2>7. /\ Saving => Allowed = Interval * f + Interval
        /\ ~Saving => Allowed = batches + Interval * f
        /\ Saving' => Allowed' = Interval * f + Interval
        /\ ~Saving' => Allowed' = batches + 1 + Interval * f
    BY <2>5, <2>6, <1>1, <1>2 DEF Allowed, f
  <2>8. CASE Busy # {}
    <3>1. Cardinality(Due') \in Nat /\ Cardinality(Due') <= Cardinality(Due)
      BY <2>1, <2>8, DueFinite, Fewer
    <3> QED BY <3>1, <2>2, <2>3, <2>6, <2>7, <1>1
  <2>9. CASE Busy = {}
    <3>0. Due' \subseteq Due \cup {k}
      BY <2>1
    <3>1. Cardinality(Due') \in Nat /\ Cardinality(Due') <= Cardinality(Due) + 1
      BY <3>0, DueFinite, Fewer
    <3>2. ~Saving
      BY <2>3, <2>9
    <3> QED BY <3>1, <3>2, <2>2, <2>6, <2>7, <1>1
  <2> QED BY <2>8, <2>9
<1> QED BY <1>6, <1>7, <1>8 DEF LossInd, DueBounded

\* The counter is set back; whoever else was at it runs beside this batch.
LEMMA ResetLoses ==
    ASSUME IndexInd, LossInd, IndexInd', NEW p \in Pipelines, ResetCounter(p) PROVE LossInd'
<1>1. /\ inserts \in [Pipelines -> InsertRecords] /\ inserts[p].save /\ inserts[p].pc = "reset"
      /\ batches' = 0 /\ inserts' = [inserts EXCEPT ![p].pc = "insert"]
      /\ UNCHANGED <<index, documents, sidecar, answered, astray, beside, indexCounts>>
  BY DEF IndexInd, IndexTypes, LossInd, LossParts, CounterTurns, ResetCounter
<1>2. /\ inserts'[p].pc = "insert" /\ inserts'[p].save /\ inserts'[p].docs = inserts[p].docs
      /\ \A q \in Pipelines \ {p} : inserts'[q] = inserts[q]
  BY <1>1 DEF InsertRecords
<1>3. \A q \in Pipelines : inserts'[q].docs = inserts[q].docs /\ inserts'[q].save = inserts[q].save
  BY <1>1, <1>2
<1>4. LossParts'
  <2>1. IdleIsEmpty' /\ OneBatch'
    BY <1>2, <1>3 DEF LossInd, LossParts, IdleIsEmpty, OneBatch
  <2>2. OverlapIsBeside' /\ WritesAll'
    BY <1>1, <1>2, <1>3 DEF LossInd, LossParts, OverlapIsBeside, WritesAll
  <2>3. CounterTurns'
    BY <1>1, <1>2, IndexAssumption DEF LossInd, LossParts, CounterTurns
  <2>4. Counted'
    BY <1>1, <1>2, <1>3 DEF LossInd, LossParts, OverlapIsBeside, Counted
  <2> QED BY <2>1, <2>2, <2>3, <2>4 DEF LossParts
<1>5. Due' \subseteq Due
  BY <1>1, <1>3 DEF Due, Unsaved, Running
<1>6. Saving /\ Saving'
  BY <1>1, <1>2 DEF Saving
<1>7. sidecar # Torn => DueBounded'
  BY <1>1, <1>4, <1>5, <1>6, StaysBounded
<1> QED BY <1>1, <1>4, <1>7 DEF LossInd, DueBounded

\* A batch goes in and goes on to write, or returns.
LEMMA InsertLoses ==
    ASSUME IndexInd, LossInd, IndexInd', NEW p \in Pipelines, InsertBatch(p) PROVE LossInd'
<1>0. PICK old \in Older(inserts[p].docs) :
          \E kept \in SUBSET old, put \in SUBSET inserts[p].docs : Replace(p, old, kept, put)
  BY DEF InsertBatch
<1>1. PICK kept \in SUBSET old, put \in SUBSET inserts[p].docs : Replace(p, old, kept, put)
  BY <1>0
<1>2. /\ inserts[p].pc = "insert" /\ UNCHANGED <<sidecar, batches, beside>>
      /\ inserts \in [Pipelines -> InsertRecords]
  BY DEF IndexInd, IndexTypes, InsertBatch
<1>3. documents' \subseteq documents \cup inserts[p].docs
  BY <1>1 DEF Replace
<1>4. /\ \A q \in Pipelines \ {p} : inserts'[q] = inserts[q]
      /\ \/ inserts'[p] = NoInsert
         \/ /\ inserts'[p].pc = "open" /\ inserts'[p].json = documents' /\ inserts'[p].save
            /\ inserts[p].save /\ inserts'[p].docs = inserts[p].docs
            /\ indexCounts' = indexCounts \/ indexCounts.faults' = indexCounts.faults + 1
      /\ inserts'[p] = NoInsert => \/ ~inserts[p].save /\ indexCounts' = indexCounts
                                   \/ indexCounts.faults' = indexCounts.faults + 1
  <2>1. indexCounts' = indexCounts \/ indexCounts.faults' = indexCounts.faults + 1
    BY <1>1 DEF IndexInd, IndexTypes, CountRecords, Replace, FaultOnly
  <2>2. CASE put = inserts[p].docs /\ inserts[p].save
    <3>1. inserts' = [inserts EXCEPT ![p].pc = "open", ![p].json = documents']
      BY <1>1, <2>2 DEF Replace
    <3>2. inserts'[p].pc = "open"
      BY <1>2, <3>1 DEF InsertRecords
    <3> QED BY <1>2, <2>1, <2>2, <3>1, <3>2 DEF InsertRecords, NoInsert
  <2>3. CASE ~(put = inserts[p].docs /\ inserts[p].save)
    <3>1. inserts' = [inserts EXCEPT ![p] = NoInsert]
      BY <1>1, <2>3 DEF Replace
    <3>2. inserts[p].save => indexCounts.faults' = indexCounts.faults + 1
      BY <1>1, <2>3 DEF IndexInd, IndexTypes, CountRecords, Replace, FaultOnly
    <3> QED BY <1>2, <2>1, <3>1, <3>2
  <2> QED BY <2>2, <2>3
<1>5. \A q \in Pipelines \ {p} : inserts[q].pc # "idle" => \A v \in inserts[p].docs : Batch(v) \in beside
  BY DEF LossInd, LossParts, OverlapIsBeside
<1>6. LossParts'
  <2>1. IdleIsEmpty'
    BY <1>4 DEF LossInd, LossParts, IdleIsEmpty
  <2>2. OneBatch'
    BY <1>4 DEF LossInd, LossParts, OneBatch, NoInsert
  <2>3. OverlapIsBeside'
    <3> SUFFICES ASSUME NEW q \in Pipelines, NEW r \in Pipelines, q # r, inserts'[r].pc # "idle",
                        NEW v \in inserts'[q].docs
                 PROVE  Batch(v) \in beside'
      BY DEF OverlapIsBeside
    <3>1. v \in inserts[q].docs /\ inserts[r].pc # "idle"
      BY <1>2, <1>4 DEF NoInsert
    <3> QED BY <3>1, <1>2 DEF LossInd, LossParts, OverlapIsBeside
  <2>4. WritesAll'
    <3> SUFFICES ASSUME NEW q \in Pipelines, inserts'[q].pc \in {"open", "fill"},
                        NEW v \in documents' \ inserts'[q].json
                 PROVE  Batch(v) \in beside'
      BY DEF WritesAll
    <3>1. q # p
      BY <1>4 DEF NoInsert
    <3>2. CASE v \in documents
      BY <3>1, <3>2, <1>2, <1>4 DEF LossInd, LossParts, WritesAll
    <3>3. CASE v \in inserts[p].docs
      BY <3>1, <3>3, <1>2, <1>4, <1>5
    <3> QED BY <3>2, <3>3, <1>3
  <2>5. CounterTurns'
    BY <1>2, <1>4 DEF LossInd, LossParts, CounterTurns, NoInsert
  <2>6. Counted'
    BY <1>2, <1>4 DEF LossInd, LossParts, Counted, NoInsert
  <2> QED BY <2>1, <2>2, <2>3, <2>4, <2>5, <2>6 DEF LossParts
<1>7. Due' \subseteq Due
  <2> SUFFICES ASSUME NEW b \in Due' PROVE b \in Due
    OBVIOUS
  <2>1. b \in 1..MaxCalls /\ b \notin beside /\ (Unsaved(b)' \/ Running(b)')
    BY <1>2 DEF Due
  <2>2. CASE Unsaved(b)'
    <3>1. PICK v \in documents' \ sidecar : Batch(v) = b
      BY <2>2, <1>2 DEF Unsaved
    <3> QED BY <2>1, <3>1, <1>3 DEF Due, Unsaved, Running
  <2>3. CASE Running(b)'
    <3>1. PICK q \in Pipelines : \E v \in inserts'[q].docs : Batch(v) = b
      BY <2>3 DEF Running
    <3>2. inserts'[q].docs \subseteq inserts[q].docs
      BY <1>4 DEF NoInsert
    <3> QED BY <2>1, <3>1, <3>2 DEF Due, Running
  <2> QED BY <2>1, <2>2, <2>3
<1>8. \/ indexCounts' = indexCounts /\ batches' = batches /\ Saving' = Saving
      \/ indexCounts.faults' = indexCounts.faults + 1
  <2>1. \A q \in Pipelines \ {p} : inserts'[q].save = inserts[q].save
    BY <1>4
  <2>2. CASE inserts'[p] = NoInsert /\ ~inserts[p].save /\ indexCounts' = indexCounts
    <3>1. ~inserts'[p].save
      BY <2>2 DEF NoInsert
    <3> QED BY <2>1, <2>2, <3>1, <1>2 DEF Saving
  <2>3. CASE inserts'[p].save /\ inserts[p].save
    <3>1. Saving /\ Saving'
      BY <2>3 DEF Saving
    <3> QED BY <3>1, <2>3, <1>2, <1>4 DEF NoInsert
  <2> QED BY <2>2, <2>3, <1>4
<1>9. sidecar # Torn => DueBounded'
  BY <1>6, <1>7, <1>8, StaysBounded
<1> QED BY <1>2, <1>6, <1>9 DEF LossInd, DueBounded

\* A pipeline that wrote, or failed to, returns.
LEMMA ReturnKeeps ==
    ASSUME IndexInd, LossInd, NEW p \in Pipelines, Return(p), inserts[p].pc # "reset"
    PROVE  LossParts'
<1>1. /\ inserts \in [Pipelines -> InsertRecords] /\ inserts' = [inserts EXCEPT ![p] = NoInsert]
      /\ UNCHANGED <<documents, batches, beside>>
  BY DEF IndexInd, IndexTypes, Return
<1>2. inserts'[p] = NoInsert /\ \A q \in Pipelines \ {p} : inserts'[q] = inserts[q]
  BY <1>1
<1>3. OverlapIsBeside'
  <2> SUFFICES ASSUME NEW q \in Pipelines, NEW r \in Pipelines, q # r, inserts'[r].pc # "idle",
                      NEW v \in inserts'[q].docs
               PROVE  Batch(v) \in beside'
    BY DEF OverlapIsBeside
  <2>1. v \in inserts[q].docs /\ inserts[r].pc # "idle"
    BY <1>2 DEF NoInsert
  <2> QED BY <2>1, <1>1 DEF LossInd, LossParts, OverlapIsBeside
<1>4. IdleIsEmpty' /\ OneBatch' /\ WritesAll'
  BY <1>1, <1>2 DEF LossInd, LossParts, IdleIsEmpty, OneBatch, WritesAll, NoInsert
<1>5. CounterTurns' /\ Counted'
  BY <1>1, <1>2 DEF LossInd, LossParts, CounterTurns, Counted, NoInsert
<1> QED BY <1>3, <1>4, <1>5 DEF LossParts

LEMMA WriteLoses ==
    ASSUME IndexInd, LossInd, IndexInd', NEW p \in Pipelines, OpenSidecar(p) \/ FillSidecar(p) \/ WriteFails(p)
    PROVE  LossInd'
<1>0. inserts \in [Pipelines -> InsertRecords]
  BY DEF IndexInd, IndexTypes
<1>1. CASE OpenSidecar(p)
  <2>1. /\ inserts'[p].pc = "fill" /\ inserts'[p].docs = inserts[p].docs /\ inserts'[p].save = inserts[p].save
        /\ inserts'[p].json = inserts[p].json /\ inserts[p].pc = "open"
        /\ \A q \in Pipelines \ {p} : inserts'[q] = inserts[q]
        /\ UNCHANGED <<documents, batches, beside>> /\ sidecar' = Torn
    BY <1>0, <1>1 DEF OpenSidecar, InsertRecords
  <2>2. IdleIsEmpty' /\ OneBatch' /\ OverlapIsBeside'
    BY <2>1 DEF LossInd, LossParts, IdleIsEmpty, OneBatch, OverlapIsBeside
  <2>3. WritesAll' /\ CounterTurns' /\ Counted'
    BY <2>1 DEF LossInd, LossParts, WritesAll, CounterTurns, Counted
  <2> QED BY <2>1, <2>2, <2>3 DEF LossInd, LossParts, DueBounded
<1>2. CASE FillSidecar(p)
  <2>1. LossParts'
    BY <1>2, ReturnKeeps DEF FillSidecar
  <2>2. ASSUME sidecar' # Torn PROVE Due' = {}
    <3>1. sidecar' = inserts[p].json /\ inserts[p].pc = "fill" /\ UNCHANGED <<documents, beside>>
          /\ inserts' = [inserts EXCEPT ![p] = NoInsert]
      BY <1>2, <2>2 DEF FillSidecar, Return
    <3> SUFFICES ASSUME NEW b \in Due' PROVE FALSE
      OBVIOUS
    <3>2. b \notin beside /\ (Unsaved(b)' \/ Running(b)')
      BY <3>1 DEF Due
    <3>3. CASE Unsaved(b)'
      BY <3>1, <3>2, <3>3 DEF Unsaved, LossInd, LossParts, WritesAll
    <3>4. CASE Running(b)'
      <4>1. PICK q \in Pipelines : \E v \in inserts'[q].docs : Batch(v) = b
        BY <3>4 DEF Running
      <4>2. q # p /\ \E v \in inserts[q].docs : Batch(v) = b
        BY <1>0, <3>1, <4>1 DEF NoInsert
      <4> QED BY <3>1, <3>2, <4>2 DEF LossInd, LossParts, OverlapIsBeside
    <3> QED BY <3>2, <3>3, <3>4
  <2>3. Allowed' \in Nat
    <3>1. UNCHANGED indexCounts /\ UNCHANGED batches
      BY <1>2 DEF FillSidecar, Return
    <3> DEFINE f == indexCounts.faults
    <3>2. f \in Nat /\ batches \in Nat /\ f = indexCounts'.faults
      BY <3>1 DEF IndexInd, IndexTypes, CountRecords
    <3> HIDE DEF f
    <3>3. Interval * f \in Nat /\ Interval * (f + 1) \in Nat
      BY <3>2, Shares, IndexAssumption
    <3> QED BY <3>1, <3>2, <3>3 DEF Allowed, f
  <2> QED BY <2>1, <2>2, <2>3, FS_EmptySet DEF LossInd, DueBounded
<1>3. CASE WriteFails(p)
  <2>1. LossParts'
    BY <1>3, ReturnKeeps DEF WriteFails
  <2>2. /\ UNCHANGED <<documents, beside, sidecar>> /\ inserts' = [inserts EXCEPT ![p] = NoInsert]
        /\ indexCounts.faults' = indexCounts.faults + 1
    BY <1>3 DEF WriteFails, Return, FaultOnly, IndexInd, IndexTypes, CountRecords
  <2>3. \A q \in Pipelines : inserts'[q].docs \subseteq inserts[q].docs
    BY <1>0, <2>2 DEF NoInsert
  <2>4. Due' \subseteq Due
    BY <2>2, <2>3 DEF Due, Unsaved, Running
  <2>5. sidecar # Torn => DueBounded'
    BY <2>1, <2>2, <2>4, StaysBounded
  <2> QED BY <2>1, <2>2, <2>5 DEF LossInd, DueBounded
<1> QED BY <1>1, <1>2, <1>3

\* Single insertions, removals, the clearing and a stop: the file that is written
\* has every document, and only the batches that run are due.
LEMMA WholeFileLoses ==
    ASSUME IndexInd, LossInd, IndexInd', LossParts', UNCHANGED inserts, UNCHANGED batches,
           indexCounts.faults' = indexCounts.faults, beside \subseteq beside', sidecar' = documents'
    PROVE  DueBounded'
<1>1. Due' \subseteq {b \in 1..MaxCalls : b \notin beside /\ Running(b)}
  BY DEF Due, Unsaved, Running
<1>2. Cardinality(Due') \in Nat /\ Cardinality(Due') <= Allowed
  BY <1>1, RunningFew DEF LossInd
<1>3. Allowed' = Allowed
  BY DEF Allowed, Saving
<1> QED BY <1>2, <1>3 DEF DueBounded

LEMMA LockedLoses ==
    ASSUME IndexInd, LossInd, IndexInd',
           InsertProbe \/ (\E v \in documents : RemoveVector(v)) \/ ClearVectors
    PROVE  LossInd'
<1>1. CASE InsertProbe
  <2> DEFINE v == <<Probe, indexCounts.calls + 1>>
  <2>1. /\ UNCHANGED <<batches, inserts>> /\ indexCounts.faults' = indexCounts.faults
        /\ documents' = documents \cup {v} /\ beside \subseteq beside'
        /\ Busy # {} => Batch(v) \in beside'
    BY <1>1 DEF InsertProbe, Call, IndexInd, IndexTypes, CountRecords
  <2>2. WritesAll'
    BY <2>1 DEF LossInd, LossParts, WritesAll, Busy
  <2>3. LossParts'
    BY <2>1, <2>2 DEF LossInd, LossParts, IdleIsEmpty, OneBatch, OverlapIsBeside, CounterTurns, Counted
  <2>4. sidecar' = documents' \/ sidecar' = Torn
    BY <1>1 DEF InsertProbe, SaveSidecar
  <2> QED BY <2>1, <2>3, <2>4, WholeFileLoses DEF LossInd, DueBounded
<1>2. ASSUME NEW v \in documents, RemoveVector(v) PROVE LossInd'
  <2>1. UNCHANGED <<batches, inserts, beside>> /\ documents' \subseteq documents
    BY <1>2 DEF RemoveVector
  <2>2. LossParts'
    BY <2>1 DEF LossInd, LossParts, IdleIsEmpty, OneBatch, OverlapIsBeside, WritesAll, CounterTurns, Counted
  <2>3. CASE Removal /\ SaveSidecar
    <3>1. indexCounts.faults' = indexCounts.faults
      BY <2>3 DEF Removal, IndexInd, IndexTypes, CountRecords
    <3>2. sidecar' = documents' \/ sidecar' = Torn
      BY <2>3 DEF SaveSidecar
    <3> QED BY <2>1, <2>2, <3>1, <3>2, WholeFileLoses DEF LossInd, DueBounded
  <2>4. CASE FaultOnly /\ UNCHANGED sidecar
    <3>1. indexCounts.faults' = indexCounts.faults + 1
      BY <2>4 DEF FaultOnly, IndexInd, IndexTypes, CountRecords
    <3>2. Due' \subseteq Due
      BY <2>1, <2>4 DEF Due, Unsaved, Running
    <3>3. sidecar # Torn => DueBounded'
      BY <2>2, <3>1, <3>2, StaysBounded
    <3> QED BY <2>2, <2>4, <3>3 DEF LossInd, DueBounded
  <2> QED BY <1>2, <2>3, <2>4 DEF RemoveVector
<1>3. CASE ClearVectors
  <2>1. UNCHANGED <<batches, inserts, beside>> /\ documents' \subseteq documents
    BY <1>3 DEF ClearVectors
  <2>2. LossParts'
    BY <2>1 DEF LossInd, LossParts, IdleIsEmpty, OneBatch, OverlapIsBeside, WritesAll, CounterTurns, Counted
  <2>3. indexCounts.faults' = indexCounts.faults /\ (sidecar' = documents' \/ sidecar' = Torn)
    BY <1>3 DEF ClearVectors, Removal, SaveSidecar, IndexInd, IndexTypes, CountRecords
  <2> QED BY <2>1, <2>2, <2>3, WholeFileLoses DEF LossInd, DueBounded
<1> QED BY <1>1, <1>2, <1>3

LEMMA StopLoses == ASSUME IndexInd, LossInd, IndexInd', StopAndStart PROVE LossInd'
<1>1. /\ batches' = 0 /\ \A p \in Pipelines : inserts'[p] = NoInsert
      /\ sidecar' # Torn => documents' = sidecar'
  BY DEF StopAndStart, Loaded
<1>2. LossParts'
  BY <1>1, IndexAssumption
     DEF LossParts, IdleIsEmpty, OneBatch, OverlapIsBeside, WritesAll, CounterTurns, Counted, NoInsert
<1>3. sidecar' # Torn => Due' = {}
  BY <1>1 DEF Due, Unsaved, Running, NoInsert
<1>4. Allowed' \in Nat
  <2> DEFINE f == indexCounts'.faults
  <2>1. f \in Nat
    BY DEF IndexInd, IndexTypes, CountRecords
  <2> HIDE DEF f
  <2>2. Interval * f \in Nat /\ Interval * (f + 1) \in Nat
    BY <2>1, Shares, IndexAssumption
  <2> QED BY <1>1, <2>2 DEF Allowed, f
<1> QED BY <1>2, <1>3, <1>4, FS_EmptySet DEF LossInd, DueBounded

LEMMA LossKept == IndexInd /\ LossInd /\ IndexInd' /\ [IndexNext]_indexVars => LossInd'
<1>1. SUFFICES ASSUME IndexInd, LossInd, IndexInd', [IndexNext]_indexVars PROVE LossInd'
  OBVIOUS
<1>2. ASSUME NEW p \in Pipelines, NEW mails \in SUBSET Messages, CountBatch(p, mails) PROVE LossInd'
  BY <1>1, <1>2, CountLoses
<1>3. ASSUME NEW p \in Pipelines, ResetCounter(p) PROVE LossInd'
  BY <1>1, <1>3, ResetLoses
<1>4. ASSUME NEW p \in Pipelines, InsertBatch(p) PROVE LossInd'
  BY <1>1, <1>4, InsertLoses
<1>5. ASSUME NEW p \in Pipelines, OpenSidecar(p) \/ FillSidecar(p) \/ WriteFails(p) PROVE LossInd'
  BY <1>1, <1>5, WriteLoses
<1>6. CASE InsertProbe \/ (\E v \in documents : RemoveVector(v)) \/ ClearVectors
  BY <1>1, <1>6, LockedLoses
<1>7. CASE StopAndStart
  BY <1>1, <1>7, StopLoses
<1>8. CASE UNCHANGED indexVars
  <2>1. UNCHANGED <<documents, sidecar, batches, inserts, beside, indexCounts>>
    BY <1>8 DEF indexVars
  <2> QED BY <1>1, <2>1
          DEF LossInd, LossParts, IdleIsEmpty, OneBatch, OverlapIsBeside, WritesAll, CounterTurns, Counted,
              DueBounded, Due, Unsaved, Running, Allowed, Saving
<1> QED BY <1>1, <1>2, <1>3, <1>4, <1>5, <1>6, <1>7, <1>8 DEF IndexNext

\* What the vector index promises: one document for each email, an index that
\* matches the documents except where a stop or an error came between, and a stop
\* that loses fewer batches than the interval, an interval more for each failure.
THEOREM IndexHolds == IndexSpec => []IndexInv
<1>1. IndexInd /\ LossInd => IndexInv
  <2> SUFFICES ASSUME IndexInd, LossInd PROVE IndexInv
    OBVIOUS
  <2>1. IndexTypeOK
    BY DEF IndexInd, IndexTypes, InsertRecords, IndexTypeOK
  <2>2. OnePerMessage /\ IndexMatchesDocuments
    BY DEF IndexInd, AllSingle, Single, OnePerMessage
  <2>3. BoundedLoss
    <3> SUFFICES ASSUME sidecar # Torn, \A p \in Pipelines : inserts[p].pc = "idle"
                 PROVE  Cardinality({Batch(v) : v \in documents \ sidecar} \ beside)
                            < Interval * (1 + indexCounts.faults)
      BY DEF BoundedLoss
    <3>1. {Batch(v) : v \in documents \ sidecar} \ beside \subseteq Due
      BY DEF IndexInd, IndexTypes, Due, Unsaved, Batch, Vectors
    <3>2. /\ Cardinality({Batch(v) : v \in documents \ sidecar} \ beside) \in Nat
          /\ Cardinality({Batch(v) : v \in documents \ sidecar} \ beside) <= Cardinality(Due)
      BY <3>1, DueFinite, Fewer
    <3>3. ~Saving
      BY DEF LossInd, LossParts, IdleIsEmpty, Saving, NoInsert
    <3> DEFINE f == indexCounts.faults
    <3>4. f \in Nat /\ batches \in Nat
      BY DEF IndexInd, IndexTypes, CountRecords
    <3>5. Cardinality(Due) <= batches + Interval * f /\ batches < Interval
      BY <3>3, AllowedIs DEF LossInd, DueBounded, Allowed
    <3>6. Interval * (1 + f) = Interval * (f + 1)
      BY <3>4
    <3> HIDE DEF f
    <3>7. Interval * f \in Nat /\ Interval * (f + 1) = Interval * f + Interval /\ Interval \in Nat
      BY <3>4, Shares
    <3>8. Cardinality(Due) \in Nat
      BY DueFinite
    <3>9. Cardinality({Batch(v) : v \in documents \ sidecar} \ beside) < Interval * (1 + f)
      BY <3>2, <3>4, <3>5, <3>6, <3>7, <3>8
    <3> QED BY <3>9 DEF f
  <2> QED BY <2>1, <2>2, <2>3 DEF IndexInv
<1>2. IndexInit => IndexInd /\ LossInd
  BY IndexInitially, LossInitially
<1>3. IndexInd /\ LossInd /\ [IndexNext]_indexVars => (IndexInd /\ LossInd)'
  BY IndexKept, LossKept
<1> QED BY <1>1, <1>2, <1>3, PTL DEF IndexSpec

-----------------------------------------------------------------------------
(* The data of an account *)

\* A row that a disconnection has left behind has a reason to be there.
RowsGone ==
    \A a \in DataAccounts : leaving[a].step \in {"spawn", "row"} /\ a \in mail => a \in refused \cup crossed

\* What a disconnection has not collected came behind it, or its query failed.
Collected ==
    \A a \in DataAccounts :
        leaving[a].step = "mail" /\ ~leaving[a].collected /\ a \in mail \cap vectors
            => a \in leftover \cup crossed

DataInd ==
    /\ DataTypeOK /\ DisconnectLeavesNoMail /\ VectorsHaveMail /\ AuditMeansWiped
    /\ RowsGone /\ Collected

LEMMA DataInitially == DataInit => DataInd
<1> SUFFICES ASSUME DataInit PROVE DataInd
  OBVIOUS
<1>1. DataTypeOK
  BY DataAssumption DEF DataInit, DataTypeOK, Staying, NoWipe
<1> QED BY <1>1 DEF DataInit, DataInd, DisconnectLeavesNoMail, VectorsHaveMail, AuditMeansWiped, RowsGone,
        Collected, Staying, NoWipe

\* Steps that change only the backups, the clicks and where a sync, a wipe, a
\* backup or a restore is.
LEMMA QuietDataKeeps ==
    ASSUME DataInd,
           \/ \E a \in DataAccounts : StartSync(a) \/ Click(a) \/ CopyVector(a) \/ WipeUser(a)
           \/ ListVectors \/ ReadBackups
           \/ WipeAll \/ WipeInteractions \/ EndWipe
    PROVE  DataInd'
<1> USE DEF DataInd, tables, history
<1>1. UNCHANGED <<status, mail, vectors, leaving, cleanup, refused, leftover, crossed>>
  BY DEF StartSync, Click, CopyVector, ListVectors, ReadBackups, WipeUser, EndWipe, WipeAll,
         WipeInteractions
<1>2. DataTypeOK'
  <2>1. ASSUME NEW a \in DataAccounts, StartSync(a) \/ Click(a) \/ CopyVector(a) PROVE DataTypeOK'
    BY <2>1 DEF StartSync, Click, CopyVector, DataTypeOK
  <2>2. CASE ListVectors \/ ReadBackups
    BY <2>2 DEF ListVectors, ReadBackups, DataTypeOK
  <2>3. CASE (\E a \in DataAccounts : WipeUser(a)) \/ WipeAll \/ WipeInteractions \/ EndWipe
    BY <2>3 DEF WipeUser, EndWipe, WipeAll, WipeInteractions, Wipe, NoWipe, DataTypeOK
  <2> QED BY <2>1, <2>2, <2>3
<1>3. DisconnectLeavesNoMail' /\ VectorsHaveMail' /\ RowsGone' /\ Collected'
  BY <1>1 DEF DisconnectLeavesNoMail, VectorsHaveMail, Collecting, RowsGone, Collected
<1>4. AuditMeansWiped'
  BY DEF StartSync, Click, CopyVector, ListVectors, ReadBackups, WipeUser, EndWipe, WipeAll,
         WipeInteractions, Wipe, NoWipe, AuditMeansWiped
<1> QED BY <1>2, <1>3, <1>4

\* Mail stored behind a removal is noted.
LEMMA StoreMailKeeps == ASSUME DataInd, NEW a \in DataAccounts, StoreMail(a) PROVE DataInd'
<1> USE DEF DataInd, tables, history
<1>1. DataTypeOK'
  BY DEF StoreMail, DataTypeOK, Crosses
<1>2. DisconnectLeavesNoMail' /\ RowsGone'
  BY DEF StoreMail, DataTypeOK, DisconnectLeavesNoMail, RowsGone, Crosses, Staying
<1>3. VectorsHaveMail'
  BY DEF StoreMail, DataTypeOK, VectorsHaveMail, Collecting, Collected, Crosses, Staying
<1>4. AuditMeansWiped'
  BY DEF StoreMail, AuditMeansWiped, NoWipe, Wipe
<1>5. Collected'
  BY DEF StoreMail, DataTypeOK, Collected, Collecting, Crosses, Staying
<1> QED BY <1>1, <1>2, <1>3, <1>4, <1>5

\* So is a vector inserted behind one, or without its row.
LEMMA EmbedKeeps == ASSUME DataInd, NEW a \in DataAccounts, Embed(a) PROVE DataInd'
<1> USE DEF DataInd, tables, history
<1>1. DataTypeOK'
  BY DEF Embed, DataTypeOK
<1>2. DisconnectLeavesNoMail' /\ RowsGone'
  BY DEF Embed, DataTypeOK, DisconnectLeavesNoMail, RowsGone, Staying
<1>3. VectorsHaveMail'
  BY DEF Embed, DataTypeOK, VectorsHaveMail, Collecting, Collected, Staying
<1>4. AuditMeansWiped'
  BY DEF Embed, AuditMeansWiped, NoWipe, Wipe
<1>5. Collected'
  BY DEF Embed, DataTypeOK, Collected, Collecting, Staying
<1> QED BY <1>1, <1>2, <1>3, <1>4, <1>5

\* And one that is restored behind one, or without its row.
LEMMA RestoreVectorKeeps == ASSUME DataInd, NEW a \in DataAccounts, RestoreVector(a) PROVE DataInd'
<1> USE DEF DataInd, tables, history
<1>1. DataTypeOK'
  BY DEF RestoreVector, DataTypeOK
<1>2. DisconnectLeavesNoMail' /\ RowsGone'
  BY DEF RestoreVector, DataTypeOK, DisconnectLeavesNoMail, RowsGone, Staying
<1>3. VectorsHaveMail'
  BY DEF RestoreVector, DataTypeOK, VectorsHaveMail, Collecting, Collected, Staying
<1>4. AuditMeansWiped'
  BY DEF RestoreVector, AuditMeansWiped, NoWipe, Wipe
<1>5. Collected'
  BY DEF RestoreVector, DataTypeOK, Collected, Collecting, Staying
<1> QED BY <1>1, <1>2, <1>3, <1>4, <1>5

\* A disconnection collects the vectors there are, or its query fails.
LEMMA CollectKeeps == ASSUME DataInd, NEW a \in DataAccounts, Collect(a) PROVE DataInd'
<1> USE DEF DataInd, tables, history
<1>1. DataTypeOK'
  <2>1. PICK r \in [step : {"none", "mail", "spawn", "row"}, collected : BOOLEAN] :
           leaving' = [leaving EXCEPT ![a] = r]
    <3>1. ASSUME NEW found \in BOOLEAN
          PROVE  [step |-> "mail", collected |-> found]
                    \in [step : {"none", "mail", "spawn", "row"}, collected : BOOLEAN]
      OBVIOUS
    <3>2. /\ (a \in mail \cap vectors) \in BOOLEAN
          /\ \/ leaving' = [leaving EXCEPT ![a] = [step |-> "mail",
                                                   collected |-> a \in mail \cap vectors]]
             \/ leaving' = [leaving EXCEPT ![a] = [step |-> "mail", collected |-> FALSE]]
      BY DEF Collect
    <3> QED BY <3>1, <3>2, Zenon
  <2>2. status[a] = "connected" /\ leftover' \subseteq leftover \cup {a}
    BY DEF Collect
  <2> QED BY <2>1, <2>2 DEF Collect, DataTypeOK
<1>2. DisconnectLeavesNoMail' /\ RowsGone'
  BY DEF Collect, DataTypeOK, DisconnectLeavesNoMail, RowsGone, Staying
<1>3. VectorsHaveMail'
  BY DEF Collect, DataTypeOK, VectorsHaveMail, Collecting, Collected, Staying
<1>4. AuditMeansWiped'
  BY DEF Collect, AuditMeansWiped, NoWipe, Wipe
<1>5. Collected'
  <2> SUFFICES ASSUME NEW b \in DataAccounts, leaving'[b].step = "mail", ~leaving'[b].collected,
                      b \in mail' \cap vectors'
               PROVE  b \in leftover' \cup crossed'
    BY DEF Collected
  <2>2. CASE b # a
    BY <2>2 DEF Collect, DataTypeOK, Collected
  <2>3. CASE b = a
    <3>1. UNCHANGED <<mail, vectors>>
      BY DEF Collect
    <3>2. leaving'[a].collected = (a \in mail \cap vectors) \/ leftover' = leftover \cup ({a} \cap mail \cap vectors)
      BY DEF Collect, DataTypeOK
    <3> QED BY <2>3, <3>1, <3>2
  <2> QED BY <2>2, <2>3
<1> QED BY <1>1, <1>2, <1>3, <1>4, <1>5

\* The mail goes, with its vectors on the list, or is kept.
LEMMA DeleteMailKeeps == ASSUME DataInd, NEW a \in DataAccounts, DeleteMail(a) PROVE DataInd'
<1> USE DEF DataInd, tables, history
<1>1. DataTypeOK'
  <2> DEFINE r == [leaving[a] EXCEPT !.step = "spawn"]
  <2>1. r \in [step : {"none", "mail", "spawn", "row"}, collected : BOOLEAN]
    BY DEF DataTypeOK
  <2>2. leaving' = [leaving EXCEPT ![a] = r] /\ status[a] = "connected"
    BY DEF DeleteMail, DataTypeOK, Staying
  <2> HIDE DEF r
  <2> QED BY <2>1, <2>2 DEF DeleteMail, DataTypeOK
<1>2. DisconnectLeavesNoMail' /\ RowsGone'
  BY DEF DeleteMail, DataTypeOK, DisconnectLeavesNoMail, RowsGone
<1>3. VectorsHaveMail'
  BY DEF DeleteMail, DataTypeOK, VectorsHaveMail, Collecting, Collected
<1>4. AuditMeansWiped'
  BY DEF DeleteMail, AuditMeansWiped, NoWipe, Wipe
<1>5. Collected'
  BY DEF DeleteMail, DataTypeOK, Collected, Collecting
<1> QED BY <1>1, <1>2, <1>3, <1>4, <1>5

\* The list is handed to a task.
LEMMA SpawnDeletesKeeps == ASSUME DataInd, NEW a \in DataAccounts, SpawnDeletes(a) PROVE DataInd'
<1> USE DEF DataInd, tables, history
<1>1. DataTypeOK'
  <2> DEFINE r == [leaving[a] EXCEPT !.step = "row"]
  <2>1. r \in [step : {"none", "mail", "spawn", "row"}, collected : BOOLEAN]
    BY DEF DataTypeOK
  <2>2. leaving' = [leaving EXCEPT ![a] = r] /\ status[a] = "connected"
    BY DEF SpawnDeletes, DataTypeOK, Staying
  <2> HIDE DEF r
  <2> QED BY <2>1, <2>2 DEF SpawnDeletes, DataTypeOK
<1>2. DisconnectLeavesNoMail' /\ RowsGone'
  BY DEF SpawnDeletes, DataTypeOK, DisconnectLeavesNoMail, RowsGone
<1>3. VectorsHaveMail'
  BY DEF SpawnDeletes, DataTypeOK, VectorsHaveMail, Collecting, Collected
<1>4. AuditMeansWiped'
  BY DEF SpawnDeletes, AuditMeansWiped, NoWipe, Wipe
<1>5. Collected'
  BY DEF SpawnDeletes, DataTypeOK, Collected, Collecting
<1> QED BY <1>1, <1>2, <1>3, <1>4, <1>5

\* The vectors collected go, or the store keeps them.
LEMMA DeleteVectorsKeeps == ASSUME DataInd, NEW a \in DataAccounts, DeleteVectors(a) PROVE DataInd'
<1> USE DEF DataInd, tables, history
<1>1. DataTypeOK'
  BY DEF DeleteVectors, DataTypeOK
<1>2. DisconnectLeavesNoMail' /\ RowsGone'
  BY DEF DeleteVectors, DataTypeOK, DisconnectLeavesNoMail, RowsGone
<1>3. VectorsHaveMail'
  BY DEF DeleteVectors, DataTypeOK, VectorsHaveMail, Collecting, Collected
<1>4. AuditMeansWiped'
  BY DEF DeleteVectors, AuditMeansWiped, NoWipe, Wipe
<1>5. Collected'
  BY DEF DeleteVectors, DataTypeOK, Collected, Collecting
<1> QED BY <1>1, <1>2, <1>3, <1>4, <1>5

\* The account is disconnected.
LEMMA ClearRowKeeps == ASSUME DataInd, NEW a \in DataAccounts, ClearRow(a) PROVE DataInd'
<1> USE DEF DataInd, tables, history
<1>1. DataTypeOK'
  BY DEF ClearRow, DataTypeOK, Staying
<1>2. DisconnectLeavesNoMail' /\ RowsGone'
  BY DEF ClearRow, DataTypeOK, DisconnectLeavesNoMail, RowsGone, Staying
<1>3. VectorsHaveMail'
  BY DEF ClearRow, DataTypeOK, VectorsHaveMail, Collecting, Collected, Staying
<1>4. AuditMeansWiped'
  BY DEF ClearRow, AuditMeansWiped, NoWipe, Wipe
<1>5. Collected'
  BY DEF ClearRow, DataTypeOK, Collected, Collecting, Staying
<1> QED BY <1>1, <1>2, <1>3, <1>4, <1>5

\* A request that ends early loses its list.
LEMMA DropDisconnectKeeps == ASSUME DataInd, NEW a \in DataAccounts, DropDisconnect(a) PROVE DataInd'
<1> USE DEF DataInd, tables, history
<1>1. DataTypeOK'
  BY DEF DropDisconnect, DataTypeOK, Staying, Collecting
<1>2. DisconnectLeavesNoMail' /\ RowsGone'
  BY DEF DropDisconnect, DataTypeOK, DisconnectLeavesNoMail, RowsGone, Staying
<1>3. VectorsHaveMail'
  BY DEF DropDisconnect, DataTypeOK, VectorsHaveMail, Collecting, Collected, Staying
<1>4. AuditMeansWiped'
  BY DEF DropDisconnect, AuditMeansWiped, NoWipe, Wipe
<1>5. Collected'
  BY DEF DropDisconnect, DataTypeOK, Collected, Collecting, Staying
<1> QED BY <1>1, <1>2, <1>3, <1>4, <1>5

\* A wipe takes all mail or none.
LEMMA WipeMailKeeps == ASSUME DataInd, WipeMail PROVE DataInd'
<1> USE DEF DataInd, tables, history
<1>1. DataTypeOK'
  BY DEF WipeMail, DataTypeOK, Wipe
<1>2. DisconnectLeavesNoMail' /\ RowsGone'
  BY DEF WipeMail, DataTypeOK, DisconnectLeavesNoMail, RowsGone
<1>3. VectorsHaveMail'
  BY DEF WipeMail, DataTypeOK, VectorsHaveMail, Collecting, Collected
<1>4. AuditMeansWiped'
  BY DEF WipeMail, AuditMeansWiped, NoWipe, Wipe
<1>5. Collected'
  BY DEF WipeMail, DataTypeOK, Collected, Collecting
<1> QED BY <1>1, <1>2, <1>3, <1>4, <1>5

\* A crash loses the deletions in the background.
LEMMA CrashKeeps == ASSUME DataInd, Crash PROVE DataInd'
<1> USE DEF DataInd, tables, history
<1>1. DataTypeOK'
  BY DataAssumption DEF Crash, DataTypeOK, Staying, NoWipe, Collecting
<1>2. DisconnectLeavesNoMail' /\ RowsGone'
  BY DEF Crash, DataTypeOK, DisconnectLeavesNoMail, RowsGone, Staying
<1>3. VectorsHaveMail'
  BY DEF Crash, DataTypeOK, VectorsHaveMail, Collecting, Collected, Staying
<1>4. AuditMeansWiped'
  BY DEF Crash, AuditMeansWiped, NoWipe, Wipe
<1>5. Collected'
  BY DEF Crash, DataTypeOK, Collected, Collecting, Staying
<1> QED BY <1>1, <1>2, <1>3, <1>4, <1>5

LEMMA DataKept == DataInd /\ [DataNext]_dataVars => DataInd'
<1> SUFFICES ASSUME DataInd, [DataNext]_dataVars PROVE DataInd'
  OBVIOUS
<1>1. CASE UNCHANGED dataVars
  <2>1. /\ UNCHANGED <<status, mail, vectors, backups, clicks>>
        /\ UNCHANGED <<leaving, cleanup, adding, wipe, copying, restoring>>
        /\ UNCHANGED <<survivors, refused, leftover, crossed, crashes>>
    BY <1>1 DEF dataVars, tables, history
  <2>2. DataTypeOK'
    BY <2>1 DEF DataInd, DataTypeOK
  <2> QED BY <2>1, <2>2 DEF DataInd, DisconnectLeavesNoMail, VectorsHaveMail, Collecting, AuditMeansWiped,
          RowsGone, Collected
<1>2. ASSUME NEW a \in DataAccounts,
             \/ StartSync(a) \/ StoreMail(a) \/ Embed(a) \/ Click(a)
             \/ Collect(a) \/ DeleteMail(a) \/ SpawnDeletes(a) \/ DeleteVectors(a)
             \/ ClearRow(a) \/ DropDisconnect(a)
             \/ WipeUser(a) \/ CopyVector(a) \/ RestoreVector(a)
      PROVE  DataInd'
  BY <1>2, QuietDataKeeps, StoreMailKeeps, EmbedKeeps, CollectKeeps, DeleteMailKeeps, SpawnDeletesKeeps,
     DeleteVectorsKeeps, ClearRowKeeps, DropDisconnectKeeps, RestoreVectorKeeps
<1>3. CASE WipeAll \/ WipeInteractions \/ EndWipe \/ ListVectors \/ ReadBackups
  BY <1>3, QuietDataKeeps
<1>4. CASE WipeMail \/ Crash
  BY <1>4, WipeMailKeeps, CrashKeeps
<1> QED BY <1>1, <1>2, <1>3, <1>4 DEF DataNext

\* However disconnections, wipes, backups, restores, syncs, errors and crashes meet:
\* a disconnected account keeps no mail but what the database did not delete or a sync
\* brought behind it; a vector without its mail is about to be deleted, but for what
\* the histories leftover and crossed name; and the audit log is written when nothing is
\* left (api/accounts.rs, remote_wipe.rs, backup.rs).
THEOREM RemovalsHold == DataSpec => []DataInv
<1>1. DataInd => DataInv
  BY DEF DataInd, DataInv
<1> QED BY DataInitially, DataKept, <1>1, PTL DEF DataSpec

-----------------------------------------------------------------------------
(* The topic clusters *)

Cluster == [id : Ids, of : SUBSET Mails, pinned : BOOLEAN]

OneOfEach(some) == \A c, d \in some : c.id = d.id => c = d

RunState == [pc : {"idle", "listed", "match", "persist", "commit"}, docs : SUBSET Mails]

\* The rows, too, hold one cluster of each id.
TopicInd == TopicInv /\ OneOfEach(savedTopics) /\ runs \in [Runs -> RunState]

LEMMA TopicInitially == TopicInit => TopicInd
BY DEF TopicInit, TopicInd, TopicInv, TopicTypeOK, AssignmentsFollow, SavedIsCurrent, PinsStay, OneOfEach,
       PinnedIds, Free, Resting, RunState

\* What a reclustering makes of the groups: clusters of one id each, none of
\* them the id of a pinned one.
LEMMA MergedType ==
    ASSUME TopicInd, NEW docs \in SUBSET Mails, NEW groups \in Groupings(docs), NEW new \in Merged(groups)
    PROVE  /\ new \subseteq Cluster /\ OneOfEach(new)
           /\ \A c \in new, d \in topics : d.pinned => c.id # d.id
<1> DEFINE old == {c.id : c \in topics} \ PinnedIds(topics)
           fresh == CHOOSE f \in Fresh(groups) : TRUE
           Id(like, g) == IF like[g] = 0 THEN fresh[g] ELSE like[g]
<1>1. PICK like \in [groups -> old \cup {0}] :
        /\ OneEach(like) /\ Fresh(groups) # {}
        /\ new = {[id |-> Id(like, g), of |-> g, pinned |-> FALSE] : g \in groups}
  BY DEF Merged
<1>2. groups \subseteq SUBSET docs
  BY DEF Groupings
<1>3. fresh \in [groups -> Ids \ Used] /\ OneEach(fresh)
  <2>1. fresh \in Fresh(groups)
    BY <1>1
  <2> HIDE DEF fresh
  <2> QED BY <2>1 DEF Fresh
<1>4. old \subseteq Ids /\ old \subseteq Used /\ 0 \notin Ids /\ \A d \in topics : d.pinned => d.id \notin old /\ d.id \in Used
  BY TopicAssumption DEF TopicInd, TopicInv, TopicTypeOK, Used, PinnedIds
<1> HIDE DEF old, fresh
<1>5. \A g \in groups : /\ Id(like, g) \in Ids
                        /\ like[g] # 0 => Id(like, g) = like[g] /\ Id(like, g) \in old
                        /\ like[g] = 0 => Id(like, g) \notin Used
  BY <1>1, <1>3, <1>4
<1>6. \A g, h \in groups : Id(like, g) = Id(like, h) => g = h
  <2> SUFFICES ASSUME NEW g \in groups, NEW h \in groups, g # h PROVE Id(like, g) # Id(like, h)
    OBVIOUS
  <2>1. (like[g] # like[h] \/ like[g] = 0) /\ (fresh[g] # fresh[h] \/ fresh[g] = 0)
    <3>1. g \in DOMAIN like /\ h \in DOMAIN like /\ g \in DOMAIN fresh /\ h \in DOMAIN fresh
      BY <1>1, <1>3
    <3> QED BY <3>1, <1>1, <1>3 DEF OneEach
  <2>2. fresh[g] # 0
    BY <1>3, <1>4
  <2> QED BY <2>1, <2>2, <1>4, <1>5
<1> HIDE DEF Id
<1>7. new \subseteq Cluster
  <2> SUFFICES ASSUME NEW c \in new PROVE c \in Cluster
    OBVIOUS
  <2>1. PICK g \in groups : c = [id |-> Id(like, g), of |-> g, pinned |-> FALSE]
    BY <1>1
  <2>2. g \in SUBSET Mails /\ Id(like, g) \in Ids
    BY <1>2, <1>5
  <2> QED BY <2>1, <2>2 DEF Cluster
<1>8. OneOfEach(new)
  <2> SUFFICES ASSUME NEW c \in new, NEW d \in new, c.id = d.id PROVE c = d
    BY DEF OneOfEach
  <2>1. PICK g \in groups : c = [id |-> Id(like, g), of |-> g, pinned |-> FALSE]
    BY <1>1
  <2>2. PICK h \in groups : d = [id |-> Id(like, h), of |-> h, pinned |-> FALSE]
    BY <1>1
  <2>3. g = h
    BY <2>1, <2>2, <1>6
  <2> QED BY <2>1, <2>2, <2>3
<1>9. \A c \in new, d \in topics : d.pinned => c.id # d.id
  BY <1>1, <1>4, <1>5
<1> QED BY <1>7, <1>8, <1>9

LEMMA InstallKeeps == ASSUME TopicInd, NEW r \in Runs, Install(r) PROVE TopicInd'
<1>0. PICK groups \in Groupings(runs[r].docs) :
        \E new \in Merged(groups) : topics' = Combined(new) /\ assigned' \in Assignments(new, topics')
  BY DEF Install
<1>1. PICK new \in Merged(groups) : topics' = Combined(new) /\ assigned' \in Assignments(new, topics')
  BY <1>0
<1>a. runs[r].docs \in SUBSET Mails
  BY DEF TopicInd, RunState
<1>2. /\ new \subseteq Cluster /\ OneOfEach(new)
      /\ \A c \in new, d \in topics : d.pinned => c.id # d.id
  BY <1>1, <1>a, MergedType
<1>3. topics' = {c \in topics : c.pinned} \cup new
  BY <1>1 DEF Combined
<1>4. /\ UNCHANGED <<vectored, savedTopics, pinned>>
      /\ locks' = [clusters |-> Free, assignments |-> r]
      /\ runs' = [runs EXCEPT ![r].pc = "persist"]
  BY DEF Install
<1>5. TopicTypeOK'
  <2>1. topics' \subseteq Cluster /\ OneOfEach(topics')
    BY <1>2, <1>3 DEF TopicInd, TopicInv, TopicTypeOK, OneOfEach, Cluster
  <2>2. assigned' \in [Mails -> Ids \cup {0}]
    BY <1>1 DEF Assignments
  <2> QED BY <2>1, <2>2, <1>4 DEF TopicInd, TopicInv, TopicTypeOK, OneOfEach, Cluster
<1>6. AssignmentsFollow'
  <2> SUFFICES ASSUME NEW e \in Mails, assigned'[e] # 0 PROVE \E c \in topics' : c.id = assigned'[e] /\ e \in c.of
    BY DEF AssignmentsFollow
  <2>1. Assigns(assigned', new, topics')
    BY <1>1 DEF Assignments
  <2> DEFINE ids(some) == {c.id : c \in {d \in some : e \in d.of}}
  <2>2. \/ assigned'[e] \in ids(new) \/ assigned'[e] \in ids(topics')
    <3>1. CASE ids(new) # {}
      BY <3>1, <2>1 DEF Assigns
    <3>2. CASE ids(new) = {} /\ ids(topics') # {}
      BY <3>2, <2>1 DEF Assigns
    <3>3. CASE ids(new) = {} /\ ids(topics') = {}
      BY <3>3, <2>1 DEF Assigns
    <3> QED BY <3>1, <3>2, <3>3
  <2> QED BY <2>2, <1>3
<1>7. SavedIsCurrent'
  <2>1. runs'[r].pc = "persist"
    BY <1>4 DEF TopicInd, RunState
  <2> QED BY <2>1 DEF SavedIsCurrent
<1>8. PinsStay'
  BY <1>3, <1>4 DEF TopicInd, TopicInv, PinsStay, PinnedIds
<1>9. OneOfEach(savedTopics)' /\ runs' \in [Runs -> RunState]
  BY <1>4 DEF TopicInd, OneOfEach, RunState
<1> QED BY <1>5, <1>6, <1>7, <1>8, <1>9 DEF TopicInd, TopicInv

LEMMA LoadKeeps == ASSUME TopicInd, LoadTopics PROVE TopicInd'
<1>1. /\ topics' = savedTopics /\ savedTopics' = savedTopics /\ pinned' = PinnedIds(savedTopics)
      /\ assigned' \in Assignments({}, savedTopics) /\ vectored' \in {vectored, {}}
      /\ runs' = [r \in Runs |-> Resting] /\ locks' = [clusters |-> Free, assignments |-> Free]
  BY DEF LoadTopics
<1>2. TopicTypeOK'
  <2>1. assigned' \in [Mails -> Ids \cup {0}]
    BY <1>1 DEF Assignments
  <2> QED BY <1>1, <2>1 DEF TopicInd, TopicInv, TopicTypeOK, OneOfEach
<1>3. AssignmentsFollow'
  <2> SUFFICES ASSUME NEW e \in Mails, assigned'[e] # 0 PROVE \E c \in savedTopics : c.id = assigned'[e] /\ e \in c.of
    BY <1>1 DEF AssignmentsFollow
  <2>1. Assigns(assigned', {}, savedTopics)
    BY <1>1 DEF Assignments
  <2> DEFINE ids(some) == {c.id : c \in {d \in some : e \in d.of}}
  <2>2. ids({}) = {}
    OBVIOUS
  <2>3. assigned'[e] \in ids(savedTopics)
    <3>1. CASE ids(savedTopics) # {}
      BY <3>1, <2>1, <2>2 DEF Assigns
    <3>2. CASE ids(savedTopics) = {}
      BY <3>2, <2>1, <2>2 DEF Assigns
    <3> QED BY <3>1, <3>2
  <2> QED BY <2>3
<1>4. SavedIsCurrent' /\ PinsStay'
  BY <1>1 DEF SavedIsCurrent, PinsStay, PinnedIds
<1>5. OneOfEach(savedTopics)' /\ runs' \in [Runs -> RunState]
  BY <1>1 DEF TopicInd, OneOfEach, RunState, Resting
<1> QED BY <1>2, <1>3, <1>4, <1>5 DEF TopicInd, TopicInv

\* A pinned cluster is the one it was.
LEMMA PinKeeps == ASSUME TopicInd, NEW r \in Runs, Pin(r) PROVE TopicInd'
<1>1. PICK c \in topics : topics' = (topics \ {c}) \cup {[c EXCEPT !.pinned = TRUE]} /\ pinned' = pinned \cup {c.id}
  BY DEF Pin
<1>2. /\ UNCHANGED <<vectored, assigned, savedTopics, locks, clearing>>
      /\ runs' = [runs EXCEPT ![r] = [pc |-> "persist", docs |-> {}]]
  BY DEF Pin
<1> DEFINE p == [c EXCEPT !.pinned = TRUE]
<1>3. p \in Cluster /\ p.id = c.id /\ p.of = c.of /\ p.pinned /\ topics' = (topics \ {c}) \cup {p}
  BY <1>1 DEF TopicInd, TopicInv, TopicTypeOK, Cluster
<1> HIDE DEF p
<1>4. TopicTypeOK'
  BY <1>2, <1>3 DEF TopicInd, TopicInv, TopicTypeOK, Cluster
<1>5. AssignmentsFollow' /\ PinsStay'
  BY <1>1, <1>2, <1>3 DEF TopicInd, TopicInv, AssignmentsFollow, PinsStay, PinnedIds
<1>6. SavedIsCurrent'
  <2>1. runs'[r].pc = "persist"
    BY <1>2 DEF TopicInd
  <2> QED BY <2>1 DEF SavedIsCurrent
<1>7. OneOfEach(savedTopics)' /\ runs' \in [Runs -> RunState]
  BY <1>2 DEF TopicInd, OneOfEach, RunState
<1> QED BY <1>4, <1>5, <1>6, <1>7 DEF TopicInd, TopicInv

\* The end of a run: what is saved is what is there, or the failure is noted.
LEMMA CommitKeeps == ASSUME TopicInd, NEW r \in Runs, Commit(r) \/ CommitFails(r) PROVE TopicInd'
<1>1. /\ UNCHANGED <<vectored, topics, assigned, clearing, pinned>> /\ runs' = [runs EXCEPT ![r] = Resting]
      /\ locks' = locks \/ locks' = [locks EXCEPT !.assignments = Free]
      /\ savedTopics' = topics \/ (savedTopics' = savedTopics /\ drifted')
  BY DEF Commit, CommitFails, EndRun
<1>2. TopicTypeOK' /\ OneOfEach(savedTopics)'
  <2>1. locks' \in [clusters : Runs \cup {Free}, assignments : Runs \cup {Free}]
    BY <1>1 DEF TopicInd, TopicInv, TopicTypeOK
  <2> QED BY <1>1, <2>1 DEF TopicInd, TopicInv, TopicTypeOK, OneOfEach
<1>3. AssignmentsFollow' /\ PinsStay' /\ SavedIsCurrent'
  BY <1>1 DEF TopicInd, TopicInv, AssignmentsFollow, PinsStay, PinnedIds, SavedIsCurrent
<1>4. runs' \in [Runs -> RunState]
  BY <1>1 DEF TopicInd, RunState, Resting
<1> QED BY <1>2, <1>3, <1>4 DEF TopicInd, TopicInv

\* Steps that touch neither clusters nor assignments nor rows.
LEMMA QuietTopicKeeps ==
    ASSUME TopicInd,
           \/ \E e \in Mails : EmbedMail(e)
           \/ \E r \in Runs : (\E asked \in BOOLEAN : List(r, asked)) \/ LockClusters(r) \/ Persist(r)
           \/ ClearStore
    PROVE  TopicInd'
<1>1. UNCHANGED <<topics, assigned, savedTopics, pinned, drifted>> /\ vectored' \subseteq Mails
  BY DEF EmbedMail, List, LockClusters, Persist, ClearStore, TopicInd, TopicInv, TopicTypeOK
<1>2. clearing' = clearing \/ (clearing = "none" /\ clearing' = "clusters")
  BY DEF EmbedMail, List, LockClusters, Persist, ClearStore
<1>3. /\ runs' \in [Runs -> RunState]
      /\ \A q \in Runs : runs[q].pc \in {"persist", "commit"} => runs'[q].pc \in {"persist", "commit"}
  <2>1. CASE (\E e \in Mails : EmbedMail(e)) \/ ClearStore
    BY <2>1 DEF EmbedMail, ClearStore, TopicInd
  <2>2. ASSUME NEW r \in Runs, (\E asked \in BOOLEAN : List(r, asked)) \/ LockClusters(r) \/ Persist(r)
        PROVE  /\ runs' \in [Runs -> RunState]
               /\ \A q \in Runs : runs[q].pc \in {"persist", "commit"} => runs'[q].pc \in {"persist", "commit"}
    BY <2>2 DEF List, LockClusters, Persist, TopicInd, TopicInv, TopicTypeOK, RunState
  <2> QED BY <2>1, <2>2
<1>4. locks' \in [clusters : Runs \cup {Free}, assignments : Runs \cup {Free}]
  BY DEF EmbedMail, List, LockClusters, Persist, ClearStore, TopicInd, TopicInv, TopicTypeOK
<1>5. TopicTypeOK' /\ OneOfEach(savedTopics)'
  BY <1>1, <1>4 DEF TopicInd, TopicInv, TopicTypeOK, OneOfEach
<1>6. AssignmentsFollow' /\ PinsStay' /\ SavedIsCurrent'
  BY <1>1, <1>2, <1>3 DEF TopicInd, TopicInv, AssignmentsFollow, PinsStay, PinnedIds, SavedIsCurrent
<1> QED BY <1>3, <1>5, <1>6 DEF TopicInd, TopicInv

\* A clearing empties the two maps and the table, one after another.
LEMMA ClearKeeps == ASSUME TopicInd, ClearMemory \/ ClearAssignments \/ ClearRows PROVE TopicInd'
<1>1. UNCHANGED <<vectored, runs, locks>>
  BY DEF ClearMemory, ClearAssignments, ClearRows
<1>2. TopicTypeOK' /\ OneOfEach(savedTopics)'
  BY <1>1 DEF ClearMemory, ClearAssignments, ClearRows, TopicInd, TopicInv, TopicTypeOK, OneOfEach
<1>3. AssignmentsFollow'
  BY DEF ClearMemory, ClearAssignments, ClearRows, TopicInd, TopicInv, AssignmentsFollow
<1>4. PinsStay' /\ SavedIsCurrent'
  BY DEF ClearMemory, ClearAssignments, ClearRows, TopicInd, TopicInv, PinsStay, PinnedIds, SavedIsCurrent
<1> QED BY <1>1, <1>2, <1>3, <1>4 DEF TopicInd, TopicInv

LEMMA TopicKept == TopicInd /\ [TopicNext]_topicVars => TopicInd'
<1> SUFFICES ASSUME TopicInd, [TopicNext]_topicVars PROVE TopicInd'
  OBVIOUS
<1>1. CASE UNCHANGED topicVars
  BY <1>1 DEF topicVars, TopicInd, TopicInv, TopicTypeOK, AssignmentsFollow, SavedIsCurrent, PinsStay,
         PinnedIds, OneOfEach
<1>2. ASSUME NEW r \in Runs, RunStep(r) PROVE TopicInd'
  BY <1>2, QuietTopicKeeps, InstallKeeps, PinKeeps, CommitKeeps DEF RunStep
<1>3. CASE (\E e \in Mails : EmbedMail(e)) \/ ClearStore
  BY <1>3, QuietTopicKeeps
<1>4. CASE ClearMemory \/ ClearAssignments \/ ClearRows \/ LoadTopics
  BY <1>4, ClearKeeps, LoadKeeps
<1> QED BY <1>1, <1>2, <1>3, <1>4 DEF TopicNext

\* However reclusterings, pinnings, clearings, failing saves and restarts meet:
\* an email is assigned to a cluster that is there and contains it, what a
\* restart will load is what is in memory, and a pinned cluster stays, whatever
\* groups the algorithms find (vectors/clustering.rs).
THEOREM TopicsHold == TopicSpec => []TopicInv
<1>1. TopicInd => TopicInv
  BY DEF TopicInd
<1> QED BY TopicInitially, TopicKept, <1>1, PTL DEF TopicSpec

-----------------------------------------------------------------------------
(* The requests on a mailbox *)

Folders == {"INBOX", "TRASH", "SPAM", "SENT", "DRAFT", "ARCHIVE"}

LetterRows ==
    [labels : SUBSET Labels, folder : Folders, trash : BOOLEAN, spam : BOOLEAN,
     dated : BOOLEAN, flags : SUBSET Flags, archived : BOOLEAN]

AtProvider == Labels \cup Flags \cup {"TRASH", "SPAM", "gone"}

CallOps == Soft \cup {"archive", "star", "mark", "folder", "label", "hard"}
LabelOps == {"label", "rule add", "rule remove"}

ActionRecords ==
    [op : CallOps \cup RuleOps \cup {"none", "empty"},
     step : {"none", "read", "list", "call", "write", "labels", "state", "files", "sweep", "delete"},
     email : Emails \cup {"none"},
     target : FolderTargets \cup LabelTargets \cup {"none", "read", "unread"},
     seen : SUBSET (Labels \cup Flags \cup Emails), listed : SUBSET Emails]

\* What the step of an action says of the rest of it.
WellFormed(a) ==
    /\ a.op \in CallOps \cup RuleOps => a.email \in Emails
    /\ a.step = "call" => a.op \in CallOps
    /\ a.op = "folder" => a.target \in FolderTargets
    /\ a.op \in LabelOps => a.target \in LabelTargets /\ a.step # "write"
    /\ a.op \in LabelOps /\ a.step \in {"labels", "state"} => a.seen \subseteq Labels
    /\ a.op = "empty" => a.seen \subseteq a.listed
    /\ a.op = "empty" /\ a.step = "delete" => a.seen = {}

TraceRecords ==
    [owed : [Emails -> SUBSET Labels], starred : SUBSET Emails, raced : SUBSET Emails,
     failed : SUBSET Emails, crossed : SUBSET Emails, refused : SUBSET Emails, ruled : SUBSET Emails]

MailTypes ==
    /\ letters \in [Emails -> LetterRows \cup {NoLetter}]
    /\ gmail \in [Emails -> SUBSET AtProvider]
    /\ files \subseteq Emails /\ begun \in 0..MaxActions /\ providerFaults \in 0..MaxProviderFaults
    /\ actions \in [Clients -> ActionRecords] /\ \A c \in Clients : WellFormed(actions[c])
    /\ trace \in TraceRecords

\* What a request that empties the trash has listed: mail that changed sides is
\* known, and what it has passed has no files.
SweptIsGone(c) ==
    Sweeping(c) => \A e \in Emails : InDb(e) =>
        /\ (e \in actions[c].listed) # letters[e].trash => e \in trace.crossed
        /\ e \in actions[c].listed \ actions[c].seen => e \notin files

FilesFirst(c) ==
    At(c, {"hard"}, "delete") /\ InDb(actions[c].email) => actions[c].email \notin files

\* The flag a request is about to negate is the one of the row.
StarIsCurrent(c) ==
    LET e == actions[c].email
    IN  At(c, {"star"}, "call") \/ At(c, {"star"}, "write") =>
            (InDb(e) /\ e \notin trace.raced => (actions[c].seen = {} <=> "STARRED" \notin letters[e].flags))

\* Emails for which the provider has been told everything.
Told(e) == e \notin trace.failed \cup trace.ruled /\ InDb(e) /\ gmail[e] # GoneAtGmail

\* The next writes of an action put its email into the trash, or give it the label.
Trashing(a) ==
    \/ a.op = "trash" /\ a.step = "write"
    \/ a.op = "folder" /\ a.step \in {"write", "labels"} /\ a.target = "TRASH"
    \/ a.op \in LabelOps /\ a.step \in {"labels", "state"} /\ "TRASH" \in a.seen

TrashingIsTold(c) ==
    LET e == actions[c].email
    IN  Trashing(actions[c]) /\ Told(e) => "TRASH" \in gmail[e]

TrashIsTold(e) ==
    Told(e) /\ (letters[e].trash \/ "TRASH" \in letters[e].labels) => "TRASH" \in gmail[e]

\* A flag the provider has and the row not yet, or the other way round, is the one
\* a request is about to write.
Writes(c, op, e) == At(c, {op}, "write") /\ actions[c].email = e

StarIsTold(e) ==
    Told(e) /\ e \notin trace.raced =>
        /\ (\A c \in Clients : ~Writes(c, "star", e)) =>
               ("STARRED" \in gmail[e] <=> "STARRED" \in letters[e].flags)
        /\ \A c \in Clients : Writes(c, "star", e) => ("STARRED" \in gmail[e] <=> actions[c].seen = {})

ReadIsTold(e) ==
    Told(e) /\ e \notin trace.raced =>
        /\ (\A c \in Clients : ~Writes(c, "mark", e)) =>
               ("UNREAD" \in gmail[e] <=> "UNREAD" \in letters[e].flags)
        /\ \A c \in Clients :
              Writes(c, "mark", e) /\ (\A d \in Clients \ {c} : ~Writes(d, "mark", e)) =>
                  ("UNREAD" \in gmail[e] <=> actions[c].target = "unread")

ClientsKnow ==
    \A c \in Clients : SweptIsGone(c) /\ FilesFirst(c) /\ StarIsCurrent(c) /\ TrashingIsTold(c)

ProviderKnows == \A e \in Emails : TrashIsTold(e) /\ StarIsTold(e) /\ ReadIsTold(e)

MailInd ==
    /\ MailTypes /\ ClientsKnow /\ ProviderKnows
    /\ FilesFollowMail /\ NothingOverwritten /\ StateFollowsFolder

LEMMA RowIsThere == NoLetter \notin LetterRows /\ \A row \in LetterRows : row # NoLetter
BY DEF NoLetter, LetterRows, Folders

LEMMA MailInitially == MailboxInit => MailInd
<1> SUFFICES ASSUME MailboxInit PROVE MailInd
  OBVIOUS
<1>1. MailTypes
  <2>1. letters \in [Emails -> LetterRows]
    BY DEF MailboxInit, LetterRows, Labels, Folders, Flags
  <2>2. actions \in [Clients -> ActionRecords] /\ \A c \in Clients : WellFormed(actions[c])
    BY MailboxAssumption DEF MailboxInit, Idle, ActionRecords, WellFormed, CallOps, Soft, LabelOps
  <2>3. trace \in TraceRecords
    BY DEF MailboxInit, TraceRecords
  <2>4. gmail \in [Emails -> SUBSET AtProvider]
    BY DEF MailboxInit, AtProvider, Labels, Flags
  <2>5. letters \in [Emails -> LetterRows \cup {NoLetter}]
    BY <2>1
  <2>6. files \subseteq Emails /\ begun \in 0..MaxActions /\ providerFaults \in 0..MaxProviderFaults
    <3>1. files = Emails /\ begun = 0 /\ providerFaults = 0
      BY DEF MailboxInit
    <3>2. MaxActions \in Nat /\ MaxProviderFaults \in Nat
      BY MailboxAssumption
    <3> QED BY <3>1, <3>2
  <2> QED BY <2>2, <2>3, <2>4, <2>5, <2>6 DEF MailTypes
<1>2. \A c \in Clients : actions[c].op = "none" /\ actions[c].step = "none"
  BY DEF MailboxInit, Idle
<1>3. ClientsKnow
  BY <1>2 DEF ClientsKnow, SweptIsGone, FilesFirst, StarIsCurrent, TrashingIsTold, Sweeping, At, Trashing, LabelOps
<1>4. \A e \in Emails : /\ InDb(e) /\ e \in files /\ letters[e].folder = "INBOX" /\ ~letters[e].trash
                        /\ ~letters[e].spam /\ ~letters[e].dated /\ letters[e].labels = {"INBOX"}
                        /\ letters[e].flags = {"UNREAD"} /\ gmail[e] = {"INBOX", "UNREAD"}
                        /\ trace.owed[e] = {} /\ e \notin trace.starred
  BY <1>1, RowIsThere DEF MailboxInit, InDb, NoLetter
<1>5. ProviderKnows
  BY <1>2, <1>4 DEF ProviderKnows, TrashIsTold, StarIsTold, ReadIsTold, Writes, At
<1>6. FilesFollowMail /\ NothingOverwritten /\ StateFollowsFolder
  BY <1>4 DEF FilesFollowMail, NothingOverwritten, StateFollowsFolder
<1> QED BY <1>1, <1>3, <1>5, <1>6 DEF MailInd

\* The folder of a set of labels: the first of the special ones in it.
LEMMA FolderOf ==
    ASSUME NEW labels
    PROVE  /\ DerivedFolder(labels) \in Folders
           /\ DerivedFolder(labels) = "TRASH" <=> "TRASH" \in labels
<1> DEFINE found == {i \in DOMAIN Special : Special[i] \in labels}
<1>1. DOMAIN Special = 1..4 /\ Special[1] = "TRASH" /\ Special[2] = "SPAM" /\ Special[3] = "SENT" /\ Special[4] = "DRAFT"
  BY DEF Special
<1>2. found \subseteq 1..4 /\ \A i \in 1..4 : i \in found <=> Special[i] \in labels
  BY <1>1
<1> HIDE DEF found
<1>3. CASE found = {}
  BY <1>1, <1>2, <1>3 DEF DerivedFolder, Folders, found
<1>4. CASE found # {}
  <2>1. \E i \in found : \A j \in found : i <= j
    <3>1. CASE 1 \in found
      BY <1>2, <3>1
    <3>2. CASE 1 \notin found /\ 2 \in found
      BY <1>2, <3>2
    <3>3. CASE 1 \notin found /\ 2 \notin found /\ 3 \in found
      BY <1>2, <3>3
    <3>4. CASE 1 \notin found /\ 2 \notin found /\ 3 \notin found
      <4>1. \A j \in found : j = 4
        BY <1>2, <3>4
      <4> QED BY <1>4, <4>1
    <3> QED BY <3>1, <3>2, <3>3, <3>4
  <2>2. Min(found) \in found /\ \A j \in found : Min(found) <= j
    BY <2>1 DEF Min
  <2> DEFINE least == Min(found)
  <2>a. least \in 1..4 /\ least \in found /\ \A j \in found : least <= j
    BY <1>2, <2>2
  <2> HIDE DEF least
  <2>b. least = 1 <=> 1 \in found
    BY <2>a
  <2>3. Min(found) \in 1..4 /\ (Min(found) = 1 <=> 1 \in found)
    BY <2>a, <2>b DEF least
  <2>4. DerivedFolder(labels) = Special[Min(found)]
    BY <1>4 DEF DerivedFolder, found
  <2> QED BY <1>1, <1>2, <2>3, <2>4 DEF Folders
<1> QED BY <1>3, <1>4

\* How a step moves the action of its client.
LEMMA Moves ==
    ASSUME MailTypes, NEW c \in Clients
    PROVE  /\ Finish(c) => actions'[c] = Idle
           /\ \A step : Goto(c, step) => actions'[c] = [actions[c] EXCEPT !.step = step]
           /\ \A step : Goto(c, step) \/ Finish(c) =>
                 DOMAIN actions' = Clients /\ \A d \in Clients \ {c} : actions'[d] = actions[d]
           /\ \A step : actions' = [actions EXCEPT ![c] = step] =>
                 /\ actions'[c] = step /\ \A d \in Clients \ {c} : actions'[d] = actions[d]
                 /\ actions' \in [Clients -> ActionRecords] <=> step \in ActionRecords
BY DEF MailTypes, Finish, Goto

\* What an UPDATE does, and what it leaves alone.
LEMMA WriteEffect ==
    ASSUME MailTypes, NEW e \in Emails, NEW row, NEW journal \in TraceRecords, Write(e, row, journal),
           InDb(e) => row \in LetterRows
    PROVE  /\ letters' \in [Emails -> LetterRows \cup {NoLetter}] /\ trace' \in TraceRecords
           /\ \A d \in Emails : InDb(d)' <=> InDb(d)
           /\ \A d \in Emails : d # e => letters'[d] = letters[d]
           /\ ~InDb(e) => letters' = letters /\ trace' = trace
           /\ InDb(e) => /\ letters'[e] = row
                         /\ trace'.owed = journal.owed /\ trace'.starred = journal.starred
                         /\ trace'.raced = journal.raced /\ trace'.failed = journal.failed
                         /\ trace'.refused = journal.refused /\ trace'.ruled = journal.ruled
                         /\ trace'.crossed = journal.crossed \cup CrossesSweep(e, row)
<1>1. CrossesSweep(e, row) \subseteq Emails
  BY DEF CrossesSweep
<1>2. CASE InDb(e)
  <2>1. /\ letters' = [letters EXCEPT ![e] = row]
        /\ trace' = [journal EXCEPT !.crossed = @ \cup CrossesSweep(e, row)]
    BY <1>2 DEF Write
  <2>2. letters'[e] = row /\ \A d \in Emails : d # e => letters'[d] = letters[d]
    BY <2>1 DEF MailTypes
  <2>3. letters' \in [Emails -> LetterRows \cup {NoLetter}]
    BY <1>2, <2>1 DEF MailTypes
  <2>4. \A d \in Emails : InDb(d)' <=> InDb(d)
    BY <1>2, <2>2, RowIsThere DEF InDb
  <2>5. /\ trace'.owed = journal.owed /\ trace'.starred = journal.starred
        /\ trace'.raced = journal.raced /\ trace'.failed = journal.failed
        /\ trace'.refused = journal.refused /\ trace'.ruled = journal.ruled
        /\ trace'.crossed = journal.crossed \cup CrossesSweep(e, row)
        /\ trace' \in TraceRecords
    BY <1>1, <2>1 DEF TraceRecords
  <2> QED BY <1>2, <2>2, <2>3, <2>4, <2>5
<1>3. CASE ~InDb(e)
  BY <1>3 DEF Write, MailTypes, InDb
<1> QED BY <1>2, <1>3

\* Steps that only look: they leave every record alone but the one of their client,
\* and that one promises nothing that was not known.
LEMMA LookKeeps ==
    ASSUME MailInd, NEW c \in Clients, UNCHANGED <<letters, gmail, files, trace>>,
           begun' \in 0..MaxActions, providerFaults' = providerFaults,
           actions' \in [Clients -> ActionRecords], WellFormed(actions'[c]),
           \A d \in Clients \ {c} : actions'[d] = actions[d],
           ~At(c, {"hard"}, "delete"), ~Sweeping(c), ~At(c, {"star", "mark"}, "write"),
           ~At(c, {"hard"}, "delete")', ~Sweeping(c)', ~At(c, {"star", "mark"}, "write")',
           StarIsCurrent(c)', TrashingIsTold(c)'
    PROVE  MailInd'
<1>1. MailTypes'
  BY DEF MailInd, MailTypes
<1>2. \A d \in Clients \ {c} :
         /\ Sweeping(d)' <=> Sweeping(d)
         /\ \A ops, step : At(d, ops, step)' <=> At(d, ops, step)
         /\ \A op, e : Writes(d, op, e)' <=> Writes(d, op, e)
  BY DEF Sweeping, At, Writes
<1>3. \A e : InDb(e)' <=> InDb(e)
  BY DEF InDb
<1>4. ClientsKnow'
  <2> SUFFICES ASSUME NEW d \in Clients
               PROVE  SweptIsGone(d)' /\ FilesFirst(d)' /\ StarIsCurrent(d)' /\ TrashingIsTold(d)'
    BY DEF ClientsKnow
  <2>1. CASE d = c
    BY <2>1 DEF SweptIsGone, FilesFirst
  <2>2. CASE d # c
    <3>1. SweptIsGone(d) /\ FilesFirst(d) /\ StarIsCurrent(d) /\ TrashingIsTold(d)
      BY DEF MailInd, ClientsKnow
    <3> QED BY <2>2, <3>1
            DEF SweptIsGone, FilesFirst, StarIsCurrent, TrashingIsTold, Sweeping, At, InDb, Told, Trashing
  <2> QED BY <2>1, <2>2
<1>5. \A e : ~Writes(c, "star", e) /\ ~Writes(c, "star", e)' /\ ~Writes(c, "mark", e) /\ ~Writes(c, "mark", e)'
  BY DEF Writes, At
<1>6. ProviderKnows'
  <2> SUFFICES ASSUME NEW e \in Emails PROVE TrashIsTold(e)' /\ StarIsTold(e)' /\ ReadIsTold(e)'
    BY DEF ProviderKnows
  <2>0. TrashIsTold(e) /\ StarIsTold(e) /\ ReadIsTold(e)
    BY DEF MailInd, ProviderKnows
  <2>1. Told(e)' <=> Told(e)
    BY DEF Told, InDb
  <2>2. TrashIsTold(e)'
    BY <2>0, <2>1 DEF TrashIsTold
  <2>3. StarIsTold(e)'
    BY <2>0, <2>1, <1>2, <1>5 DEF StarIsTold
  <2>4. ReadIsTold(e)'
    BY <2>0, <2>1, <1>2, <1>5 DEF ReadIsTold
  <2> QED BY <2>2, <2>3, <2>4
<1>7. FilesFollowMail'
  <2> SUFFICES ASSUME NEW e \in Emails
               PROVE  /\ InDb(e)' /\ e \notin files' =>
                            \/ e \in trace'.refused \cup trace'.crossed
                            \/ \E d \in Clients :
                                  \/ At(d, {"hard"}, "delete")' /\ actions'[d].email = e
                                  \/ Sweeping(d)' /\ e \in actions'[d].listed \ actions'[d].seen
                      /\ ~InDb(e)' /\ e \in files' => e \in trace'.crossed \cup trace'.ruled
    BY DEF FilesFollowMail
  <2>1. /\ InDb(e) /\ e \notin files =>
                            \/ e \in trace.refused \cup trace.crossed
                            \/ \E d \in Clients \ {c} :
                                  \/ At(d, {"hard"}, "delete") /\ actions[d].email = e
                                  \/ Sweeping(d) /\ e \in actions[d].listed \ actions[d].seen
        /\ ~InDb(e) /\ e \in files => e \in trace.crossed \cup trace.ruled
    BY DEF MailInd, FilesFollowMail
  <2> QED BY <2>1, <1>2, <1>3
<1>8. NothingOverwritten' /\ StateFollowsFolder'
  BY <1>3 DEF MailInd, NothingOverwritten, StateFollowsFolder
<1> QED BY <1>1, <1>4, <1>6, <1>7, <1>8 DEF MailInd

\* What makes an UPDATE by c of the row of e sound.  The history that goes with it
\* differs at e only.
OnlyAt(e, journal) ==
    /\ journal.failed = trace.failed /\ journal.crossed = trace.crossed /\ journal.refused = trace.refused
    /\ trace.ruled \subseteq journal.ruled /\ trace.raced \subseteq journal.raced
    /\ \A d \in Emails \ {e} : /\ d \in journal.ruled <=> d \in trace.ruled
                               /\ d \in journal.raced <=> d \in trace.raced
                               /\ d \in journal.starred <=> d \in trace.starred
                               /\ journal.owed[d] = trace.owed[d]

KeepsPromises(e, row, journal) ==
    e \notin journal.raced => /\ journal.owed[e] \subseteq row.labels
                              /\ "STARRED" \in row.flags <=> e \in journal.starred

KeepsPlace(e, row, journal) ==
    e \notin journal.ruled => /\ row.trash <=> row.folder = "TRASH"
                              /\ row.spam <=> row.folder = "SPAM"
                              /\ row.dated => row.trash

KeepsFlags(c, e, row, journal) ==
    /\ \A d \in Clients \ {c} :
          (At(d, {"star"}, "call") \/ At(d, {"star"}, "write")) /\ actions[d].email = e /\ e \notin journal.raced =>
              ("STARRED" \in row.flags <=> "STARRED" \in letters[e].flags)
    /\ Told(e) /\ e \notin journal.ruled \cup journal.raced =>
          /\ (\A d \in Clients \ {c} : ~Writes(d, "star", e)) =>
                 ("STARRED" \in gmail[e] <=> "STARRED" \in row.flags)
          /\ (\A d \in Clients \ {c} : ~Writes(d, "mark", e)) =>
                 ("UNREAD" \in gmail[e] <=> "UNREAD" \in row.flags)
          /\ Writes(c, "mark", e) => \A d \in Clients \ {c} : ~Writes(d, "mark", e)

KeepsTold(e, row, journal) ==
    Told(e) /\ e \notin journal.ruled /\ (row.trash \/ "TRASH" \in row.labels) => "TRASH" \in gmail[e]

LEMMA WriteKeeps ==
    ASSUME MailInd, NEW c \in Clients, NEW e \in Emails, NEW row, NEW journal \in TraceRecords,
           e = actions[c].email, Write(e, row, journal), OnlyAt(e, journal),
           UNCHANGED <<gmail, files, begun, providerFaults>>,
           actions' \in [Clients -> ActionRecords], WellFormed(actions'[c]),
           \A d \in Clients \ {c} : actions'[d] = actions[d],
           actions[c].op \notin {"none", "empty", "hard"},
           \/ actions'[c] = Idle
           \/ /\ actions'[c].op \in {"folder", "label"} /\ actions'[c].email = e
              /\ Told(e) /\ Trashing(actions'[c]) => "TRASH" \in gmail[e],
           InDb(e) => /\ row \in LetterRows /\ KeepsPromises(e, row, journal)
                      /\ KeepsPlace(e, row, journal) /\ KeepsFlags(c, e, row, journal)
                      /\ KeepsTold(e, row, journal)
    PROVE  MailInd'
<1>1. /\ letters' \in [Emails -> LetterRows \cup {NoLetter}] /\ trace' \in TraceRecords
      /\ \A d \in Emails : InDb(d)' <=> InDb(d)
      /\ \A d \in Emails : d # e => letters'[d] = letters[d]
      /\ ~InDb(e) => letters' = letters /\ trace' = trace
      /\ InDb(e) => /\ letters'[e] = row
                    /\ trace'.owed = journal.owed /\ trace'.starred = journal.starred
                    /\ trace'.raced = journal.raced /\ trace'.failed = journal.failed
                    /\ trace'.refused = journal.refused /\ trace'.ruled = journal.ruled
                    /\ trace'.crossed = journal.crossed \cup CrossesSweep(e, row)
  BY WriteEffect DEF MailInd
<1>2. MailTypes'
  BY <1>1 DEF MailInd, MailTypes
<1>3. /\ trace.raced \subseteq trace'.raced /\ trace.failed = trace'.failed /\ trace.refused = trace'.refused
      /\ trace.ruled \subseteq trace'.ruled /\ trace.crossed \subseteq trace'.crossed
      /\ \A d \in Emails \ {e} : /\ d \in trace'.ruled <=> d \in trace.ruled
                                 /\ d \in trace'.raced <=> d \in trace.raced
                                 /\ d \in trace'.starred <=> d \in trace.starred
                                 /\ trace'.owed[d] = trace.owed[d]
  BY <1>1 DEF OnlyAt
<1>4. /\ ~At(c, {"hard"}, "delete") /\ ~Sweeping(c)
      /\ ~At(c, {"hard"}, "delete")' /\ ~Sweeping(c)'
      /\ ~At(c, {"star"}, "call")' /\ ~At(c, {"star"}, "write")'
      /\ \A d : ~Writes(c, "star", d)' /\ ~Writes(c, "mark", d)'
  BY DEF At, Sweeping, Writes, Idle
<1>5. \A d \in Clients \ {c} :
         /\ Sweeping(d)' <=> Sweeping(d)
         /\ \A ops, step : At(d, ops, step)' <=> At(d, ops, step)
         /\ \A op, b : Writes(d, op, b)' <=> Writes(d, op, b)
         /\ Trashing(actions'[d]) <=> Trashing(actions[d])
  BY DEF Sweeping, At, Writes
<1>6. \A d \in Emails : Told(d)' => Told(d)
  BY <1>1, <1>3 DEF Told
<1>7. ClientsKnow'
  <2> SUFFICES ASSUME NEW d \in Clients
               PROVE  SweptIsGone(d)' /\ FilesFirst(d)' /\ StarIsCurrent(d)' /\ TrashingIsTold(d)'
    BY DEF ClientsKnow
  <2>1. CASE d = c
    <3>1. SweptIsGone(d)' /\ FilesFirst(d)' /\ StarIsCurrent(d)'
      BY <1>4, <2>1 DEF SweptIsGone, FilesFirst, StarIsCurrent
    <3>2. TrashingIsTold(d)'
      <4>1. CASE actions'[c] = Idle
        <5>1. ~Trashing(actions'[c])
          BY <4>1 DEF Trashing, Idle, LabelOps
        <5> QED BY <5>1, <2>1 DEF TrashingIsTold
      <4>2. CASE /\ actions'[c].op \in {"folder", "label"} /\ actions'[c].email = e
                 /\ Told(e) /\ Trashing(actions'[c]) => "TRASH" \in gmail[e]
        BY <4>2, <2>1, <1>6 DEF TrashingIsTold
      <4> QED BY <4>1, <4>2
    <3> QED BY <3>1, <3>2
  <2>2. CASE d # c
    <3>0. SweptIsGone(d) /\ FilesFirst(d) /\ StarIsCurrent(d) /\ TrashingIsTold(d)
      BY DEF MailInd, ClientsKnow
    <3>1. SweptIsGone(d)'
      <4> SUFFICES ASSUME Sweeping(d), NEW b \in Emails, InDb(b)
                   PROVE  /\ (b \in actions[d].listed) # letters'[b].trash => b \in trace'.crossed
                          /\ b \in actions[d].listed \ actions[d].seen => b \notin files
        BY <1>1, <1>5, <2>2 DEF SweptIsGone
      <4>1. CASE b # e
        BY <4>1, <1>1, <1>3, <3>0 DEF SweptIsGone
      <4>2. CASE b = e
        <5>1. (e \in actions[d].listed) # row.trash => e \in CrossesSweep(e, row)
          BY <4>2 DEF CrossesSweep
        <5> QED BY <4>2, <5>1, <1>1, <3>0 DEF SweptIsGone
      <4> QED BY <4>1, <4>2
    <3>a. actions'[d] = actions[d] /\ WellFormed(actions[d])
      BY <2>2 DEF MailInd, MailTypes
    <3>2. FilesFirst(d)'
      <4> SUFFICES ASSUME At(d, {"hard"}, "delete"), InDb(actions[d].email)' PROVE actions[d].email \notin files
        BY <1>5, <2>2, <3>a DEF FilesFirst
      <4>1. actions[d].email \in Emails
        BY <3>a DEF WellFormed, CallOps, At
      <4> QED BY <3>0, <3>a, <4>1, <1>1 DEF FilesFirst
    <3>3. StarIsCurrent(d)'
      <4> SUFFICES ASSUME At(d, {"star"}, "call") \/ At(d, {"star"}, "write"),
                          InDb(actions[d].email)', actions[d].email \notin trace'.raced
                   PROVE  actions[d].seen = {} <=> "STARRED" \notin letters'[actions[d].email].flags
        BY <1>5, <2>2 DEF StarIsCurrent
      <4>1. actions[d].email \in Emails /\ InDb(actions[d].email)
        <5>1. actions[d].op = "star"
          BY DEF At
        <5> QED BY <5>1, <3>a, <1>1 DEF WellFormed, CallOps
      <4>2. actions[d].email \notin trace.raced
        BY <1>3
      <4>3. actions[d].seen = {} <=> "STARRED" \notin letters[actions[d].email].flags
        BY <3>0, <4>1, <4>2 DEF StarIsCurrent
      <4>4. CASE actions[d].email # e
        BY <4>1, <4>3, <4>4, <1>1
      <4>5. CASE actions[d].email = e
        <5>1. InDb(e) /\ e \notin journal.raced
          BY <4>1, <4>5, <1>1
        <5>2. "STARRED" \in row.flags <=> "STARRED" \in letters[e].flags
          BY <5>1, <2>2, <4>5 DEF KeepsFlags
        <5> QED BY <5>1, <5>2, <4>3, <4>5, <1>1
      <4> QED BY <4>4, <4>5
    <3>4. TrashingIsTold(d)'
      <4> SUFFICES ASSUME Trashing(actions[d]), Told(actions[d].email)' PROVE "TRASH" \in gmail[actions[d].email]
        BY <1>5, <2>2 DEF TrashingIsTold
      <4>1. actions[d].email \in Emails
        BY MailboxAssumption DEF MailInd, MailTypes, WellFormed, Trashing, LabelOps, CallOps, Soft, ActionRecords
      <4> QED BY <3>0, <3>a, <4>1, <1>6 DEF TrashingIsTold
    <3> QED BY <3>1, <3>2, <3>3, <3>4
  <2> QED BY <2>1, <2>2
<1>8. ProviderKnows'
  <2> SUFFICES ASSUME NEW b \in Emails PROVE TrashIsTold(b)' /\ StarIsTold(b)' /\ ReadIsTold(b)'
    BY DEF ProviderKnows
  <2>0. TrashIsTold(b) /\ StarIsTold(b) /\ ReadIsTold(b)
    BY DEF MailInd, ProviderKnows
  <2>1. CASE b # e
    <3>1. /\ ~Writes(c, "star", b) /\ ~Writes(c, "mark", b) /\ letters'[b] = letters[b]
          /\ b \in trace'.raced <=> b \in trace.raced
      BY <2>1, <1>1, <1>3 DEF Writes
    <3>2. TrashIsTold(b)'
      BY <2>0, <3>1, <1>6 DEF TrashIsTold
    <3>3. StarIsTold(b)'
      BY <2>0, <3>1, <1>4, <1>5, <1>6 DEF StarIsTold
    <3>4. ReadIsTold(b)'
      BY <2>0, <3>1, <1>4, <1>5, <1>6 DEF ReadIsTold
    <3> QED BY <3>2, <3>3, <3>4
  <2>2. CASE b = e /\ Told(e)'
    <3>1. /\ InDb(e) /\ Told(e) /\ letters'[e] = row /\ e \notin journal.ruled /\ trace'.raced = journal.raced
          /\ trace'.ruled = journal.ruled
      BY <2>2, <1>1, <1>6 DEF Told
    <3>2. TrashIsTold(b)'
      BY <2>2, <3>1 DEF TrashIsTold, KeepsTold
    <3>3. StarIsTold(b)'
      <4> SUFFICES ASSUME e \notin journal.raced
                   PROVE  /\ (\A d \in Clients : ~Writes(d, "star", e)') =>
                                  ("STARRED" \in gmail[e] <=> "STARRED" \in row.flags)
                          /\ \A d \in Clients : Writes(d, "star", e)' =>
                                  ("STARRED" \in gmail[e] <=> actions'[d].seen = {})
        BY <2>2, <3>1 DEF StarIsTold
      <4>1. (\A d \in Clients \ {c} : ~Writes(d, "star", e)) => ("STARRED" \in gmail[e] <=> "STARRED" \in row.flags)
        BY <3>1 DEF KeepsFlags
      <4>2. e \notin trace.raced
        BY <3>1, <1>3
      <4>3. \A d \in Clients \ {c} : Writes(d, "star", e) => ("STARRED" \in gmail[e] <=> actions[d].seen = {})
        BY <2>0, <2>2, <3>1, <4>2 DEF StarIsTold
      <4> QED BY <4>1, <4>3, <1>4, <1>5
    <3>4. ReadIsTold(b)'
      <4> SUFFICES ASSUME e \notin journal.raced
                   PROVE  /\ (\A d \in Clients : ~Writes(d, "mark", e)') =>
                                  ("UNREAD" \in gmail[e] <=> "UNREAD" \in row.flags)
                          /\ \A d \in Clients :
                                Writes(d, "mark", e)' /\ (\A a \in Clients \ {d} : ~Writes(a, "mark", e)') =>
                                  ("UNREAD" \in gmail[e] <=> actions'[d].target = "unread")
        BY <2>2, <3>1 DEF ReadIsTold
      <4>1. /\ (\A d \in Clients \ {c} : ~Writes(d, "mark", e)) => ("UNREAD" \in gmail[e] <=> "UNREAD" \in row.flags)
            /\ Writes(c, "mark", e) => \A d \in Clients \ {c} : ~Writes(d, "mark", e)
        BY <3>1 DEF KeepsFlags
      <4>2. e \notin trace.raced
        BY <3>1, <1>3
      <4>3. \A d \in Clients : Writes(d, "mark", e) /\ (\A a \in Clients \ {d} : ~Writes(a, "mark", e)) =>
                ("UNREAD" \in gmail[e] <=> actions[d].target = "unread")
        BY <2>0, <2>2, <3>1, <4>2 DEF ReadIsTold
      <4>4. (\A d \in Clients : ~Writes(d, "mark", e)') => ("UNREAD" \in gmail[e] <=> "UNREAD" \in row.flags)
        BY <4>1, <1>5
      <4>5. ASSUME NEW d \in Clients, Writes(d, "mark", e)', \A a \in Clients \ {d} : ~Writes(a, "mark", e)'
            PROVE  "UNREAD" \in gmail[e] <=> actions'[d].target = "unread"
        <5>1. d # c /\ Writes(d, "mark", e)
          BY <4>5, <1>4, <1>5
        <5>2. ~Writes(c, "mark", e)
          BY <4>1, <5>1
        <5>3. \A a \in Clients \ {d} : ~Writes(a, "mark", e)
          BY <4>5, <5>2, <1>5
        <5> QED BY <4>3, <5>1, <5>3
      <4> QED BY <4>4, <4>5
    <3> QED BY <3>2, <3>3, <3>4
  <2>3. CASE b = e /\ ~Told(e)'
    BY <2>3 DEF TrashIsTold, StarIsTold, ReadIsTold
  <2> QED BY <2>1, <2>2, <2>3
<1>9. FilesFollowMail'
  <2> SUFFICES ASSUME NEW b \in Emails
               PROVE  /\ InDb(b)' /\ b \notin files' =>
                            \/ b \in trace'.refused \cup trace'.crossed
                            \/ \E d \in Clients :
                                  \/ At(d, {"hard"}, "delete")' /\ actions'[d].email = b
                                  \/ Sweeping(d)' /\ b \in actions'[d].listed \ actions'[d].seen
                      /\ ~InDb(b)' /\ b \in files' => b \in trace'.crossed \cup trace'.ruled
    BY DEF FilesFollowMail
  <2>1. /\ InDb(b) /\ b \notin files =>
                            \/ b \in trace.refused \cup trace.crossed
                            \/ \E d \in Clients \ {c} :
                                  \/ At(d, {"hard"}, "delete") /\ actions[d].email = b
                                  \/ Sweeping(d) /\ b \in actions[d].listed \ actions[d].seen
        /\ ~InDb(b) /\ b \in files => b \in trace.crossed \cup trace.ruled
    BY <1>4 DEF MailInd, FilesFollowMail
  <2> QED BY <2>1, <1>1, <1>3, <1>5
<1>10. NothingOverwritten'
  <2> SUFFICES ASSUME NEW b \in Emails \ trace'.raced, InDb(b)'
               PROVE  /\ trace'.owed[b] \subseteq letters'[b].labels
                      /\ "STARRED" \in letters'[b].flags <=> b \in trace'.starred
    BY DEF NothingOverwritten
  <2>1. CASE b = e
    BY <2>1, <1>1 DEF KeepsPromises
  <2>2. CASE b # e
    BY <2>2, <1>1, <1>3 DEF MailInd, NothingOverwritten
  <2> QED BY <2>1, <2>2
<1>11. StateFollowsFolder'
  <2> SUFFICES ASSUME NEW b \in Emails \ trace'.ruled, InDb(b)'
               PROVE  /\ letters'[b].trash <=> letters'[b].folder = "TRASH"
                      /\ letters'[b].spam <=> letters'[b].folder = "SPAM"
                      /\ letters'[b].dated => letters'[b].trash
    BY DEF StateFollowsFolder
  <2>1. CASE b = e
    BY <2>1, <1>1 DEF KeepsPlace
  <2>2. CASE b # e
    BY <2>2, <1>1, <1>3 DEF MailInd, StateFollowsFolder
  <2> QED BY <2>1, <2>2
<1> QED BY <1>2, <1>7, <1>8, <1>9, <1>10, <1>11 DEF MailInd

\* A row that keeps its flags, and the emails of a request that has no flag to write.
LEMMA SameFlags ==
    ASSUME MailInd, NEW c \in Clients, NEW e \in Emails, NEW row, NEW journal, OnlyAt(e, journal),
           row.flags = letters[e].flags, ~At(c, {"star", "mark"}, "write")
    PROVE  KeepsFlags(c, e, row, journal)
<1>1. \A d \in Clients : ~Writes(d, "star", e) \/ d \in Clients \ {c}
  BY DEF Writes, At
<1>2. \A d \in Clients : ~Writes(d, "mark", e) \/ d \in Clients \ {c}
  BY DEF Writes, At
<1>3. e \notin journal.raced => e \notin trace.raced
  BY DEF OnlyAt
<1>4. StarIsTold(e) /\ ReadIsTold(e)
  BY DEF MailInd, ProviderKnows
<1>5. ~Writes(c, "mark", e)
  BY DEF Writes, At
<1>6. Told(e) /\ e \notin journal.raced =>
         /\ (\A d \in Clients \ {c} : ~Writes(d, "star", e)) => ("STARRED" \in gmail[e] <=> "STARRED" \in row.flags)
         /\ (\A d \in Clients \ {c} : ~Writes(d, "mark", e)) => ("UNREAD" \in gmail[e] <=> "UNREAD" \in row.flags)
  BY <1>1, <1>2, <1>3, <1>4 DEF StarIsTold, ReadIsTold
<1> QED BY <1>5, <1>6 DEF KeepsFlags

\* The action of a client that writes, and of one that is done.
LEMMA Acting ==
    ASSUME MailInd, NEW c \in Clients
    PROVE  /\ actions[c] \in ActionRecords /\ WellFormed(actions[c])
           /\ actions[c].op \notin {"none", "empty"} => actions[c].email \in Emails
           /\ Finish(c) => /\ actions'[c] = Idle /\ WellFormed(Idle) /\ actions' \in [Clients -> ActionRecords]
                           /\ \A d \in Clients \ {c} : actions'[d] = actions[d]
<1>1. actions[c] \in ActionRecords /\ WellFormed(actions[c])
  BY DEF MailInd, MailTypes
<1>2. actions[c].op \notin {"none", "empty"} => actions[c].email \in Emails
  BY <1>1 DEF ActionRecords, WellFormed
<1>3. Idle \in ActionRecords /\ WellFormed(Idle)
  BY MailboxAssumption DEF Idle, ActionRecords, WellFormed, CallOps, LabelOps, Soft
<1>4. Finish(c) => /\ actions'[c] = Idle /\ actions' \in [Clients -> ActionRecords]
                   /\ \A d \in Clients \ {c} : actions'[d] = actions[d]
  BY <1>3 DEF Finish, MailInd, MailTypes
<1> QED BY <1>1, <1>2, <1>3, <1>4

LEMMA GoesOn ==
    ASSUME MailInd, NEW c \in Clients, NEW step \in {"call", "write", "labels", "state", "files", "delete"}, Goto(c, step)
    PROVE  /\ actions'[c] = [actions[c] EXCEPT !.step = step] /\ actions' \in [Clients -> ActionRecords]
           /\ actions'[c].op = actions[c].op /\ actions'[c].email = actions[c].email
           /\ actions'[c].target = actions[c].target /\ actions'[c].seen = actions[c].seen
           /\ actions'[c].listed = actions[c].listed /\ actions'[c].step = step
           /\ \A d \in Clients \ {c} : actions'[d] = actions[d]
BY DEF Goto, MailInd, MailTypes, ActionRecords

\* The row of an email that is there.
LEMMA RowOf ==
    ASSUME MailInd, NEW e \in Emails, InDb(e)
    PROVE  letters[e] \in LetterRows
BY DEF MailInd, MailTypes, InDb

LEMMA WriteArchiveKeeps == ASSUME MailInd, NEW c \in Clients, WriteArchive(c) PROVE MailInd'
<1> DEFINE e == actions[c].email
           row == [letters[e] EXCEPT !.labels = {"ARCHIVED"}, !.archived = TRUE]
           journal == [trace EXCEPT !.owed[e] = {}]
<1>1. /\ actions[c].op = "archive" /\ Write(e, row, journal) /\ Finish(c)
      /\ UNCHANGED <<gmail, files, begun, providerFaults>>
  BY DEF WriteArchive, At
<1>2. e \in Emails
  BY <1>1, Acting
<1>3. journal \in TraceRecords /\ OnlyAt(e, journal) /\ journal.owed[e] = {}
      /\ journal.raced = trace.raced /\ journal.ruled = trace.ruled /\ journal.starred = trace.starred
  BY <1>2 DEF MailInd, MailTypes, TraceRecords, OnlyAt
<1>4. InDb(e) => /\ row \in LetterRows /\ row.labels = {"ARCHIVED"} /\ row.flags = letters[e].flags
                 /\ row.folder = letters[e].folder /\ row.trash = letters[e].trash
                 /\ row.spam = letters[e].spam /\ row.dated = letters[e].dated
  BY <1>2, RowOf DEF LetterRows, Labels
<1> HIDE DEF row, journal, e
<1>5. InDb(e) => KeepsPromises(e, row, journal) /\ KeepsPlace(e, row, journal)
  BY <1>2, <1>3, <1>4 DEF KeepsPromises, KeepsPlace, MailInd, NothingOverwritten, StateFollowsFolder
<1>6. InDb(e) => KeepsTold(e, row, journal)
  BY <1>2, <1>4 DEF KeepsTold, MailInd, ProviderKnows, TrashIsTold
<1>7. InDb(e) => KeepsFlags(c, e, row, journal)
  BY <1>1, <1>2, <1>3, <1>4, SameFlags DEF At
<1>8. e = actions[c].email
  BY DEF e
<1> QED BY <1>1, <1>2, <1>3, <1>4, <1>5, <1>6, <1>7, <1>8, Acting, WriteKeeps

\* The star: what the request read is the flag of the row, or another request
\* is at the same email.
LEMMA WriteStarKeeps == ASSUME MailInd, NEW c \in Clients, WriteStar(c) PROVE MailInd'
<1> DEFINE e == actions[c].email
           rival == Rival(c, "star", {"call", "write"})
           row == [letters[e] EXCEPT !.flags = Flip(@, "STARRED", actions[c].seen = {})]
           journal == [trace EXCEPT !.starred = Flip(@, e, e \notin @),
                                    !.raced = @ \cup (IF rival THEN {e} ELSE {})]
<1>1. /\ actions[c].op = "star" /\ At(c, {"star"}, "write") /\ Write(e, row, journal) /\ Finish(c)
      /\ UNCHANGED <<gmail, files, begun, providerFaults>>
  BY DEF WriteStar, At
<1>2. e \in Emails /\ e = actions[c].email
  BY <1>1, Acting
<1>3. /\ journal \in TraceRecords /\ OnlyAt(e, journal) /\ journal.owed = trace.owed
      /\ journal.ruled = trace.ruled /\ trace.raced \subseteq journal.raced
      /\ rival => e \in journal.raced
      /\ e \in journal.starred <=> e \notin trace.starred
  BY <1>2 DEF MailInd, MailTypes, TraceRecords, OnlyAt, Flip
<1>4. InDb(e) => /\ row \in LetterRows /\ row.labels = letters[e].labels
                 /\ row.folder = letters[e].folder /\ row.trash = letters[e].trash
                 /\ row.spam = letters[e].spam /\ row.dated = letters[e].dated
                 /\ "STARRED" \in row.flags <=> actions[c].seen = {}
                 /\ "UNREAD" \in row.flags <=> "UNREAD" \in letters[e].flags
  BY <1>2, RowOf DEF LetterRows, Flags, Flip
<1>5. ~rival => \A d \in Clients \ {c} : ~((At(d, {"star"}, "call") \/ At(d, {"star"}, "write")) /\ actions[d].email = e)
  BY DEF Rival, At
<1> HIDE DEF row, journal, e, rival
<1>6. e \notin journal.raced => ~rival /\ e \notin trace.raced
  BY <1>3
<1>7. InDb(e) /\ e \notin journal.raced => ("STARRED" \in letters[e].flags <=> actions[c].seen # {})
  BY <1>1, <1>2, <1>6 DEF MailInd, ClientsKnow, StarIsCurrent
<1>8. InDb(e) => KeepsPromises(e, row, journal) /\ KeepsPlace(e, row, journal)
  <2> SUFFICES ASSUME InDb(e) PROVE KeepsPromises(e, row, journal) /\ KeepsPlace(e, row, journal)
    OBVIOUS
  <2>1. KeepsPlace(e, row, journal)
    BY <1>2, <1>3, <1>4 DEF KeepsPlace, MailInd, StateFollowsFolder
  <2>2. KeepsPromises(e, row, journal)
    BY <1>2, <1>3, <1>4, <1>6, <1>7 DEF KeepsPromises, MailInd, NothingOverwritten
  <2> QED BY <2>1, <2>2
<1>9. InDb(e) => KeepsTold(e, row, journal)
  BY <1>2, <1>4 DEF KeepsTold, MailInd, ProviderKnows, TrashIsTold
<1>10. InDb(e) => KeepsFlags(c, e, row, journal)
  <2> SUFFICES ASSUME InDb(e) PROVE KeepsFlags(c, e, row, journal)
    OBVIOUS
  <2>1. ASSUME e \notin journal.raced, Told(e)
        PROVE  "STARRED" \in gmail[e] <=> "STARRED" \in row.flags
    <3>1. Writes(c, "star", e)
      BY <1>1, <1>2 DEF Writes
    <3> QED BY <2>1, <3>1, <1>2, <1>4, <1>6 DEF MailInd, ProviderKnows, StarIsTold
  <2>2. ASSUME e \notin journal.raced, Told(e), \A d \in Clients \ {c} : ~Writes(d, "mark", e)
        PROVE  "UNREAD" \in gmail[e] <=> "UNREAD" \in row.flags
    <3>1. ~Writes(c, "mark", e)
      BY <1>1 DEF Writes, At
    <3>2. \A d \in Clients : ~Writes(d, "mark", e)
      BY <2>2, <3>1
    <3> QED BY <2>2, <3>2, <1>2, <1>4, <1>6 DEF MailInd, ProviderKnows, ReadIsTold
  <2>3. ~Writes(c, "mark", e)
    BY <1>1 DEF Writes, At
  <2> QED BY <2>1, <2>2, <2>3, <1>5, <1>6 DEF KeepsFlags, e
<1> QED BY <1>1, <1>2, <1>3, <1>4, <1>8, <1>9, <1>10, Acting, WriteKeeps

LEMMA WriteReadKeeps == ASSUME MailInd, NEW c \in Clients, WriteRead(c) PROVE MailInd'
<1> DEFINE e == actions[c].email
           rival == Rival(c, "mark", {"write"})
           row == [letters[e] EXCEPT !.flags = Flip(@, "UNREAD", actions[c].target = "unread")]
           journal == [trace EXCEPT !.raced = @ \cup (IF rival THEN {e} ELSE {})]
<1>1. /\ actions[c].op = "mark" /\ At(c, {"mark"}, "write") /\ Write(e, row, journal) /\ Finish(c)
      /\ UNCHANGED <<gmail, files, begun, providerFaults>>
  BY DEF WriteRead, At
<1>2. e \in Emails /\ e = actions[c].email
  BY <1>1, Acting
<1>3. /\ journal \in TraceRecords /\ OnlyAt(e, journal) /\ journal.owed = trace.owed
      /\ journal.ruled = trace.ruled /\ trace.raced \subseteq journal.raced
      /\ journal.starred = trace.starred
      /\ rival => e \in journal.raced
  BY <1>2 DEF MailInd, MailTypes, TraceRecords, OnlyAt
<1>4. InDb(e) => /\ row \in LetterRows /\ row.labels = letters[e].labels
                 /\ row.folder = letters[e].folder /\ row.trash = letters[e].trash
                 /\ row.spam = letters[e].spam /\ row.dated = letters[e].dated
                 /\ "UNREAD" \in row.flags <=> actions[c].target = "unread"
                 /\ "STARRED" \in row.flags <=> "STARRED" \in letters[e].flags
  BY <1>2, RowOf DEF LetterRows, Flags, Flip
<1>5. ~rival => \A d \in Clients \ {c} : ~Writes(d, "mark", e)
  BY DEF Rival, At, Writes
<1> HIDE DEF row, journal, e, rival
<1>6. e \notin journal.raced => ~rival /\ e \notin trace.raced
  <2>1. trace.raced \subseteq journal.raced /\ (rival => e \in journal.raced)
    BY <1>3
  <2> QED BY <2>1
<1>8. InDb(e) => KeepsPromises(e, row, journal) /\ KeepsPlace(e, row, journal)
  <2> SUFFICES ASSUME InDb(e) PROVE KeepsPromises(e, row, journal) /\ KeepsPlace(e, row, journal)
    OBVIOUS
  <2>1. KeepsPlace(e, row, journal)
    BY <1>2, <1>3, <1>4 DEF KeepsPlace, MailInd, StateFollowsFolder
  <2>2. KeepsPromises(e, row, journal)
    BY <1>2, <1>3, <1>4, <1>6 DEF KeepsPromises, MailInd, NothingOverwritten
  <2> QED BY <2>1, <2>2
<1>9. InDb(e) => KeepsTold(e, row, journal)
  BY <1>2, <1>4 DEF KeepsTold, MailInd, ProviderKnows, TrashIsTold
<1>10. InDb(e) => KeepsFlags(c, e, row, journal)
  <2> SUFFICES ASSUME InDb(e) PROVE KeepsFlags(c, e, row, journal)
    OBVIOUS
  <2>1. ASSUME e \notin journal.raced, Told(e), \A d \in Clients \ {c} : ~Writes(d, "star", e)
        PROVE  "STARRED" \in gmail[e] <=> "STARRED" \in row.flags
    <3>1. ~Writes(c, "star", e)
      BY <1>1 DEF Writes, At
    <3>2. \A d \in Clients : ~Writes(d, "star", e)
      BY <2>1, <3>1
    <3> QED BY <2>1, <3>2, <1>2, <1>4, <1>6 DEF MailInd, ProviderKnows, StarIsTold
  <2>2. ASSUME e \notin journal.raced, Told(e)
        PROVE  "UNREAD" \in gmail[e] <=> "UNREAD" \in row.flags
    <3>1. Writes(c, "mark", e) /\ \A d \in Clients \ {c} : ~Writes(d, "mark", e)
      BY <1>1, <1>2, <1>5, <1>6, <2>2 DEF Writes
    <3> QED BY <2>2, <3>1, <1>2, <1>4, <1>6 DEF MailInd, ProviderKnows, ReadIsTold
  <2> QED BY <2>1, <2>2, <1>4, <1>5, <1>6 DEF KeepsFlags
<1> QED BY <1>1, <1>2, <1>3, <1>4, <1>8, <1>9, <1>10, Acting, WriteKeeps

LEMMA WriteSoftKeeps == ASSUME MailInd, NEW c \in Clients, WriteSoft(c) PROVE MailInd'
<1> DEFINE e == actions[c].email
           op == actions[c].op
           row == WithState(letters[e], Destination(op), op = "trash")
<1>1. /\ op \in Soft /\ actions[c].step = "write" /\ Write(e, row, trace) /\ Finish(c)
      /\ UNCHANGED <<gmail, files, begun, providerFaults>>
  BY DEF WriteSoft, At
<1>2. e \in Emails /\ e = actions[c].email /\ trace \in TraceRecords /\ OnlyAt(e, trace)
  BY <1>1, Acting DEF Soft, OnlyAt, MailInd, MailTypes
<1>3. Destination(op) \in {"TRASH", "SPAM", "INBOX"} /\ (Destination(op) = "TRASH" <=> op = "trash")
  BY <1>1 DEF Destination, Soft
<1>4. InDb(e) => /\ row \in LetterRows /\ row.labels = letters[e].labels /\ row.flags = letters[e].flags
                 /\ row.trash <=> row.folder = "TRASH"
                 /\ row.spam <=> row.folder = "SPAM"
                 /\ row.dated <=> op = "trash"
                 /\ row.trash <=> op = "trash"
  BY <1>2, <1>3, RowOf DEF LetterRows, WithState, Folders
<1>5. ~At(c, {"star", "mark"}, "write") /\ op \notin {"none", "empty", "hard"}
  BY <1>1 DEF At, Soft
<1>6. op = "trash" => Trashing(actions[c])
  BY <1>1 DEF Trashing
<1> HIDE DEF row, e
<1>7. InDb(e) => KeepsPromises(e, row, trace) /\ KeepsPlace(e, row, trace)
  BY <1>2, <1>4 DEF KeepsPromises, KeepsPlace, MailInd, NothingOverwritten
<1>8. InDb(e) => KeepsTold(e, row, trace)
  BY <1>2, <1>4, <1>6 DEF KeepsTold, MailInd, ProviderKnows, TrashIsTold, ClientsKnow, TrashingIsTold
<1>9. InDb(e) => KeepsFlags(c, e, row, trace)
  BY <1>2, <1>4, <1>5, SameFlags
<1> QED BY <1>1, <1>2, <1>4, <1>5, <1>7, <1>8, <1>9, Acting, WriteKeeps

LEMMA WriteFolderStateKeeps == ASSUME MailInd, NEW c \in Clients, WriteFolderState(c) PROVE MailInd'
<1> DEFINE e == actions[c].email
           folder == DerivedFolder({actions[c].target})
           row == WithState(letters[e], folder, FALSE)
<1>1. /\ actions[c].op = "folder" /\ actions[c].step = "write" /\ Write(e, row, trace) /\ Goto(c, "labels")
      /\ UNCHANGED <<gmail, files, begun, providerFaults>>
  BY DEF WriteFolderState, At
<1>2. e \in Emails /\ e = actions[c].email /\ trace \in TraceRecords /\ OnlyAt(e, trace)
  BY <1>1, Acting DEF OnlyAt, MailInd, MailTypes
<1>3. folder \in Folders /\ (folder = "TRASH" <=> actions[c].target = "TRASH")
  BY FolderOf
<1>4. InDb(e) => /\ row \in LetterRows /\ row.labels = letters[e].labels /\ row.flags = letters[e].flags
                 /\ row.trash <=> row.folder = "TRASH"
                 /\ row.spam <=> row.folder = "SPAM"
                 /\ ~row.dated
                 /\ row.trash <=> actions[c].target = "TRASH"
  <2> SUFFICES ASSUME InDb(e)
               PROVE  /\ row \in LetterRows /\ row.labels = letters[e].labels /\ row.flags = letters[e].flags
                      /\ row.trash <=> row.folder = "TRASH"
                      /\ row.spam <=> row.folder = "SPAM"
                      /\ ~row.dated
                      /\ row.trash <=> folder = "TRASH"
    BY <1>3
  <2>1. letters[e] \in LetterRows
    BY <1>2, RowOf
  <2>2. row = WithState(letters[e], folder, FALSE)
    OBVIOUS
  <2> HIDE DEF row, e, folder
  <2> QED BY <2>1, <2>2, <1>3 DEF WithState, LetterRows
<1>5. ~At(c, {"star", "mark"}, "write")
  BY <1>1 DEF At
<1>6. actions[c].target = "TRASH" => Trashing(actions[c])
  BY <1>1 DEF Trashing
<1>7. /\ actions'[c].op = "folder" /\ actions'[c].email = e /\ WellFormed(actions'[c])
      /\ Trashing(actions'[c]) => actions[c].target = "TRASH"
      /\ actions' \in [Clients -> ActionRecords] /\ \A d \in Clients \ {c} : actions'[d] = actions[d]
  BY <1>1, GoesOn, Acting DEF WellFormed, Trashing, LabelOps
<1> HIDE DEF row, e, folder
<1>8. InDb(e) => KeepsPromises(e, row, trace) /\ KeepsPlace(e, row, trace)
  BY <1>2, <1>4 DEF KeepsPromises, KeepsPlace, MailInd, NothingOverwritten
<1>9. InDb(e) => KeepsTold(e, row, trace)
  BY <1>2, <1>4, <1>6 DEF KeepsTold, MailInd, ProviderKnows, TrashIsTold, ClientsKnow, TrashingIsTold
<1>10. InDb(e) => KeepsFlags(c, e, row, trace)
  BY <1>2, <1>4, <1>5, SameFlags
<1>11. Told(e) /\ Trashing(actions'[c]) => "TRASH" \in gmail[e]
  BY <1>2, <1>6, <1>7 DEF MailInd, ClientsKnow, TrashingIsTold
<1> QED BY <1>1, <1>2, <1>4, <1>7, <1>8, <1>9, <1>10, <1>11, WriteKeeps

LEMMA WriteFolderLabelsKeeps == ASSUME MailInd, NEW c \in Clients, WriteFolderLabels(c) PROVE MailInd'
<1> DEFINE e == actions[c].email
           t == actions[c].target
           row == [letters[e] EXCEPT !.labels = {t}]
           journal == [trace EXCEPT !.owed[e] = {t}]
<1>1. /\ actions[c].op = "folder" /\ actions[c].step = "labels" /\ Write(e, row, journal) /\ Finish(c)
      /\ UNCHANGED <<gmail, files, begun, providerFaults>>
  BY DEF WriteFolderLabels, At
<1>2. e \in Emails /\ e = actions[c].email /\ t \in FolderTargets /\ t \in Labels
  BY <1>1, Acting DEF WellFormed, Labels
<1>3. journal \in TraceRecords /\ OnlyAt(e, journal) /\ journal.owed[e] = {t}
      /\ journal.raced = trace.raced /\ journal.ruled = trace.ruled /\ journal.starred = trace.starred
  BY <1>2 DEF MailInd, MailTypes, TraceRecords, OnlyAt
<1>4. InDb(e) => /\ row \in LetterRows /\ row.labels = {t} /\ row.flags = letters[e].flags
                 /\ row.folder = letters[e].folder /\ row.trash = letters[e].trash
                 /\ row.spam = letters[e].spam /\ row.dated = letters[e].dated
  BY <1>2, RowOf DEF LetterRows
<1>5. ~At(c, {"star", "mark"}, "write")
  BY <1>1 DEF At
<1>6. t = "TRASH" => Trashing(actions[c])
  BY <1>1 DEF Trashing
<1> HIDE DEF row, journal, e, t
<1>7. InDb(e) => KeepsPromises(e, row, journal) /\ KeepsPlace(e, row, journal)
  BY <1>2, <1>3, <1>4 DEF KeepsPromises, KeepsPlace, MailInd, NothingOverwritten, StateFollowsFolder
<1>8. InDb(e) => KeepsTold(e, row, journal)
  BY <1>2, <1>4, <1>6 DEF KeepsTold, MailInd, ProviderKnows, TrashIsTold, ClientsKnow, TrashingIsTold
<1>9. InDb(e) => KeepsFlags(c, e, row, journal)
  BY <1>2, <1>3, <1>4, <1>5, SameFlags
<1> QED BY <1>1, <1>2, <1>3, <1>4, <1>7, <1>8, <1>9, Acting, WriteKeeps

\* A label is written over the labels the request has read.
LEMMA WriteLabelsKeeps == ASSUME MailInd, NEW c \in Clients, WriteLabels(c) PROVE MailInd'
<1> DEFINE e == actions[c].email
           t == actions[c].target
           seen == actions[c].seen
           row == [letters[e] EXCEPT !.labels = Appended(seen, t)]
           journal == [trace EXCEPT !.owed[e] = @ \cup {t},
                           !.raced = @ \cup (IF letters[e].labels = seen THEN {} ELSE {e})]
<1>1. /\ actions[c].op = "label" /\ actions[c].step = "labels" /\ Write(e, row, journal) /\ Goto(c, "state")
      /\ UNCHANGED <<gmail, files, begun, providerFaults>>
  BY DEF WriteLabels, At
<1>2. e \in Emails /\ e = actions[c].email /\ t \in LabelTargets /\ t \in Labels /\ seen \subseteq Labels
  BY <1>1, Acting DEF WellFormed, Labels, LabelOps
<1>3. /\ journal \in TraceRecords /\ OnlyAt(e, journal) /\ journal.owed[e] = trace.owed[e] \cup {t}
      /\ journal.ruled = trace.ruled /\ journal.starred = trace.starred
      /\ e \notin journal.raced => e \notin trace.raced /\ letters[e].labels = seen
  BY <1>2 DEF MailInd, MailTypes, TraceRecords, OnlyAt
<1>4. InDb(e) => /\ row \in LetterRows /\ row.labels = seen \cup {t} /\ row.flags = letters[e].flags
                 /\ row.folder = letters[e].folder /\ row.trash = letters[e].trash
                 /\ row.spam = letters[e].spam /\ row.dated = letters[e].dated
  BY <1>2, RowOf DEF LetterRows, Appended
<1>5. ~At(c, {"star", "mark"}, "write")
  BY <1>1 DEF At
<1>6. t # "TRASH" /\ ("TRASH" \in seen => Trashing(actions[c]))
  BY <1>1, <1>2, MailboxAssumption DEF Trashing, LabelOps
<1>7. /\ actions'[c].op = "label" /\ actions'[c].email = e /\ WellFormed(actions'[c])
      /\ Trashing(actions'[c]) => "TRASH" \in seen
      /\ actions' \in [Clients -> ActionRecords] /\ \A d \in Clients \ {c} : actions'[d] = actions[d]
  BY <1>1, GoesOn, Acting DEF WellFormed, Trashing, LabelOps
<1> HIDE DEF row, journal, e, t, seen
<1>8. InDb(e) => KeepsPromises(e, row, journal) /\ KeepsPlace(e, row, journal)
  BY <1>2, <1>3, <1>4 DEF KeepsPromises, KeepsPlace, MailInd, NothingOverwritten, StateFollowsFolder
<1>9. InDb(e) => KeepsTold(e, row, journal)
  BY <1>2, <1>4, <1>6 DEF KeepsTold, MailInd, ProviderKnows, TrashIsTold, ClientsKnow, TrashingIsTold
<1>10. InDb(e) => KeepsFlags(c, e, row, journal)
  BY <1>2, <1>3, <1>4, <1>5, SameFlags
<1>11. Told(e) /\ Trashing(actions'[c]) => "TRASH" \in gmail[e]
  BY <1>2, <1>6, <1>7 DEF MailInd, ClientsKnow, TrashingIsTold
<1> QED BY <1>1, <1>2, <1>3, <1>4, <1>7, <1>8, <1>9, <1>10, <1>11, WriteKeeps

LEMMA WriteDerivedKeeps == ASSUME MailInd, NEW c \in Clients, WriteDerived(c) PROVE MailInd'
<1> DEFINE e == actions[c].email
           t == actions[c].target
           seen == actions[c].seen
           folder == DerivedFolder(Appended(seen, t))
           row == WithState(letters[e], folder, FALSE)
<1>1. /\ actions[c].op = "label" /\ actions[c].step = "state" /\ Write(e, row, trace) /\ Finish(c)
      /\ UNCHANGED <<gmail, files, begun, providerFaults>>
  BY DEF WriteDerived, At
<1>2. e \in Emails /\ e = actions[c].email /\ trace \in TraceRecords /\ OnlyAt(e, trace) /\ t \in LabelTargets
  BY <1>1, Acting DEF OnlyAt, MailInd, MailTypes, WellFormed, LabelOps
<1>3. folder \in Folders /\ (folder = "TRASH" <=> "TRASH" \in seen)
  <2>1. "TRASH" \in Appended(seen, t) <=> "TRASH" \in seen
    BY <1>2, MailboxAssumption DEF Appended
  <2> QED BY <2>1, FolderOf
<1>4. InDb(e) => /\ row \in LetterRows /\ row.labels = letters[e].labels /\ row.flags = letters[e].flags
                 /\ row.trash <=> row.folder = "TRASH"
                 /\ row.spam <=> row.folder = "SPAM"
                 /\ ~row.dated
                 /\ row.trash <=> "TRASH" \in seen
  <2> SUFFICES ASSUME InDb(e)
               PROVE  /\ row \in LetterRows /\ row.labels = letters[e].labels /\ row.flags = letters[e].flags
                      /\ row.trash <=> row.folder = "TRASH"
                      /\ row.spam <=> row.folder = "SPAM"
                      /\ ~row.dated
                      /\ row.trash <=> folder = "TRASH"
    BY <1>3
  <2>1. letters[e] \in LetterRows
    BY <1>2, RowOf
  <2>2. row = WithState(letters[e], folder, FALSE)
    OBVIOUS
  <2> HIDE DEF row, e, folder
  <2> QED BY <2>1, <2>2, <1>3 DEF WithState, LetterRows
<1>5. ~At(c, {"star", "mark"}, "write")
  BY <1>1 DEF At
<1>6. "TRASH" \in seen => Trashing(actions[c])
  BY <1>1 DEF Trashing, LabelOps
<1> HIDE DEF row, e, folder, t, seen
<1>7. InDb(e) => KeepsPromises(e, row, trace) /\ KeepsPlace(e, row, trace)
  BY <1>2, <1>4 DEF KeepsPromises, KeepsPlace, MailInd, NothingOverwritten
<1>8. InDb(e) => KeepsTold(e, row, trace)
  BY <1>2, <1>4, <1>6 DEF KeepsTold, MailInd, ProviderKnows, TrashIsTold, ClientsKnow, TrashingIsTold
<1>9. InDb(e) => KeepsFlags(c, e, row, trace)
  BY <1>2, <1>4, <1>5, SameFlags
<1> QED BY <1>1, <1>2, <1>4, <1>7, <1>8, <1>9, Acting, WriteKeeps

\* A rule writes the flags of the row, or its state, and the email is one that
\* rules have touched.
LEMMA WriteRuleKeeps == ASSUME MailInd, NEW c \in Clients, WriteRule(c) PROVE MailInd'
<1> DEFINE e == actions[c].email
           op == actions[c].op
           rival == Rival(c, "star", {"call", "write"})
           row == RuleRow(op, letters[e])
           journal == [trace EXCEPT !.ruled = @ \cup {e},
                          !.starred = IF op = "rule star" THEN @ \cup {e} ELSE @,
                          !.raced = IF op = "rule star" /\ rival THEN @ \cup {e} ELSE @]
<1>1. /\ op \in RuleOps \ {"rule purge"} /\ actions[c].step = "write" /\ Write(e, row, journal) /\ Finish(c)
      /\ UNCHANGED <<gmail, files, begun, providerFaults>>
  BY DEF WriteRule, At
<1>2. op \in {"rule archive", "rule read", "rule star", "rule delete"}
  BY <1>1, Acting, MailboxAssumption DEF WellFormed, LabelOps
<1>3. e \in Emails /\ e = actions[c].email
  BY <1>2, Acting
<1>4. /\ journal \in TraceRecords /\ OnlyAt(e, journal) /\ journal.owed = trace.owed
      /\ e \in journal.ruled /\ trace.raced \subseteq journal.raced
      /\ op = "rule star" => e \in journal.starred /\ (rival => e \in journal.raced)
      /\ op # "rule star" => journal.starred = trace.starred
  BY <1>3 DEF MailInd, MailTypes, TraceRecords, OnlyAt
<1>5. InDb(e) => /\ row \in LetterRows /\ row.labels = letters[e].labels
                 /\ op = "rule star" => "STARRED" \in row.flags
                 /\ op # "rule star" => ("STARRED" \in row.flags <=> "STARRED" \in letters[e].flags)
  <2> SUFFICES ASSUME InDb(e)
               PROVE  /\ row \in LetterRows /\ row.labels = letters[e].labels
                      /\ op = "rule star" => "STARRED" \in row.flags
                      /\ op # "rule star" => ("STARRED" \in row.flags <=> "STARRED" \in letters[e].flags)
    OBVIOUS
  <2>1. letters[e] \in LetterRows
    BY <1>3, RowOf
  <2>2. CASE op = "rule archive"
    BY <2>1, <2>2 DEF RuleRow, LetterRows, Folders
  <2>3. CASE op = "rule read"
    BY <2>1, <2>3 DEF RuleRow, LetterRows
  <2>4. CASE op = "rule star"
    BY <2>1, <2>4 DEF RuleRow, LetterRows, Flags
  <2>5. CASE op = "rule delete"
    BY <2>1, <2>5 DEF RuleRow, LetterRows, Folders
  <2> QED BY <1>2, <2>2, <2>3, <2>4, <2>5
<1>6. ~rival => \A d \in Clients \ {c} : ~((At(d, {"star"}, "call") \/ At(d, {"star"}, "write")) /\ actions[d].email = e)
  BY DEF Rival, At
<1> HIDE DEF row, journal, e, rival
<1>7. InDb(e) => KeepsPromises(e, row, journal) /\ KeepsPlace(e, row, journal) /\ KeepsTold(e, row, journal)
  <2> SUFFICES ASSUME InDb(e) PROVE KeepsPromises(e, row, journal)
    BY <1>4 DEF KeepsPlace, KeepsTold
  <2> SUFFICES ASSUME e \notin journal.raced
               PROVE  /\ journal.owed[e] \subseteq row.labels
                      /\ "STARRED" \in row.flags <=> e \in journal.starred
    BY DEF KeepsPromises
  <2>1. e \notin trace.raced
    BY <1>4
  <2>2. /\ trace.owed[e] \subseteq letters[e].labels
        /\ "STARRED" \in letters[e].flags <=> e \in trace.starred
    BY <2>1, <1>3 DEF MailInd, NothingOverwritten
  <2>3. journal.owed[e] \subseteq row.labels
    BY <1>4, <1>5, <2>2
  <2>4. CASE op = "rule star"
    BY <1>4, <1>5, <2>3, <2>4
  <2>5. CASE op # "rule star"
    BY <1>4, <1>5, <2>2, <2>3, <2>5
  <2> QED BY <2>4, <2>5
<1>8. InDb(e) => KeepsFlags(c, e, row, journal)
  <2> SUFFICES ASSUME InDb(e), NEW d \in Clients \ {c},
                      At(d, {"star"}, "call") \/ At(d, {"star"}, "write"), actions[d].email = e, e \notin journal.raced
               PROVE  "STARRED" \in row.flags <=> "STARRED" \in letters[e].flags
    BY <1>4 DEF KeepsFlags
  <2> QED BY <1>4, <1>5, <1>6
<1>9. op \notin {"none", "empty", "hard"}
  BY <1>2
<1> QED BY <1>1, <1>3, <1>4, <1>5, <1>7, <1>8, <1>9, Acting, WriteKeeps

LEMMA WriteRuleLabelsKeeps == ASSUME MailInd, NEW c \in Clients, WriteRuleLabels(c) PROVE MailInd'
<1> DEFINE e == actions[c].email
           t == actions[c].target
           seen == actions[c].seen
           add == actions[c].op = "rule add"
           row == [letters[e] EXCEPT !.labels = Flip(seen, t, add)]
           journal == [trace EXCEPT !.owed[e] = Flip(@, t, add),
                           !.raced = @ \cup (IF letters[e].labels = seen THEN {} ELSE {e})]
<1>1. /\ actions[c].op \in {"rule add", "rule remove"} /\ actions[c].step = "labels"
      /\ Write(e, row, journal) /\ Finish(c) /\ UNCHANGED <<gmail, files, begun, providerFaults>>
  BY DEF WriteRuleLabels, At
<1>2. e \in Emails /\ e = actions[c].email /\ t \in LabelTargets /\ t \in Labels /\ seen \subseteq Labels
  BY <1>1, Acting DEF WellFormed, Labels, LabelOps
<1>3. /\ journal \in TraceRecords /\ OnlyAt(e, journal) /\ journal.owed[e] = Flip(trace.owed[e], t, add)
      /\ journal.ruled = trace.ruled /\ journal.starred = trace.starred
      /\ e \notin journal.raced => e \notin trace.raced /\ letters[e].labels = seen
  BY <1>2 DEF MailInd, MailTypes, TraceRecords, OnlyAt, Flip
<1>4. InDb(e) => /\ row \in LetterRows /\ row.labels = Flip(seen, t, add) /\ row.flags = letters[e].flags
                 /\ row.folder = letters[e].folder /\ row.trash = letters[e].trash
                 /\ row.spam = letters[e].spam /\ row.dated = letters[e].dated
  BY <1>2, RowOf DEF LetterRows, Flip
<1>5. ~At(c, {"star", "mark"}, "write") /\ actions[c].op \notin {"none", "empty", "hard"}
  BY <1>1 DEF At
<1>6. "TRASH" \in Flip(seen, t, add) => Trashing(actions[c])
  BY <1>1, <1>2, MailboxAssumption DEF Trashing, LabelOps, Flip
<1> HIDE DEF row, journal, e, t, seen, add
<1>7. InDb(e) => KeepsPromises(e, row, journal) /\ KeepsPlace(e, row, journal)
  BY <1>2, <1>3, <1>4 DEF KeepsPromises, KeepsPlace, MailInd, NothingOverwritten, StateFollowsFolder, Flip
<1>8. InDb(e) => KeepsTold(e, row, journal)
  BY <1>2, <1>4, <1>6 DEF KeepsTold, MailInd, ProviderKnows, TrashIsTold, ClientsKnow, TrashingIsTold
<1>9. InDb(e) => KeepsFlags(c, e, row, journal)
  BY <1>2, <1>3, <1>4, <1>5, SameFlags
<1> QED BY <1>1, <1>2, <1>3, <1>4, <1>5, <1>7, <1>8, <1>9, Acting, WriteKeeps

\* A call to the provider moves its client on, and changes what is known of one
\* email only.
LEMMA CallKeeps ==
    ASSUME MailInd, NEW c \in Clients, NEW e \in Emails, e = actions[c].email, actions[c].step = "call",
           UNCHANGED <<letters, files, begun>>, providerFaults' \in 0..MaxProviderFaults,
           gmail' \in [Emails -> SUBSET AtProvider], \A d \in Emails \ {e} : gmail'[d] = gmail[d],
           trace' \in TraceRecords, \A d \in Emails \ {e} : d \in trace'.failed <=> d \in trace.failed,
           trace'.owed = trace.owed, trace'.starred = trace.starred, trace'.raced = trace.raced,
           trace'.crossed = trace.crossed, trace'.refused = trace.refused, trace'.ruled = trace.ruled,
           actions' \in [Clients -> ActionRecords], \A d \in Clients \ {c} : actions'[d] = actions[d],
           \/ actions'[c] = Idle
           \/ actions'[c] = [actions[c] EXCEPT !.step = AfterCall(actions[c].op)],
           Told(e)' => /\ Told(e) /\ ("TRASH" \in gmail[e] => "TRASH" \in gmail'[e])
                       /\ Trashing(actions'[c]) => "TRASH" \in gmail'[e],
           StarIsTold(e)', ReadIsTold(e)'
    PROVE  MailInd'
<1>0. actions[c].op \in CallOps /\ actions[c] \in ActionRecords /\ WellFormed(actions[c])
  BY DEF MailInd, MailTypes, WellFormed
<1>1. \/ actions'[c] = Idle
      \/ /\ actions'[c].op = actions[c].op /\ actions'[c].email = e /\ actions'[c].target = actions[c].target
         /\ actions'[c].seen = actions[c].seen /\ actions'[c].step \in {"read", "files", "write"}
         /\ actions[c].op = "label" => actions'[c].step = "read"
  BY <1>0 DEF ActionRecords, AfterCall
<1>2. WellFormed(actions'[c])
  <2>0. WellFormed(Idle)
    BY MailboxAssumption DEF Idle, WellFormed, CallOps, LabelOps, Soft
  <2>1. CASE actions'[c] = Idle
    BY <2>0, <2>1
  <2>2. CASE actions'[c] # Idle
    <3>1. actions[c].op \notin {"empty", "rule add", "rule remove"}
      BY <1>0 DEF CallOps, Soft
    <3> QED BY <2>2, <3>1, <1>0, <1>1 DEF WellFormed, LabelOps
  <2> QED BY <2>1, <2>2
<1>3. MailTypes'
  BY <1>2 DEF MailInd, MailTypes
<1>4. /\ ~At(c, {"hard"}, "delete") /\ ~Sweeping(c) /\ ~At(c, {"hard"}, "delete")' /\ ~Sweeping(c)'
      /\ \A op, d : ~Writes(c, op, d)
      /\ \A d \in Emails \ {e} : ~Writes(c, "star", d)' /\ ~Writes(c, "mark", d)'
  BY <1>0, <1>1 DEF At, Sweeping, Writes, Idle, CallOps, Soft
<1>5. \A d \in Clients \ {c} :
         /\ Sweeping(d)' <=> Sweeping(d)
         /\ \A ops, step : At(d, ops, step)' <=> At(d, ops, step)
         /\ \A op, b : Writes(d, op, b)' <=> Writes(d, op, b)
  BY DEF Sweeping, At, Writes
<1>6. \A b : InDb(b)' <=> InDb(b)
  BY DEF InDb
<1>7. \A b \in Emails : Told(b)' => Told(b) /\ ("TRASH" \in gmail[b] => "TRASH" \in gmail'[b])
  <2> SUFFICES ASSUME NEW b \in Emails, Told(b)'
               PROVE  Told(b) /\ ("TRASH" \in gmail[b] => "TRASH" \in gmail'[b])
    OBVIOUS
  <2>1. CASE b = e
    BY <2>1
  <2>2. CASE b # e
    BY <2>2 DEF Told, InDb
  <2> QED BY <2>1, <2>2
<1>8. ClientsKnow'
  <2> SUFFICES ASSUME NEW d \in Clients
               PROVE  SweptIsGone(d)' /\ FilesFirst(d)' /\ StarIsCurrent(d)' /\ TrashingIsTold(d)'
    BY DEF ClientsKnow
  <2>0. SweptIsGone(d) /\ FilesFirst(d) /\ StarIsCurrent(d) /\ TrashingIsTold(d)
    BY DEF MailInd, ClientsKnow
  <2>1. CASE d = c
    <3>1. SweptIsGone(d)' /\ FilesFirst(d)'
      BY <1>4, <2>1 DEF SweptIsGone, FilesFirst
    <3>2. CASE actions'[c] = Idle
      BY <2>1, <3>1, <3>2 DEF StarIsCurrent, TrashingIsTold, At, Trashing, LabelOps, Idle
    <3>3. CASE actions'[c] # Idle
      <4>1. StarIsCurrent(d)'
        BY <2>0, <2>1, <3>3, <1>1 DEF StarIsCurrent, At, InDb
      <4>2. TrashingIsTold(d)'
        BY <2>1, <3>3, <1>1 DEF TrashingIsTold
      <4> QED BY <3>1, <4>1, <4>2
    <3> QED BY <3>2, <3>3
  <2>2. CASE d # c
    <3>1. SweptIsGone(d)' /\ FilesFirst(d)' /\ StarIsCurrent(d)'
      BY <2>0, <2>2 DEF SweptIsGone, FilesFirst, StarIsCurrent, Sweeping, At, InDb
    <3>2. TrashingIsTold(d)'
      <4>1. Trashing(actions[d]) => actions[d].email \in Emails
        BY MailboxAssumption DEF MailInd, MailTypes, WellFormed, Trashing, LabelOps, CallOps, Soft, ActionRecords
      <4> SUFFICES ASSUME Trashing(actions[d]), NEW b \in Emails, b = actions[d].email, Told(b)'
                   PROVE  "TRASH" \in gmail'[b]
        BY <2>2, <4>1 DEF TrashingIsTold
      <4> QED BY <2>0, <1>7 DEF TrashingIsTold
    <3> QED BY <3>1, <3>2
  <2> QED BY <2>1, <2>2
<1>9. ProviderKnows'
  <2> SUFFICES ASSUME NEW b \in Emails PROVE TrashIsTold(b)' /\ StarIsTold(b)' /\ ReadIsTold(b)'
    BY DEF ProviderKnows
  <2>0. TrashIsTold(b) /\ StarIsTold(b) /\ ReadIsTold(b)
    BY DEF MailInd, ProviderKnows
  <2>1. TrashIsTold(b)'
    BY <2>0, <1>7 DEF TrashIsTold
  <2>2. CASE b # e
    <3>1. StarIsTold(b)'
      BY <2>0, <2>2, <1>4, <1>5, <1>7 DEF StarIsTold
    <3>2. ReadIsTold(b)'
      BY <2>0, <2>2, <1>4, <1>5, <1>7 DEF ReadIsTold
    <3> QED BY <2>1, <3>1, <3>2
  <2> QED BY <2>1, <2>2
<1>10. FilesFollowMail'
  <2> SUFFICES ASSUME NEW b \in Emails
               PROVE  /\ InDb(b)' /\ b \notin files' =>
                            \/ b \in trace'.refused \cup trace'.crossed
                            \/ \E d \in Clients :
                                  \/ At(d, {"hard"}, "delete")' /\ actions'[d].email = b
                                  \/ Sweeping(d)' /\ b \in actions'[d].listed \ actions'[d].seen
                      /\ ~InDb(b)' /\ b \in files' => b \in trace'.crossed \cup trace'.ruled
    BY DEF FilesFollowMail
  <2>1. /\ InDb(b) /\ b \notin files =>
                            \/ b \in trace.refused \cup trace.crossed
                            \/ \E d \in Clients \ {c} :
                                  \/ At(d, {"hard"}, "delete") /\ actions[d].email = b
                                  \/ Sweeping(d) /\ b \in actions[d].listed \ actions[d].seen
        /\ ~InDb(b) /\ b \in files => b \in trace.crossed \cup trace.ruled
    BY <1>4 DEF MailInd, FilesFollowMail
  <2> QED BY <2>1, <1>5, <1>6
<1>11. NothingOverwritten' /\ StateFollowsFolder'
  BY <1>6 DEF MailInd, NothingOverwritten, StateFollowsFolder
<1> QED BY <1>3, <1>8, <1>9, <1>10, <1>11 DEF MailInd

\* What the provider's labels say after the call of a.
LEMMA AtGmailSays ==
    ASSUME NEW a \in ActionRecords, WellFormed(a), a.step = "call", NEW labels \in SUBSET AtProvider
    PROVE  /\ AtGmail(a, labels) \in SUBSET AtProvider
           /\ a.op # "hard" /\ "TRASH" \in labels => "TRASH" \in AtGmail(a, labels)
           /\ a.op = "trash" => "TRASH" \in AtGmail(a, labels)
           /\ a.op = "folder" => a.target \in AtGmail(a, labels)
           /\ a.op = "star" => ("STARRED" \in AtGmail(a, labels) <=> a.seen = {})
           /\ a.op = "mark" => ("UNREAD" \in AtGmail(a, labels) <=> a.target = "unread")
           /\ a.op \notin {"star", "hard"} => ("STARRED" \in AtGmail(a, labels) <=> "STARRED" \in labels)
           /\ a.op \notin {"mark", "hard"} => ("UNREAD" \in AtGmail(a, labels) <=> "UNREAD" \in labels)
           /\ a.op = "hard" => AtGmail(a, labels) = GoneAtGmail
<1>1. a.op \in CallOps
  BY DEF WellFormed
<1>2. CASE a.op = "archive"
  BY <1>2 DEF AtGmail, Soft
<1>3. CASE a.op = "star"
  BY <1>3 DEF AtGmail, Soft, Flip, AtProvider, Flags
<1>4. CASE a.op = "mark"
  BY <1>4 DEF AtGmail, Soft, Flip, AtProvider, Flags
<1>5. CASE a.op \in Soft
  <2>1. AtGmail(a, labels) = (labels \ {"INBOX"}) \cup {Destination(a.op)}
    BY <1>5 DEF AtGmail, Soft
  <2>2. Destination(a.op) \in {"TRASH", "SPAM", "INBOX"} /\ (a.op = "trash" => Destination(a.op) = "TRASH")
    BY <1>5 DEF Destination, Soft
  <2>3. Destination(a.op) \in AtProvider
    BY <2>2 DEF AtProvider, Labels
  <2> QED BY <1>5, <2>1, <2>2, <2>3 DEF Soft
<1>6. CASE a.op = "folder"
  <2>1. AtGmail(a, labels) = (labels \ {"INBOX"}) \cup {a.target}
    BY <1>6 DEF AtGmail, Soft
  <2>2. a.target \in FolderTargets /\ a.target \notin {"STARRED", "UNREAD"} /\ a.target \in AtProvider
    BY <1>6, MailboxAssumption DEF WellFormed, AtProvider, Labels
  <2> QED BY <1>6, <2>1, <2>2
<1>7. CASE a.op = "label"
  <2>1. AtGmail(a, labels) = labels \cup {a.target}
    BY <1>7 DEF AtGmail, Soft
  <2>2. a.target \in LabelTargets /\ a.target \notin {"STARRED", "UNREAD"} /\ a.target \in AtProvider
    BY <1>7, MailboxAssumption DEF WellFormed, AtProvider, Labels, LabelOps
  <2> QED BY <1>7, <2>1, <2>2
<1>8. CASE a.op = "hard"
  BY <1>8 DEF AtGmail, Soft, GoneAtGmail, AtProvider
<1> QED BY <1>1, <1>2, <1>3, <1>4, <1>5, <1>6, <1>7, <1>8 DEF CallOps

LEMMA CallProviderKeeps == ASSUME MailInd, NEW c \in Clients, CallProvider(c) PROVE MailInd'
<1>0. actions[c].step = "call" /\ actions[c].op \in CallOps /\ actions[c].email \in Emails
  BY Acting DEF CallProvider, WellFormed
<1> DEFINE op == actions[c].op
<1>e. PICK e \in Emails : e = actions[c].email
  BY <1>0
<1>1. /\ actions[c].step = "call" /\ gmail[e] # GoneAtGmail
      /\ gmail' = [gmail EXCEPT ![e] = AtGmail(actions[c], @)] /\ Goto(c, AfterCall(op))
      /\ UNCHANGED <<letters, files, begun, providerFaults, trace>>
  BY <1>e DEF CallProvider
<1>2. op \in CallOps /\ op # "none" /\ op # "empty"
  BY <1>0 DEF CallOps, Soft
<1>3. e \in Emails /\ e = actions[c].email /\ actions[c] \in ActionRecords /\ WellFormed(actions[c])
  BY <1>e, Acting
<1>4. gmail[e] \in SUBSET AtProvider
  BY <1>3 DEF MailInd, MailTypes
<1> DEFINE labels == AtGmail(actions[c], gmail[e])
<1>5. /\ labels \in SUBSET AtProvider
      /\ op # "hard" /\ "TRASH" \in gmail[e] => "TRASH" \in labels
      /\ op = "trash" => "TRASH" \in labels
      /\ op = "folder" => actions[c].target \in labels
      /\ op = "star" => ("STARRED" \in labels <=> actions[c].seen = {})
      /\ op = "mark" => ("UNREAD" \in labels <=> actions[c].target = "unread")
      /\ op \notin {"star", "hard"} => ("STARRED" \in labels <=> "STARRED" \in gmail[e])
      /\ op \notin {"mark", "hard"} => ("UNREAD" \in labels <=> "UNREAD" \in gmail[e])
      /\ op = "hard" => labels = GoneAtGmail
  BY <1>1, <1>3, <1>4, AtGmailSays
<1>6. /\ gmail' \in [Emails -> SUBSET AtProvider] /\ gmail'[e] = labels
      /\ \A d \in Emails \ {e} : gmail'[d] = gmail[d]
  BY <1>1, <1>3, <1>5 DEF MailInd, MailTypes
<1> HIDE DEF labels
<1>7. AfterCall(op) \in {"read", "files", "write"} /\ (op = "label" <=> AfterCall(op) = "read")
      /\ (op = "hard" <=> AfterCall(op) = "files")
  BY DEF AfterCall
<1>8. /\ actions'[c] = [actions[c] EXCEPT !.step = AfterCall(op)] /\ actions'[c].step = AfterCall(op)
      /\ actions'[c].op = op /\ actions'[c].email = e /\ actions'[c].target = actions[c].target
      /\ actions'[c].seen = actions[c].seen
      /\ actions' \in [Clients -> ActionRecords] /\ \A d \in Clients \ {c} : actions'[d] = actions[d]
  BY <1>1, <1>3, <1>7 DEF Goto, MailInd, MailTypes, ActionRecords
<1>9. Told(e)' => Told(e) /\ op # "hard"
  BY <1>1, <1>5, <1>6 DEF Told, InDb
<1>10. Trashing(actions'[c]) /\ op # "hard" => "TRASH" \in labels
  <2>1. op \notin {"rule add", "rule remove"}
    BY <1>2 DEF CallOps, Soft
  <2> QED BY <2>1, <1>5, <1>7, <1>8 DEF Trashing, LabelOps
<1>11. \A d \in Clients \ {c}, kind \in {"star", "mark"} : Writes(d, kind, e)' <=> Writes(d, kind, e)
  BY <1>8 DEF Writes, At
<1>12. \A kind \in {"star", "mark"} : ~Writes(c, kind, e) /\ (Writes(c, kind, e)' <=> op = kind)
  BY <1>1, <1>7, <1>8 DEF Writes, At
<1>13. StarIsTold(e)'
  <2> SUFFICES ASSUME Told(e), op # "hard", e \notin trace.raced
               PROVE  /\ (\A d \in Clients : ~Writes(d, "star", e)') =>
                             ("STARRED" \in labels <=> "STARRED" \in letters[e].flags)
                      /\ \A d \in Clients : Writes(d, "star", e)' =>
                             ("STARRED" \in labels <=> actions'[d].seen = {})
    BY <1>1, <1>6, <1>9 DEF StarIsTold
  <2>1. CASE op = "star"
    <3>1. actions[c].seen = {} <=> "STARRED" \notin letters[e].flags
      BY <1>1, <1>e, <2>1 DEF MailInd, ClientsKnow, StarIsCurrent, At, Told
    <3>2. ASSUME NEW d \in Clients, Writes(d, "star", e)' PROVE "STARRED" \in labels <=> actions'[d].seen = {}
      <4>1. CASE d = c
        BY <4>1, <2>1, <1>5, <1>8
      <4>2. CASE d # c
        <5>1. Writes(d, "star", e) /\ actions'[d] = actions[d]
          BY <3>2, <4>2, <1>8, <1>11
        <5>2. actions[d].seen = {} <=> "STARRED" \notin letters[e].flags
          BY <5>1 DEF MailInd, ClientsKnow, StarIsCurrent, Writes, Told
        <5> QED BY <5>1, <5>2, <3>1, <2>1, <1>5
      <4> QED BY <4>1, <4>2
    <3> QED BY <2>1, <3>2, <1>12
  <2>2. CASE op # "star"
    <3>1. "STARRED" \in labels <=> "STARRED" \in gmail[e]
      BY <2>2, <1>5
    <3>2. StarIsTold(e)
      BY <1>3 DEF MailInd, ProviderKnows
    <3>3. \A d \in Clients : /\ Writes(d, "star", e)' <=> Writes(d, "star", e)
                             /\ Writes(d, "star", e)' => actions'[d] = actions[d]
      BY <2>2, <1>8, <1>11, <1>12
    <3> QED BY <3>1, <3>2, <3>3 DEF StarIsTold
  <2> QED BY <2>1, <2>2
<1>14. ReadIsTold(e)'
  <2> SUFFICES ASSUME Told(e), op # "hard", e \notin trace.raced
               PROVE  /\ (\A d \in Clients : ~Writes(d, "mark", e)') =>
                             ("UNREAD" \in labels <=> "UNREAD" \in letters[e].flags)
                      /\ \A d \in Clients :
                             Writes(d, "mark", e)' /\ (\A b \in Clients \ {d} : ~Writes(b, "mark", e)') =>
                                 ("UNREAD" \in labels <=> actions'[d].target = "unread")
    BY <1>1, <1>6, <1>9 DEF ReadIsTold
  <2>1. CASE op = "mark"
    BY <2>1, <1>5, <1>8, <1>12
  <2>2. CASE op # "mark"
    <3>1. "UNREAD" \in labels <=> "UNREAD" \in gmail[e]
      BY <2>2, <1>5
    <3>2. ReadIsTold(e)
      BY <1>3 DEF MailInd, ProviderKnows
    <3>3. \A d \in Clients : /\ Writes(d, "mark", e)' <=> Writes(d, "mark", e)
                             /\ Writes(d, "mark", e)' => actions'[d] = actions[d]
      BY <2>2, <1>8, <1>11, <1>12
    <3> QED BY <3>1, <3>2, <3>3 DEF ReadIsTold
  <2> QED BY <2>1, <2>2
<1> HIDE DEF op
<1>15. Told(e)' => /\ Told(e) /\ ("TRASH" \in gmail[e] => "TRASH" \in gmail'[e])
                   /\ Trashing(actions'[c]) => "TRASH" \in gmail'[e]
  BY <1>5, <1>6, <1>9, <1>10
<1>16. trace' \in TraceRecords /\ providerFaults' \in 0..MaxProviderFaults
  BY <1>1 DEF MailInd, MailTypes
<1>17. actions'[c] = [actions[c] EXCEPT !.step = AfterCall(actions[c].op)]
  BY <1>8 DEF op
<1> QED BY <1>1, <1>3, <1>6, <1>8, <1>13, <1>14, <1>15, <1>16, <1>17, CallKeeps

LEMMA CallFailsKeeps == ASSUME MailInd, NEW c \in Clients, CallFails(c) PROVE MailInd'
<1>0. actions[c].step = "call" /\ actions[c].op \in CallOps /\ actions[c].email \in Emails
  BY Acting DEF CallFails, WellFormed
<1> DEFINE op == actions[c].op
<1>e. PICK e \in Emails : e = actions[c].email
  BY <1>0
<1>1. /\ actions[c].step = "call" /\ providerFaults' \in 0..MaxProviderFaults
      /\ trace' = [trace EXCEPT !.failed = @ \cup {e}]
      /\ Finish(c) \/ Goto(c, AfterCall(op))
      /\ UNCHANGED <<letters, gmail, files, begun>>
  <2>1. providerFaults \in 0..MaxProviderFaults /\ MaxProviderFaults \in Nat
    BY MailboxAssumption DEF MailInd, MailTypes
  <2> QED BY <1>e, <2>1 DEF CallFails
<1>3. e \in Emails /\ e = actions[c].email /\ actions[c] \in ActionRecords /\ WellFormed(actions[c])
  BY <1>e, Acting
<1>4. /\ trace' \in TraceRecords /\ trace'.failed = trace.failed \cup {e}
      /\ trace'.owed = trace.owed /\ trace'.starred = trace.starred /\ trace'.raced = trace.raced
      /\ trace'.crossed = trace.crossed /\ trace'.refused = trace.refused /\ trace'.ruled = trace.ruled
  BY <1>1, <1>3 DEF MailInd, MailTypes, TraceRecords
<1>5. ~Told(e)'
  BY <1>4 DEF Told
<1>6. StarIsTold(e)' /\ ReadIsTold(e)'
  BY <1>5 DEF StarIsTold, ReadIsTold
<1>7. /\ actions' \in [Clients -> ActionRecords] /\ \A d \in Clients \ {c} : actions'[d] = actions[d]
      /\ \/ actions'[c] = Idle
         \/ actions'[c] = [actions[c] EXCEPT !.step = AfterCall(actions[c].op)]
  <2>1. CASE Finish(c)
    BY <2>1, Acting
  <2>2. CASE Goto(c, AfterCall(op))
    <3>1. AfterCall(op) \in {"read", "files", "write"}
      BY DEF AfterCall
    <3> QED BY <2>2, <3>1, <1>3 DEF Goto, MailInd, MailTypes, ActionRecords
  <2> QED BY <1>1, <2>1, <2>2
<1>8. /\ gmail' \in [Emails -> SUBSET AtProvider] /\ \A d \in Emails \ {e} : gmail'[d] = gmail[d]
      /\ \A d \in Emails \ {e} : d \in trace'.failed <=> d \in trace.failed
  BY <1>1, <1>4 DEF MailInd, MailTypes
<1> HIDE DEF op
<1> QED BY <1>1, <1>3, <1>4, <1>5, <1>6, <1>7, <1>8, CallKeeps

\* A request or a rule begins.
LEMMA BeginKeeps ==
    ASSUME MailInd, NEW c \in Clients, NEW op \in CallOps \cup RuleOps \cup {"empty"}, NEW e \in Emails \cup {"none"},
           NEW target \in FolderTargets \cup LabelTargets \cup {"none", "read", "unread"}, Begin(c, op, e, target),
           op # "empty" => e \in Emails,
           op = "folder" => target \in FolderTargets, op \in LabelOps => target \in LabelTargets
    PROVE  MailInd'
<1> DEFINE step == CASE op = "star" -> "read" [] op = "empty" -> "list"
                     [] op \in {"rule add", "rule remove"} -> "read"
                     [] op \in RuleOps \ {"rule add", "rule remove"} -> "write"
                     [] OTHER -> "call"
           begins == [Idle EXCEPT !.op = op, !.email = e, !.target = target, !.step = step]
<1>1. /\ actions[c] = Idle /\ begun < MaxActions /\ begun' = begun + 1
      /\ actions' = [actions EXCEPT ![c] = begins]
      /\ UNCHANGED <<letters, gmail, files, providerFaults, trace>>
  BY DEF Begin
<1>2. RuleOps \cap (CallOps \cup {"empty"}) = {}
  BY MailboxAssumption DEF CallOps, Soft
<1>3. /\ step \in {"read", "list", "write", "call"}
      /\ step = "write" => op \in RuleOps \ {"rule add", "rule remove"}
      /\ step = "call" => op \in CallOps
  <2>1. CASE op = "star"
    BY <1>2, <2>1 DEF CallOps
  <2>2. CASE op = "empty"
    BY <1>2, <2>2
  <2>3. CASE op \in {"rule add", "rule remove"}
    BY <1>2, <2>3
  <2>4. CASE op \in RuleOps \ {"rule add", "rule remove"}
    BY <1>2, <2>4 DEF CallOps
  <2>5. CASE op \in CallOps \ {"star"}
    <3>1. op \notin {"star", "empty", "rule add", "rule remove"} /\ op \notin RuleOps
      BY <1>2, <2>5 DEF CallOps, Soft
    <3> QED BY <3>1, <2>5
  <2> QED BY <2>1, <2>2, <2>3, <2>4, <2>5
<1> HIDE DEF step
<1>4. /\ begins.op = op /\ begins.email = e /\ begins.target = target /\ begins.step = step
      /\ begins.seen = {} /\ begins.listed = {} /\ begins \in ActionRecords
  BY <1>3 DEF Idle, ActionRecords
<1> HIDE DEF begins
<1>5. WellFormed(begins)
  <2>1. op \in LabelOps => step # "write"
    BY <1>2, <1>3 DEF LabelOps, CallOps
  <2>2. "empty" \notin CallOps \cup RuleOps
    BY <1>2 DEF CallOps, Soft
  <2> QED BY <2>1, <2>2, <1>3, <1>4 DEF WellFormed
<1>6. ~Trashing(begins)
  BY <1>2, <1>3, <1>4 DEF Trashing, CallOps, Soft
<1>7. /\ actions'[c] = begins /\ actions' \in [Clients -> ActionRecords]
      /\ \A d \in Clients \ {c} : actions'[d] = actions[d]
  BY <1>1, <1>4 DEF MailInd, MailTypes
<1>8. begun' \in 0..MaxActions
  <2>1. begun \in 0..MaxActions /\ MaxActions \in Nat
    BY MailboxAssumption DEF MailInd, MailTypes
  <2> QED BY <1>1, <2>1
<1>9. ~At(c, {"hard"}, "delete") /\ ~Sweeping(c) /\ ~At(c, {"star", "mark"}, "write")
  BY <1>1 DEF At, Sweeping, Idle
<1>10. /\ ~At(c, {"hard"}, "delete")' /\ ~Sweeping(c)' /\ ~At(c, {"star", "mark"}, "write")'
       /\ ~At(c, {"star"}, "call")' /\ ~At(c, {"star"}, "write")'
  <2>1. ~(op \in {"star", "mark"} /\ step = "write")
    BY <1>2, <1>3 DEF CallOps
  <2>2. ~(op = "star" /\ step = "call")
    BY DEF step
  <2> QED BY <2>1, <2>2, <1>3, <1>4, <1>7 DEF At, Sweeping
<1>11. StarIsCurrent(c)' /\ TrashingIsTold(c)'
  BY <1>6, <1>7, <1>10 DEF StarIsCurrent, TrashingIsTold
<1> QED BY <1>1, <1>5, <1>7, <1>8, <1>9, <1>10, <1>11, LookKeeps

LEMMA BeginsKeep ==
    ASSUME MailInd, BeginMove \/ BeginOther \/ BeginRule \/ BeginEmpty
    PROVE  MailInd'
<1>1. ASSUME BeginMove PROVE MailInd'
  <2>1. PICK c \in Clients, e \in Emails :
           (\E t \in FolderTargets : Begin(c, "folder", e, t)) \/ (\E t \in LabelTargets : Begin(c, "label", e, t))
    BY <1>1 DEF BeginMove
  <2>2. ASSUME NEW t \in FolderTargets, Begin(c, "folder", e, t) PROVE MailInd'
    <3>1. "folder" \in CallOps /\ "folder" \notin LabelOps
      BY DEF CallOps, LabelOps
    <3> QED BY <2>2, <3>1, BeginKeeps
  <2>3. ASSUME NEW t \in LabelTargets, Begin(c, "label", e, t) PROVE MailInd'
    <3>1. "label" \in CallOps
      BY DEF CallOps
    <3> QED BY <2>3, <3>1, BeginKeeps
  <2> QED BY <2>1, <2>2, <2>3
<1>2. ASSUME BeginOther PROVE MailInd'
  <2>1. PICK c \in Clients, e \in Emails :
           \/ \E op \in Soft \cup {"archive", "star", "hard"} : Begin(c, op, e, "none")
           \/ \E t \in {"read", "unread"} : Begin(c, "mark", e, t)
    BY <1>2 DEF BeginOther
  <2>2. ASSUME NEW op \in Soft \cup {"archive", "star", "hard"}, Begin(c, op, e, "none") PROVE MailInd'
    <3>1. op \in CallOps /\ op \notin LabelOps /\ op # "folder"
      BY DEF CallOps, LabelOps, Soft
    <3> QED BY <2>2, <3>1, BeginKeeps
  <2>3. ASSUME NEW t \in {"read", "unread"}, Begin(c, "mark", e, t) PROVE MailInd'
    <3>1. "mark" \in CallOps /\ "mark" \notin LabelOps
      BY DEF CallOps, LabelOps
    <3> QED BY <2>3, <3>1, BeginKeeps
  <2> QED BY <2>1, <2>2, <2>3
<1>3. ASSUME BeginRule PROVE MailInd'
  <2>1. PICK c \in Clients, e \in Emails, op \in RuleOps :
           \E t \in IF op \in {"rule add", "rule remove"} THEN LabelTargets ELSE {"none"} : Begin(c, op, e, t)
    BY <1>3 DEF BeginRule
  <2>2. PICK t : t \in (IF op \in {"rule add", "rule remove"} THEN LabelTargets ELSE {"none"}) /\ Begin(c, op, e, t)
    BY <2>1
  <2>3. op \notin {"folder", "label"}
    BY MailboxAssumption
  <2>4. t \in LabelTargets \cup {"none"} /\ (op \in LabelOps => t \in LabelTargets)
    BY <2>2, <2>3 DEF LabelOps
  <2> QED BY <2>2, <2>3, <2>4, BeginKeeps
<1>4. ASSUME BeginEmpty PROVE MailInd'
  <2>1. PICK c \in Clients : Begin(c, "empty", "none", "none")
    BY <1>4 DEF BeginEmpty
  <2>2. "empty" \notin LabelOps
    BY DEF LabelOps
  <2> QED BY <2>1, <2>2, BeginKeeps
<1> QED BY <1>1, <1>2, <1>3, <1>4

\* A client that gives up reading what is gone.
LEMMA FinishKeeps ==
    ASSUME MailInd, NEW c \in Clients, actions[c].step = "read", Finish(c),
           UNCHANGED <<letters, gmail, files, begun, providerFaults, trace>>
    PROVE  MailInd'
<1>1. /\ actions'[c] = Idle /\ WellFormed(Idle) /\ actions' \in [Clients -> ActionRecords]
      /\ \A d \in Clients \ {c} : actions'[d] = actions[d]
  BY Acting
<1>2. WellFormed(actions'[c])
  BY <1>1
<1>3. /\ ~At(c, {"hard"}, "delete") /\ ~Sweeping(c) /\ ~At(c, {"star", "mark"}, "write")
      /\ ~At(c, {"hard"}, "delete")' /\ ~Sweeping(c)' /\ ~At(c, {"star", "mark"}, "write")'
      /\ ~At(c, {"star"}, "call")' /\ ~At(c, {"star"}, "write")'
  BY <1>1 DEF At, Sweeping, Idle
<1>4. ~Trashing(Idle)
  BY DEF Trashing, Idle, LabelOps
<1>5. StarIsCurrent(c)' /\ TrashingIsTold(c)'
  BY <1>1, <1>3, <1>4 DEF StarIsCurrent, TrashingIsTold
<1>6. begun' \in 0..MaxActions
  BY DEF MailInd, MailTypes
<1> QED BY <1>1, <1>2, <1>3, <1>5, <1>6, LookKeeps

\* What a client has read of the row of its email.
LEMMA SeenKeeps ==
    ASSUME MailInd, NEW c \in Clients, NEW e \in Emails, e = actions[c].email, actions[c].step = "read",
           InDb(e), NEW step \in {"call", "labels"}, NEW seen,
           actions' = [actions EXCEPT ![c].step = step, ![c].seen = seen],
           \/ step = "call" /\ actions[c].op = "star" /\ seen = letters[e].flags \cap {"STARRED"}
           \/ step = "labels" /\ actions[c].op \in LabelOps /\ seen = letters[e].labels,
           UNCHANGED <<letters, gmail, files, begun, providerFaults, trace>>
    PROVE  MailInd'
<1>1. actions[c] \in ActionRecords /\ WellFormed(actions[c]) /\ letters[e] \in LetterRows
  BY Acting, RowOf
<1>2. seen \in SUBSET (Labels \cup Flags \cup Emails) /\ (step = "labels" => seen \subseteq Labels)
  BY <1>1 DEF LetterRows
<1>3. /\ actions'[c] = [actions[c] EXCEPT !.step = step, !.seen = seen]
      /\ \A d \in Clients \ {c} : actions'[d] = actions[d]
  BY DEF MailInd, MailTypes
<1>4. /\ actions'[c] \in ActionRecords /\ actions'[c].op = actions[c].op /\ actions'[c].email = e
      /\ actions'[c].target = actions[c].target /\ actions'[c].step = step /\ actions'[c].seen = seen
      /\ actions'[c].listed = actions[c].listed
  <2> DEFINE a == actions[c]
             read == [a EXCEPT !.step = step, !.seen = seen]
  <2>1. a \in ActionRecords
    BY <1>1
  <2> HIDE DEF a
  <2>2. /\ read \in ActionRecords /\ read.op = a.op /\ read.email = a.email /\ read.target = a.target
        /\ read.step = step /\ read.seen = seen /\ read.listed = a.listed
    BY <1>2, <2>1 DEF ActionRecords
  <2>3. actions'[c] = read
    BY <1>3 DEF a
  <2> HIDE DEF read
  <2> QED BY <2>2, <2>3 DEF a
<1>5. actions' \in [Clients -> ActionRecords]
  BY <1>4 DEF MailInd, MailTypes
<1>6. WellFormed(actions'[c])
  <2>1. actions[c].op # "empty" /\ (step = "call" => actions[c].op \in CallOps)
    BY DEF LabelOps, CallOps
  <2> QED BY <2>1, <1>1, <1>2, <1>4 DEF WellFormed
<1>7. /\ ~At(c, {"hard"}, "delete") /\ ~Sweeping(c) /\ ~At(c, {"star", "mark"}, "write")
      /\ ~At(c, {"hard"}, "delete")' /\ ~Sweeping(c)' /\ ~At(c, {"star", "mark"}, "write")'
  BY <1>4 DEF At, Sweeping
<1>8. StarIsCurrent(c)'
  BY <1>1, <1>4 DEF StarIsCurrent, At, LabelOps
<1>9. TrashingIsTold(c)'
  <2> SUFFICES ASSUME Trashing(actions'[c]), Told(e) PROVE "TRASH" \in gmail[e]
    BY <1>4 DEF TrashingIsTold, Told, InDb
  <2>1. "TRASH" \in letters[e].labels
    BY <1>4 DEF Trashing, LabelOps
  <2> QED BY <2>1 DEF MailInd, ProviderKnows, TrashIsTold
<1>10. begun' \in 0..MaxActions
  BY DEF MailInd, MailTypes
<1> QED BY <1>3, <1>5, <1>6, <1>7, <1>8, <1>9, <1>10, LookKeeps

LEMMA ReadersKeep ==
    ASSUME MailInd, NEW c \in Clients, ReadStar(c) \/ ReadLabels(c) \/ ReadRuleLabels(c)
    PROVE  MailInd'
<1>1. actions[c].op \in {"star"} \cup LabelOps /\ actions[c].step = "read"
  BY DEF ReadStar, ReadLabels, ReadRuleLabels, At, LabelOps
<1>2. PICK e \in Emails : e = actions[c].email
  BY <1>1, Acting DEF LabelOps
<1>3. UNCHANGED <<letters, gmail, files, begun, providerFaults, trace>>
  BY DEF ReadStar, ReadLabels, ReadRuleLabels
<1>4. CASE Finish(c)
  BY <1>1, <1>3, <1>4, FinishKeeps
<1>5. CASE ~Finish(c) /\ ReadStar(c)
  <2>1. /\ InDb(e) /\ actions[c].op = "star"
        /\ actions' = [actions EXCEPT ![c].step = "call", ![c].seen = letters[e].flags \cap {"STARRED"}]
    BY <1>2, <1>5 DEF ReadStar, At
  <2> QED BY <1>1, <1>2, <1>3, <2>1, SeenKeeps
<1>6. CASE ~Finish(c) /\ (ReadLabels(c) \/ ReadRuleLabels(c))
  <2>1. /\ InDb(e) /\ actions[c].op \in LabelOps
        /\ actions' = [actions EXCEPT ![c].step = "labels", ![c].seen = letters[e].labels]
    BY <1>2, <1>6 DEF ReadLabels, ReadRuleLabels, At, LabelOps
  <2> QED BY <1>1, <1>2, <1>3, <2>1, SeenKeeps
<1> QED BY <1>4, <1>5, <1>6

\* The steps that remove files, or list what they will remove.
LEMMA FileStepKeeps ==
    ASSUME MailInd, NEW c \in Clients, UNCHANGED <<letters, gmail, begun, providerFaults, trace>>,
           files' \subseteq files, actions[c].op \in {"hard", "empty"}, actions'[c].op = actions[c].op,
           actions' \in [Clients -> ActionRecords], WellFormed(actions'[c]),
           \A d \in Clients \ {c} : actions'[d] = actions[d],
           SweptIsGone(c)', FilesFirst(c)', FilesFollowMail'
    PROVE  MailInd'
<1>1. MailTypes'
  BY DEF MailInd, MailTypes
<1>2. \A d \in Clients \ {c} :
         /\ Sweeping(d)' <=> Sweeping(d)
         /\ \A ops, step : At(d, ops, step)' <=> At(d, ops, step)
         /\ \A op, e : Writes(d, op, e)' <=> Writes(d, op, e)
  BY DEF Sweeping, At, Writes
<1>3. \A e : InDb(e)' <=> InDb(e)
  BY DEF InDb
<1>4. ClientsKnow'
  <2> SUFFICES ASSUME NEW d \in Clients
               PROVE  SweptIsGone(d)' /\ FilesFirst(d)' /\ StarIsCurrent(d)' /\ TrashingIsTold(d)'
    BY DEF ClientsKnow
  <2>1. CASE d = c
    <3>1. StarIsCurrent(d)'
      BY <2>1 DEF StarIsCurrent, At
    <3>2. TrashingIsTold(d)'
      BY <2>1 DEF TrashingIsTold, Trashing, LabelOps
    <3> QED BY <2>1, <3>1, <3>2
  <2>2. CASE d # c
    <3>1. SweptIsGone(d) /\ FilesFirst(d) /\ StarIsCurrent(d) /\ TrashingIsTold(d)
      BY DEF MailInd, ClientsKnow
    <3> QED BY <2>2, <3>1
            DEF SweptIsGone, FilesFirst, StarIsCurrent, TrashingIsTold, Sweeping, At, InDb, Told, Trashing
  <2> QED BY <2>1, <2>2
<1>5. \A e : ~Writes(c, "star", e) /\ ~Writes(c, "star", e)' /\ ~Writes(c, "mark", e) /\ ~Writes(c, "mark", e)'
  BY DEF Writes, At
<1>6. ProviderKnows'
  <2> SUFFICES ASSUME NEW e \in Emails PROVE TrashIsTold(e)' /\ StarIsTold(e)' /\ ReadIsTold(e)'
    BY DEF ProviderKnows
  <2>0. TrashIsTold(e) /\ StarIsTold(e) /\ ReadIsTold(e)
    BY DEF MailInd, ProviderKnows
  <2>1. Told(e)' <=> Told(e)
    BY DEF Told, InDb
  <2>2. TrashIsTold(e)'
    BY <2>0, <2>1 DEF TrashIsTold
  <2>3. StarIsTold(e)'
    BY <2>0, <2>1, <1>2, <1>5 DEF StarIsTold
  <2>4. ReadIsTold(e)'
    BY <2>0, <2>1, <1>2, <1>5 DEF ReadIsTold
  <2> QED BY <2>2, <2>3, <2>4
<1>7. NothingOverwritten' /\ StateFollowsFolder'
  BY <1>3 DEF MailInd, NothingOverwritten, StateFollowsFolder
<1> QED BY <1>1, <1>4, <1>6, <1>7 DEF MailInd

\* Which email has lost its files, and which has left them, seen from one client.
FilesOf(e, c) ==
    \/ e \in trace.refused \cup trace.crossed
    \/ At(c, {"hard"}, "delete") /\ actions[c].email = e
    \/ Sweeping(c) /\ e \in actions[c].listed \ actions[c].seen

LEMMA FilesFollow ==
    /\ FilesFollowMail <=> \A e \in Emails :
          /\ InDb(e) /\ e \notin files =>
                e \in trace.refused \cup trace.crossed \/ \E c \in Clients : FilesOf(e, c)
          /\ ~InDb(e) /\ e \in files => e \in trace.crossed \cup trace.ruled
    /\ FilesFollowMail' <=> \A e \in Emails :
          /\ InDb(e)' /\ e \notin files' =>
                e \in trace'.refused \cup trace'.crossed \/ \E c \in Clients : FilesOf(e, c)'
          /\ ~InDb(e)' /\ e \in files' => e \in trace'.crossed \cup trace'.ruled
BY DEF FilesFollowMail, FilesOf

LEMMA RemoveFilesKeeps == ASSUME MailInd, NEW c \in Clients, RemoveFiles(c) PROVE MailInd'
<1>1. /\ actions[c].op = "hard" /\ actions[c].step = "files" /\ Goto(c, "delete")
      /\ files' = files \ (IF InDb(actions[c].email) THEN {actions[c].email} ELSE {})
      /\ UNCHANGED <<letters, gmail, begun, providerFaults, trace>>
  BY DEF RemoveFiles, At
<1>2. PICK e \in Emails : e = actions[c].email
  BY <1>1, Acting
<1>3. /\ actions' \in [Clients -> ActionRecords] /\ actions'[c].op = "hard" /\ actions'[c].email = e
      /\ actions'[c].step = "delete" /\ \A d \in Clients \ {c} : actions'[d] = actions[d]
      /\ actions'[c].target = actions[c].target /\ actions'[c].seen = actions[c].seen
  BY <1>1, <1>2, GoesOn
<1>4. WellFormed(actions'[c])
  BY <1>1, <1>2, <1>3 DEF WellFormed, LabelOps
<1>5. SweptIsGone(c)'
  BY <1>3 DEF SweptIsGone, Sweeping
<1>6. InDb(e) => e \notin files'
  BY <1>1, <1>2
<1>7. FilesFirst(c)'
  BY <1>1, <1>3, <1>6 DEF FilesFirst, InDb
<1>8. FilesFollowMail'
  <2> SUFFICES ASSUME NEW b \in Emails
               PROVE  /\ InDb(b) /\ b \notin files' =>
                            b \in trace.refused \cup trace.crossed \/ \E d \in Clients : FilesOf(b, d)'
                      /\ ~InDb(b) /\ b \in files' => b \in trace.crossed \cup trace.ruled
    BY <1>1, FilesFollow DEF InDb
  <2>1. /\ InDb(b) /\ b \notin files =>
                b \in trace.refused \cup trace.crossed \/ \E d \in Clients : FilesOf(b, d)
        /\ ~InDb(b) /\ b \in files => b \in trace.crossed \cup trace.ruled
    BY FilesFollow DEF MailInd
  <2>2. CASE b = e
    <3>1. FilesOf(b, c)'
      BY <1>3, <2>2 DEF FilesOf, At
    <3> QED BY <1>1, <2>1, <2>2, <3>1
  <2>3. CASE b # e
    <3>1. b \in files' <=> b \in files
      BY <1>1, <1>2, <2>3
    <3>2. \A d \in Clients : FilesOf(b, d) => FilesOf(b, d)' \/ b \in trace.refused \cup trace.crossed
      BY <1>1, <1>3 DEF FilesOf, At, Sweeping
    <3> QED BY <2>1, <3>1, <3>2
  <2> QED BY <2>2, <2>3
<1>9. files' \subseteq files
  BY <1>1
<1> QED BY <1>1, <1>3, <1>4, <1>5, <1>7, <1>8, <1>9, FileStepKeeps

LEMMA ListTrashKeeps == ASSUME MailInd, NEW c \in Clients, ListTrash(c) PROVE MailInd'
<1>1. /\ actions[c].op = "empty" /\ actions[c].step = "list"
      /\ actions' = [actions EXCEPT ![c].step = "sweep", ![c].listed = Trash, ![c].seen = Trash]
      /\ UNCHANGED <<letters, gmail, files, begun, providerFaults, trace>>
  BY DEF ListTrash, At
<1>2. actions[c] \in ActionRecords /\ WellFormed(actions[c]) /\ Trash \in SUBSET Emails
  BY Acting DEF Trash
<1>3. /\ actions'[c] \in ActionRecords /\ actions'[c].op = "empty" /\ actions'[c].step = "sweep"
      /\ actions'[c].listed = Trash /\ actions'[c].seen = Trash
  <2> DEFINE a == actions[c]
             all == Trash
             lists == [a EXCEPT !.step = "sweep", !.listed = all, !.seen = all]
  <2>1. a \in ActionRecords /\ all \in SUBSET Emails
    BY <1>2
  <2>3. actions'[c] = lists
    BY <1>1 DEF MailInd, MailTypes
  <2> HIDE DEF a, all
  <2>2. lists.op = a.op /\ lists.step = "sweep" /\ lists.listed = all /\ lists.seen = all
    BY <2>1 DEF ActionRecords
  <2>4. lists \in ActionRecords
    BY <2>1 DEF ActionRecords
  <2> HIDE DEF lists
  <2> QED BY <1>1, <2>2, <2>3, <2>4 DEF a, all
<1>4. actions' \in [Clients -> ActionRecords] /\ \A d \in Clients \ {c} : actions'[d] = actions[d]
  BY <1>1, <1>3 DEF MailInd, MailTypes
<1>5. WellFormed(actions'[c])
  BY <1>3, MailboxAssumption DEF WellFormed, LabelOps, CallOps, Soft
<1>6. FilesFirst(c)'
  BY <1>3 DEF FilesFirst, At
<1>7. SweptIsGone(c)'
  <2> SUFFICES ASSUME NEW b \in Emails, InDb(b)
               PROVE  /\ (b \in Trash) # letters[b].trash => b \in trace.crossed
                      /\ b \notin Trash \ Trash
    BY <1>1, <1>3 DEF SweptIsGone, InDb
  <2>1. letters[b].trash \in BOOLEAN
    BY RowOf DEF LetterRows
  <2>2. b \in Trash <=> letters[b].trash
    BY DEF Trash
  <2> QED BY <2>1, <2>2
<1>8. \A b \in Emails, d \in Clients : FilesOf(b, d) => FilesOf(b, d)' \/ b \in trace.refused \cup trace.crossed
  BY <1>1, <1>4 DEF FilesOf, At, Sweeping
<1>9. FilesFollowMail'
  BY <1>1, <1>8, FilesFollow DEF MailInd, InDb
<1> QED BY <1>1, <1>3, <1>4, <1>5, <1>6, <1>7, <1>9, FileStepKeeps

LEMMA SweepKeeps == ASSUME MailInd, NEW c \in Clients, Sweep(c) PROVE MailInd'
<1> DEFINE listed == actions[c].listed
           seen == actions[c].seen
<1>1. /\ actions[c].op = "empty" /\ actions[c].step = "sweep"
      /\ UNCHANGED <<letters, gmail, begun, providerFaults, trace>>
  BY DEF Sweep, At
<1>2. /\ actions[c] \in ActionRecords /\ WellFormed(actions[c]) /\ seen \subseteq listed /\ listed \subseteq Emails
  BY <1>1, Acting DEF WellFormed, ActionRecords
<1>3. PICK gone \in SUBSET Emails :
         /\ files' \subseteq files /\ files \ files' \subseteq gone /\ gone \subseteq listed
         /\ \A e \in gone : InDb(e) => e \notin files'
         /\ actions' \in [Clients -> ActionRecords] /\ \A d \in Clients \ {c} : actions'[d] = actions[d]
         /\ actions'[c].op = "empty" /\ actions'[c].step \in {"sweep", "delete"}
         /\ actions'[c].listed = listed /\ actions'[c].seen = seen \ gone
         /\ actions'[c].step = "delete" => actions'[c].seen = {}
  <2>1. CASE seen = {}
    <3>1. Goto(c, "delete") /\ files' = files
      BY <2>1 DEF Sweep
    <3>2. /\ actions' \in [Clients -> ActionRecords] /\ \A d \in Clients \ {c} : actions'[d] = actions[d]
          /\ actions'[c].op = "empty" /\ actions'[c].step = "delete"
          /\ actions'[c].listed = listed /\ actions'[c].seen = seen
      BY <1>1, <3>1, GoesOn
    <3> WITNESS {} \in SUBSET Emails
    <3> QED BY <2>1, <3>1, <3>2
  <2>2. CASE seen # {}
    <3>1. PICK e \in seen : /\ files' = files \ (IF InDb(e) THEN {e} ELSE {})
                            /\ actions' = [actions EXCEPT ![c].seen = @ \ {e}]
      BY <2>2 DEF Sweep
    <3>2. /\ actions' \in [Clients -> ActionRecords] /\ \A d \in Clients \ {c} : actions'[d] = actions[d]
          /\ actions'[c].op = "empty" /\ actions'[c].step = "sweep"
          /\ actions'[c].listed = listed /\ actions'[c].seen = seen \ {e}
      BY <1>1, <1>2, <3>1 DEF MailInd, MailTypes, ActionRecords
    <3>3. {e} \subseteq listed
      BY <1>2
    <3> {e} \in SUBSET Emails
      BY <1>2
    <3> WITNESS {e} \in SUBSET Emails
    <3> QED BY <3>1, <3>2, <3>3
  <2> QED BY <2>1, <2>2
<1>4. WellFormed(actions'[c])
  BY <1>2, <1>3, MailboxAssumption DEF WellFormed, LabelOps, CallOps, Soft
<1>5. FilesFirst(c)'
  BY <1>3 DEF FilesFirst, At
<1>6. Sweeping(c) /\ Sweeping(c)'
  BY <1>1, <1>3 DEF Sweeping
<1>7. SweptIsGone(c)'
  <2>1. SweptIsGone(c)
    BY DEF MailInd, ClientsKnow
  <2> QED BY <1>1, <1>3, <1>6, <2>1 DEF SweptIsGone, InDb
<1>8. FilesFollowMail'
  <2> SUFFICES ASSUME NEW b \in Emails
               PROVE  /\ InDb(b) /\ b \notin files' =>
                            b \in trace.refused \cup trace.crossed \/ \E d \in Clients : FilesOf(b, d)'
                      /\ ~InDb(b) /\ b \in files' => b \in trace.crossed \cup trace.ruled
    BY <1>1, FilesFollow DEF InDb
  <2>1. /\ InDb(b) /\ b \notin files =>
                b \in trace.refused \cup trace.crossed \/ \E d \in Clients : FilesOf(b, d)
        /\ ~InDb(b) /\ b \in files => b \in trace.crossed \cup trace.ruled
    BY FilesFollow DEF MailInd
  <2>2. CASE b \in gone
    <3>1. FilesOf(b, c)'
      BY <1>3, <1>6, <2>2 DEF FilesOf
    <3> QED BY <1>3, <2>1, <3>1
  <2>3. CASE b \notin gone
    <3>1. b \in files' <=> b \in files
      BY <1>3, <2>3
    <3>2. \A d \in Clients : FilesOf(b, d) => FilesOf(b, d)' \/ b \in trace.refused \cup trace.crossed
      BY <1>1, <1>3, <1>6, <2>3 DEF FilesOf, At, Sweeping
    <3> QED BY <2>1, <3>1, <3>2
  <2> QED BY <2>2, <2>3
<1> QED BY <1>1, <1>3, <1>4, <1>5, <1>7, <1>8, FileStepKeeps

\* The steps that delete rows: what is left is as it was.
LEMMA DeletedKeeps ==
    ASSUME MailInd, NEW c \in Clients, NEW doomed \in SUBSET Emails, Finish(c),
           letters' = [e \in Emails |-> IF e \in doomed THEN NoLetter ELSE letters[e]],
           UNCHANGED <<gmail, files, begun, providerFaults>>, actions[c].op \notin {"none", "star", "mark"},
           trace' \in TraceRecords, trace'.owed = trace.owed, trace'.starred = trace.starred,
           trace'.raced = trace.raced, trace'.failed = trace.failed, trace'.crossed = trace.crossed,
           trace.refused \subseteq trace'.refused, trace.ruled \subseteq trace'.ruled,
           \A e \in Emails : /\ FilesOf(e, c) /\ e \notin files =>
                                  e \in doomed \/ ~InDb(e) \/ e \in trace'.refused \cup trace'.crossed
                             /\ e \in doomed /\ InDb(e) /\ e \in files => e \in trace'.crossed \cup trace'.ruled
    PROVE  MailInd'
<1>1. \A e \in Emails : /\ InDb(e)' <=> InDb(e) /\ e \notin doomed
                        /\ InDb(e)' => letters'[e] = letters[e]
  BY DEF InDb
<1>2. /\ actions'[c] = Idle /\ actions' \in [Clients -> ActionRecords] /\ WellFormed(Idle)
      /\ \A d \in Clients \ {c} : actions'[d] = actions[d]
  BY Acting
<1>3. MailTypes'
  <2>1. letters' \in [Emails -> LetterRows \cup {NoLetter}]
    BY DEF MailInd, MailTypes
  <2>2. \A d \in Clients : WellFormed(actions'[d])
    BY <1>2 DEF MailInd, MailTypes
  <2> QED BY <1>2, <2>1, <2>2 DEF MailInd, MailTypes
<1>4. \A d \in Clients \ {c} :
         /\ Sweeping(d)' <=> Sweeping(d)
         /\ \A ops, step : At(d, ops, step)' <=> At(d, ops, step)
         /\ \A op, e : Writes(d, op, e)' <=> Writes(d, op, e)
  BY <1>2 DEF Sweeping, At, Writes
<1>5. \A e : ~Writes(c, "star", e) /\ ~Writes(c, "star", e)' /\ ~Writes(c, "mark", e) /\ ~Writes(c, "mark", e)'
  BY <1>2 DEF Writes, At, Idle
<1>6. \A e \in Emails : Told(e)' => Told(e)
  BY <1>1 DEF Told
<1>7. ClientsKnow'
  <2> SUFFICES ASSUME NEW d \in Clients
               PROVE  SweptIsGone(d)' /\ FilesFirst(d)' /\ StarIsCurrent(d)' /\ TrashingIsTold(d)'
    BY DEF ClientsKnow
  <2>1. CASE d = c
    <3>1. ~Trashing(Idle) /\ ~Sweeping(c)' /\ \A ops : ~At(c, ops, "delete")' /\ ~At(c, ops, "call")' /\ ~At(c, ops, "write")'
      BY <1>2 DEF Trashing, LabelOps, At, Sweeping, Idle
    <3> QED BY <1>2, <2>1, <3>1 DEF SweptIsGone, FilesFirst, StarIsCurrent, TrashingIsTold
  <2>2. CASE d # c
    <3>0. SweptIsGone(d) /\ FilesFirst(d) /\ StarIsCurrent(d) /\ TrashingIsTold(d)
      BY DEF MailInd, ClientsKnow
    <3>1. actions'[d] = actions[d] /\ WellFormed(actions[d])
      BY <1>2, <2>2 DEF MailInd, MailTypes
    <3>2. SweptIsGone(d)'
      BY <3>0, <3>1, <1>1, <1>4, <2>2 DEF SweptIsGone
    <3>3. FilesFirst(d)'
      <4> SUFFICES ASSUME At(d, {"hard"}, "delete"), InDb(actions[d].email)' PROVE actions[d].email \notin files
        BY <1>4, <2>2, <3>1 DEF FilesFirst
      <4>1. actions[d].email \in Emails
        BY <3>1 DEF WellFormed, CallOps, At
      <4>2. InDb(actions[d].email)
        BY <3>1, <4>1, <1>1
      <4> QED BY <3>0, <4>2 DEF FilesFirst
    <3>4. StarIsCurrent(d)'
      <4> SUFFICES ASSUME At(d, {"star"}, "call") \/ At(d, {"star"}, "write"),
                          InDb(actions[d].email)', actions[d].email \notin trace.raced
                   PROVE  actions[d].seen = {} <=> "STARRED" \notin letters'[actions[d].email].flags
        BY <1>4, <2>2, <3>1 DEF StarIsCurrent
      <4>1. actions[d].email \in Emails
        BY <3>1 DEF WellFormed, CallOps, At
      <4>2. InDb(actions[d].email) /\ letters'[actions[d].email] = letters[actions[d].email]
        BY <3>1, <4>1, <1>1
      <4> QED BY <3>0, <4>2 DEF StarIsCurrent
    <3>5. TrashingIsTold(d)'
      <4>1. Trashing(actions[d]) => actions[d].email \in Emails
        BY MailboxAssumption DEF MailInd, MailTypes, WellFormed, Trashing, LabelOps, CallOps, Soft, ActionRecords
      <4> SUFFICES ASSUME Trashing(actions[d]), NEW b \in Emails, b = actions[d].email, Told(b)'
                   PROVE  "TRASH" \in gmail[b]
        BY <3>1, <4>1 DEF TrashingIsTold
      <4> QED BY <3>0, <1>6 DEF TrashingIsTold
    <3> QED BY <3>2, <3>3, <3>4, <3>5
  <2> QED BY <2>1, <2>2
<1>8. ProviderKnows'
  <2> SUFFICES ASSUME NEW e \in Emails, Told(e)' PROVE TrashIsTold(e)' /\ StarIsTold(e)' /\ ReadIsTold(e)'
    BY DEF ProviderKnows, TrashIsTold, StarIsTold, ReadIsTold
  <2>1. /\ TrashIsTold(e) /\ StarIsTold(e) /\ ReadIsTold(e)
        /\ Told(e) /\ letters'[e] = letters[e]
    BY <1>1, <1>6 DEF MailInd, ProviderKnows, Told
  <2>2. TrashIsTold(e)'
    BY <2>1 DEF TrashIsTold
  <2>3. StarIsTold(e)'
    BY <2>1, <1>2, <1>4, <1>5 DEF StarIsTold
  <2>4. ReadIsTold(e)'
    BY <2>1, <1>2, <1>4, <1>5 DEF ReadIsTold
  <2> QED BY <2>2, <2>3, <2>4
<1>9. FilesFollowMail'
  <2> SUFFICES ASSUME NEW e \in Emails
               PROVE  /\ InDb(e)' /\ e \notin files =>
                            e \in trace'.refused \cup trace'.crossed \/ \E d \in Clients : FilesOf(e, d)'
                      /\ ~InDb(e)' /\ e \in files => e \in trace'.crossed \cup trace'.ruled
    BY FilesFollow
  <2>1. /\ InDb(e) /\ e \notin files =>
                e \in trace.refused \cup trace.crossed \/ \E d \in Clients : FilesOf(e, d)
        /\ ~InDb(e) /\ e \in files => e \in trace.crossed \cup trace.ruled
    BY FilesFollow DEF MailInd
  <2>2. \A d \in Clients \ {c} : FilesOf(e, d) => FilesOf(e, d)' \/ e \in trace'.refused \cup trace'.crossed
    BY <1>2, <1>4 DEF FilesOf
  <2> QED BY <2>1, <2>2, <1>1
<1>10. NothingOverwritten' /\ StateFollowsFolder'
  BY <1>1 DEF MailInd, NothingOverwritten, StateFollowsFolder
<1> QED BY <1>3, <1>7, <1>8, <1>9, <1>10 DEF MailInd

LEMMA DeleteRowKeeps == ASSUME MailInd, NEW c \in Clients, DeleteRow(c) PROVE MailInd'
<1>1. /\ actions[c].op = "hard" /\ actions[c].step = "delete" /\ At(c, {"hard"}, "delete") /\ Finish(c)
      /\ UNCHANGED <<gmail, files, begun, providerFaults>>
  BY DEF DeleteRow, At
<1>2. PICK e \in Emails : e = actions[c].email
  BY <1>1, Acting
<1>3. Delete({e} \cap {d \in Emails : InDb(d)}, {e})
  BY <1>2 DEF DeleteRow
<1>4. InDb(e) => e \notin files
  BY <1>1, <1>2 DEF MailInd, ClientsKnow, FilesFirst
<1>5. \A b \in Emails \ {e} : FilesOf(b, c) => b \in trace.refused \cup trace.crossed
  BY <1>1, <1>2 DEF FilesOf, Sweeping
<1>6. CASE {e} \cap {d \in Emails : InDb(d)} \cap HeldMail = {}
  <2> DEFINE doomed == {e} \cap {d \in Emails : InDb(d)}
  <2>1. /\ letters' = [b \in Emails |-> IF b \in doomed THEN NoLetter ELSE letters[b]]
        /\ trace' = trace
    BY <1>3, <1>6 DEF Delete
  <2>2. doomed \in SUBSET Emails /\ (InDb(e) => e \in doomed) /\ \A b \in doomed : b = e
    OBVIOUS
  <2> HIDE DEF doomed
  <2>3. trace \in TraceRecords
    BY DEF MailInd, MailTypes
  <2> QED BY <1>1, <1>4, <1>5, <2>1, <2>2, <2>3, DeletedKeeps
<1>7. CASE {e} \cap {d \in Emails : InDb(d)} \cap HeldMail # {}
  <2>1. letters' = letters /\ trace' = [trace EXCEPT !.refused = @ \cup {e}]
    BY <1>3, <1>7 DEF Delete
  <2> DEFINE doomed == {}
  <2>2. /\ letters' = [b \in Emails |-> IF b \in doomed THEN NoLetter ELSE letters[b]]
        /\ doomed \in SUBSET Emails /\ \A b : b \notin doomed
    BY <2>1 DEF MailInd, MailTypes
  <2> HIDE DEF doomed
  <2>3. /\ trace' \in TraceRecords /\ trace'.owed = trace.owed /\ trace'.starred = trace.starred
        /\ trace'.raced = trace.raced /\ trace'.failed = trace.failed /\ trace'.crossed = trace.crossed
        /\ trace'.refused = trace.refused \cup {e} /\ trace'.ruled = trace.ruled
    BY <2>1 DEF MailInd, MailTypes, TraceRecords
  <2> QED BY <1>1, <1>5, <2>2, <2>3, DeletedKeeps
<1> QED BY <1>6, <1>7

LEMMA PurgeRowKeeps == ASSUME MailInd, NEW c \in Clients, PurgeRow(c) PROVE MailInd'
<1>1. /\ actions[c].op = "rule purge" /\ actions[c].step = "write" /\ Finish(c)
      /\ UNCHANGED <<gmail, files, begun, providerFaults>>
  BY DEF PurgeRow, At
<1>a. "rule purge" \notin {"none", "empty", "hard", "star", "mark"}
  OBVIOUS
<1>2. PICK e \in Emails : e = actions[c].email
  BY <1>1, Acting
<1>5. \A b \in Emails : FilesOf(b, c) => b \in trace.refused \cup trace.crossed
  BY <1>1 DEF FilesOf, Sweeping, At
<1>6. CASE {e} \cap HeldMail = {}
  <2>1. letters' = [letters EXCEPT ![e] = NoLetter] /\ trace' = [trace EXCEPT !.ruled = @ \cup {e}]
    BY <1>2, <1>6 DEF PurgeRow
  <2>2. letters' = [b \in Emails |-> IF b \in {e} THEN NoLetter ELSE letters[b]]
    BY <2>1 DEF MailInd, MailTypes
  <2>3. /\ trace' \in TraceRecords /\ trace'.owed = trace.owed /\ trace'.starred = trace.starred
        /\ trace'.raced = trace.raced /\ trace'.failed = trace.failed /\ trace'.crossed = trace.crossed
        /\ trace'.refused = trace.refused /\ trace'.ruled = trace.ruled \cup {e}
    BY <2>1 DEF MailInd, MailTypes, TraceRecords
  <2>4. {e} \in SUBSET Emails
    OBVIOUS
  <2> QED BY <1>1, <1>a, <1>5, <2>2, <2>3, <2>4, DeletedKeeps
<1>7. CASE {e} \cap HeldMail # {}
  <2>1. letters' = letters /\ trace' = trace
    BY <1>2, <1>7 DEF PurgeRow
  <2> DEFINE doomed == {}
  <2>2. /\ letters' = [b \in Emails |-> IF b \in doomed THEN NoLetter ELSE letters[b]]
        /\ doomed \in SUBSET Emails /\ \A b : b \notin doomed
    BY <2>1 DEF MailInd, MailTypes
  <2> HIDE DEF doomed
  <2>3. trace \in TraceRecords
    BY DEF MailInd, MailTypes
  <2> QED BY <1>1, <1>a, <1>5, <2>1, <2>2, <2>3, DeletedKeeps
<1> QED BY <1>6, <1>7

LEMMA DeleteTrashKeeps == ASSUME MailInd, NEW c \in Clients, DeleteTrash(c) PROVE MailInd'
<1> DEFINE listed == actions[c].listed
<1>1. /\ actions[c].op = "empty" /\ actions[c].step = "delete" /\ Sweeping(c) /\ Finish(c)
      /\ UNCHANGED <<gmail, files, begun, providerFaults>> /\ Delete(Trash, listed)
  BY DEF DeleteTrash, At, Sweeping
<1>2. actions[c].seen = {} /\ listed \subseteq Emails
  BY <1>1, Acting DEF WellFormed, ActionRecords
<1>3. \A e \in Emails : InDb(e) => /\ (e \in listed) # letters[e].trash => e \in trace.crossed
                                   /\ e \in listed => e \notin files
  BY <1>1, <1>2 DEF MailInd, ClientsKnow, SweptIsGone
<1>4. \A e \in Emails : FilesOf(e, c) => e \in listed \/ e \in trace.refused \cup trace.crossed
  BY <1>1, <1>2 DEF FilesOf, At
<1>5. \A e \in Emails : /\ e \in Trash <=> InDb(e) /\ letters[e].trash
                        /\ InDb(e) => letters[e].trash \in BOOLEAN
  BY RowOf DEF Trash, LetterRows
<1>6. CASE Trash \cap HeldMail = {}
  <2>1. letters' = [b \in Emails |-> IF b \in Trash THEN NoLetter ELSE letters[b]] /\ trace' = trace
    BY <1>1, <1>6 DEF Delete
  <2>2. trace \in TraceRecords /\ Trash \in SUBSET Emails
    BY DEF MailInd, MailTypes, Trash
  <2>3. \A e \in Emails : /\ FilesOf(e, c) /\ e \notin files =>
                                e \in Trash \/ ~InDb(e) \/ e \in trace.refused \cup trace.crossed
                          /\ e \in Trash /\ InDb(e) /\ e \in files => e \in trace.crossed \cup trace.ruled
    BY <1>3, <1>4, <1>5
  <2> QED BY <1>1, <2>1, <2>2, <2>3, DeletedKeeps
<1>7. CASE Trash \cap HeldMail # {}
  <2>1. letters' = letters /\ trace' = [trace EXCEPT !.refused = @ \cup listed]
    BY <1>1, <1>7 DEF Delete
  <2> DEFINE doomed == {}
  <2>2. /\ letters' = [b \in Emails |-> IF b \in doomed THEN NoLetter ELSE letters[b]]
        /\ doomed \in SUBSET Emails /\ \A b : b \notin doomed
    BY <2>1 DEF MailInd, MailTypes
  <2> HIDE DEF doomed
  <2>3. /\ trace' \in TraceRecords /\ trace'.owed = trace.owed /\ trace'.starred = trace.starred
        /\ trace'.raced = trace.raced /\ trace'.failed = trace.failed /\ trace'.crossed = trace.crossed
        /\ trace'.refused = trace.refused \cup listed /\ trace'.ruled = trace.ruled
    BY <1>2, <2>1 DEF MailInd, MailTypes, TraceRecords
  <2> QED BY <1>1, <1>4, <2>2, <2>3, DeletedKeeps
<1> QED BY <1>6, <1>7

LEMMA MailKept == MailInd /\ [MailboxNext]_mailboxVars => MailInd'
<1> SUFFICES ASSUME MailInd, [MailboxNext]_mailboxVars PROVE MailInd'
  OBVIOUS
<1>1. ASSUME NEW c \in Clients, ActionStep(c) PROVE MailInd'
  BY <1>1, ReadersKeep, CallProviderKeeps, CallFailsKeeps, WriteArchiveKeeps, WriteStarKeeps, WriteReadKeeps,
     WriteSoftKeeps, WriteFolderStateKeeps, WriteFolderLabelsKeeps, WriteLabelsKeeps, WriteDerivedKeeps,
     WriteRuleKeeps, WriteRuleLabelsKeeps, PurgeRowKeeps, RemoveFilesKeeps, DeleteRowKeeps, ListTrashKeeps,
     SweepKeeps, DeleteTrashKeeps DEF ActionStep
<1>2. CASE UNCHANGED mailboxVars
  <2>1. /\ letters' = letters /\ gmail' = gmail /\ files' = files /\ actions' = actions /\ begun' = begun
        /\ providerFaults' = providerFaults /\ trace' = trace
    BY <1>2 DEF mailboxVars
  <2>2. MailTypes'
    BY <2>1 DEF MailInd, MailTypes
  <2>3. ClientsKnow'
    BY <2>1 DEF MailInd, ClientsKnow, SweptIsGone, FilesFirst, StarIsCurrent, TrashingIsTold, Sweeping, At, InDb, Told
  <2>4. ProviderKnows'
    BY <2>1 DEF MailInd, ProviderKnows, TrashIsTold, StarIsTold, ReadIsTold, Writes, At, InDb, Told
  <2>5. FilesFollowMail' /\ NothingOverwritten' /\ StateFollowsFolder'
    BY <2>1 DEF MailInd, FilesFollowMail, NothingOverwritten, StateFollowsFolder, Sweeping, At, InDb
  <2> QED BY <2>2, <2>3, <2>4, <2>5 DEF MailInd
<1> QED BY <1>1, <1>2, BeginsKeep DEF MailboxNext

\* The requests on one mailbox, whatever their interleaving, their number and
\* their targets, and whatever the rules: what MailboxInv says of rows, files and
\* provider.
THEOREM MailboxHolds == MailboxSpec => []MailboxInv
<1>1. MailInd => MailboxInv
  <2> SUFFICES ASSUME MailInd PROVE MailboxInv
    OBVIOUS
  <2>1. MailboxTypeOK
    <3>1. ASSUME NEW e \in Emails, InDb(e)
          PROVE  /\ letters[e].labels \subseteq Labels /\ letters[e].flags \subseteq Flags
                 /\ ~(letters[e].trash /\ letters[e].spam) \/ e \in trace.ruled
      <4>1. letters[e] \in LetterRows
        BY <3>1, RowOf
      <4>2. e \notin trace.ruled => ~(letters[e].trash /\ letters[e].spam)
        BY <3>1 DEF MailInd, StateFollowsFolder
      <4> QED BY <4>1, <4>2 DEF LetterRows
    <3> QED BY <3>1 DEF MailboxTypeOK, MailInd, MailTypes
  <2>2. ProviderIsTold
    <3> SUFFICES ASSUME NEW e \in Emails \ (trace.failed \cup trace.ruled), InDb(e), gmail[e] # GoneAtGmail
                 PROVE  /\ letters[e].trash => "TRASH" \in gmail[e]
                        /\ (\A c \in Clients : actions[c].email # e) /\ e \notin trace.raced =>
                               gmail[e] \cap Flags = letters[e].flags
      BY DEF ProviderIsTold
    <3>1. Told(e) /\ TrashIsTold(e) /\ StarIsTold(e) /\ ReadIsTold(e) /\ letters[e] \in LetterRows
      BY RowOf DEF Told, MailInd, ProviderKnows
    <3>2. ASSUME \A c \in Clients : actions[c].email # e, e \notin trace.raced
          PROVE  gmail[e] \cap Flags = letters[e].flags
      <4>1. \A c \in Clients : ~Writes(c, "star", e) /\ ~Writes(c, "mark", e)
        BY <3>2 DEF Writes
      <4>2. "STARRED" \in gmail[e] <=> "STARRED" \in letters[e].flags
        BY <3>1, <3>2, <4>1 DEF StarIsTold
      <4>3. "UNREAD" \in gmail[e] <=> "UNREAD" \in letters[e].flags
        BY <3>1, <3>2, <4>1 DEF ReadIsTold
      <4> QED BY <3>1, <4>2, <4>3 DEF LetterRows, Flags
    <3> QED BY <3>1, <3>2 DEF TrashIsTold
  <2> QED BY <2>1, <2>2 DEF MailboxInv, MailInd
<1> QED BY <1>1, MailInitially, MailKept, PTL DEF MailboxSpec
-----------------------------------------------------------------------------
(* The plan builder *)

PlanRows ==
    [kind : {"row", "pred"}, account : PlanAccounts, mail : AllMails \cup {NoMail},
     action : PlanActions, source : {"subscription", "cluster", "rule", "archiveStrategy"},
     count : Nat, risk : {"high", "medium", "low"}]

Lookups ==
    {t \in [kind : {"etag", "sub", "cluster", "rules", "count"}, account : PlanAccounts,
            of : SUBSET (PlanClusters \cup DOMAIN RuleFirst), action : PlanActions \cup {""}] :
        /\ t.kind = "rules" => t.of \subseteq DOMAIN RuleFirst
        /\ t.kind = "cluster" => t.action \in ClusterActions}

PlanTypes ==
    /\ inStore \subseteq AllMails
    /\ remoteHistory \in [PlanAccounts -> 1..MaxHistory]
    /\ pending \in [PlanAccounts -> SUBSET [mail : AllMails, at : 1..MaxHistory]]
    /\ marker \in [PlanAccounts -> 0..MaxHistory] /\ upTo \in [PlanAccounts -> 0..MaxHistory]
    /\ syncing \in [PlanAccounts -> {"no", "delta", "full"}]
    /\ todo \in Seq(Lookups) /\ operations \in Seq(PlanRows)
    /\ baseline \in [PlanAccounts -> Etags] /\ unmarked \subseteq PlanAccounts

\* The marker of an account follows the history at the provider, and the etag of
\* a plan follows the marker.
MarkerFollows(a) ==
    /\ marker[a] <= remoteHistory[a] /\ upTo[a] <= remoteHistory[a]
    /\ syncing[a] = "delta" => marker[a] # 0 /\ marker[a] <= upTo[a]
    /\ \A p \in pending[a] : p.at > marker[a]
    /\ baseline[a].kind = "gmail" =>
          /\ baseline[a].history \in 1..remoteHistory[a]
          /\ marker[a] = 0 \/ baseline[a].history <= marker[a]

\* The etags come before the other lookups, and no row before they are read.
EtagsLead(s) == \A i, k \in DOMAIN s : i < k /\ s[k].kind = "etag" => s[i].kind = "etag"
NoEtags(s) == \A i \in DOMAIN s : s[i].kind # "etag"

EtagsFirst == EtagsLead(todo) /\ (operations # <<>> => NoEtags(todo))

RowCurrent(o) ==
    /\ o.mail \in RowsOf(o.account) \cup {NoMail}
    /\ o.source = "archiveStrategy" => o.count = Cardinality(RowsOf(o.account))

\* The rows planned for an account are current, or the marker has moved on, or is
\* going to when the sync under way is over.
ShowsChange(a) ==
    baseline[a].kind = "gmail" /\ a \notin unmarked =>
        \/ \A i \in DOMAIN operations : operations[i].account = a => RowCurrent(operations[i])
        \/ marker[a] > baseline[a].history
        \/ syncing[a] = "delta" /\ upTo[a] > baseline[a].history
        \/ syncing[a] = "full" /\ remoteHistory[a] > baseline[a].history

PlanInd ==
    /\ PlanTypes /\ EtagsFirst /\ \A a \in PlanAccounts : MarkerFollows(a) /\ ShowsChange(a)
    /\ OneRowPerMail /\ IrreversibleIsHigh

-----------------------------------------------------------------------------
\* A finite set in some order, each member once.
LEMMA Ordered ==
    ASSUME NEW S, IsFiniteSet(S)
    PROVE  /\ Cardinality(S) \in Nat /\ SetToSeq(S) \in Seq(S)
           /\ DOMAIN SetToSeq(S) = 1..Cardinality(S)
           /\ \A i \in 1..Cardinality(S) : SetToSeq(S)[i] \in S
           /\ \A i, k \in 1..Cardinality(S) : SetToSeq(S)[i] = SetToSeq(S)[k] => i = k
<1>1. Cardinality(S) \in Nat /\ ExistsBijection(1..Cardinality(S), S)
  BY FS_CardinalityType
<1>2. \E f \in [1..Cardinality(S) -> S] : IsInjective(f)
  BY <1>1 DEF ExistsBijection, Bijection, Injection
<1>3. SetToSeq(S) \in [1..Cardinality(S) -> S] /\ IsInjective(SetToSeq(S))
  BY <1>2 DEF SetToSeq
<1>4. SetToSeq(S) \in Seq(S)
  BY <1>1, <1>3, SeqDef
<1> QED BY <1>1, <1>3, <1>4 DEF IsInjective

\* A sequence by its members.
LEMMA Listed == ASSUME NEW S, NEW n \in Nat, NEW f \in [1..n -> S] PROVE f \in Seq(S)
BY SeqDef

LEMMA SameMails == ASSUME NEW a \in PlanAccounts PROVE MailsOf[a] \subseteq AllMails /\ NoMail \notin AllMails
BY PlanAssumption DEF AllMails

LEMMA OwnerOwns ==
    ASSUME NEW m \in AllMails
    PROVE  OwnerOf(m) \in PlanAccounts /\ \A a \in PlanAccounts \ {OwnerOf(m)} : m \notin MailsOf[a]
<1>1. \E a \in PlanAccounts : m \in MailsOf[a]
  BY DEF AllMails
<1>2. OwnerOf(m) \in PlanAccounts /\ m \in MailsOf[OwnerOf(m)]
  BY <1>1 DEF OwnerOf
<1> QED BY <1>2, PlanAssumption

LEMMA EtagTyped ==
    ASSUME PlanTypes, NEW a \in PlanAccounts
    PROVE  /\ EtagOf(a) \in Etags
           /\ EtagOf(a).kind = "gmail" => EtagOf(a).history = marker[a] /\ marker[a] # 0
BY PlanAssumption DEF PlanTypes, EtagOf, Etags, NoEtag

-----------------------------------------------------------------------------
(* Beginning and end of a build *)

LEMMA PlanInitially == PlanInit => PlanInd
<1> SUFFICES ASSUME PlanInit PROVE PlanInd
  OBVIOUS
<1>1. PlanTypes
  BY PlanAssumption, EmptySeq DEF PlanInit, PlanTypes, Etags, Unread
<1>2. EtagsFirst /\ OneRowPerMail /\ IrreversibleIsHigh
  BY DEF PlanInit, EtagsFirst, EtagsLead, OneRowPerMail, IrreversibleIsHigh
<1>3. ASSUME NEW a \in PlanAccounts PROVE MarkerFollows(a) /\ ShowsChange(a)
  BY PlanAssumption DEF PlanInit, MarkerFollows, ShowsChange, Unread
<1> QED BY <1>1, <1>2, <1>3 DEF PlanInd

LEMMA LookupsJoined ==
    ASSUME NEW s \in Seq(Lookups), NEW t \in Seq(Lookups), EtagsLead(s), NoEtags(t)
    PROVE  s \o t \in Seq(Lookups) /\ EtagsLead(s \o t)
<1>1. /\ s \o t \in Seq(Lookups) /\ Len(s \o t) = Len(s) + Len(t)
      /\ \A i \in 1..Len(s) + Len(t) : (s \o t)[i] = IF i <= Len(s) THEN s[i] ELSE t[i - Len(s)]
  BY ConcatProperties
<1>2. /\ DOMAIN s = 1..Len(s) /\ DOMAIN t = 1..Len(t) /\ DOMAIN (s \o t) = 1..Len(s) + Len(t)
      /\ Len(s) \in Nat /\ Len(t) \in Nat
  BY <1>1, LenProperties
<1>3. ASSUME NEW i \in DOMAIN (s \o t), NEW k \in DOMAIN (s \o t), i < k, (s \o t)[k].kind = "etag"
      PROVE  (s \o t)[i].kind = "etag"
  <2>1. k <= Len(s)
    <3> SUFFICES ASSUME ~(k <= Len(s)) PROVE FALSE
      OBVIOUS
    <3>1. k - Len(s) \in DOMAIN t /\ (s \o t)[k] = t[k - Len(s)]
      BY <1>1, <1>2
    <3> QED BY <1>3, <3>1 DEF NoEtags
  <2>2. i \in DOMAIN s /\ k \in DOMAIN s /\ (s \o t)[i] = s[i] /\ (s \o t)[k] = s[k]
    BY <1>1, <1>2, <1>3, <2>1
  <2> QED BY <1>3, <2>2 DEF EtagsLead
<1> QED BY <1>1, <1>3 DEF EtagsLead

LEMMA RuleGroupsTyped ==
    ASSUME NEW rules \in Seq([account : PlanAccounts, rule : DOMAIN RuleFirst])
    PROVE  RuleGroups(rules) \in Seq(Lookups) /\ NoEtags(RuleGroups(rules))
<1> DEFINE who == {r.account : r \in Range(rules)}
           chosen(a) == {rules[i].rule : i \in {k \in DOMAIN rules : rules[k].account = a}}
<1>1. /\ Len(rules) \in Nat /\ DOMAIN rules = 1..Len(rules)
      /\ \A i \in DOMAIN rules : rules[i] \in [account : PlanAccounts, rule : DOMAIN RuleFirst]
  BY LenProperties, ElementOfSeq
<1>2. who \subseteq PlanAccounts
  BY <1>1 DEF Range
<1>3. IsFiniteSet(who)
  <2> DEFINE f == [i \in 1..Len(rules) |-> rules[i].account]
  <2>1. f \in Surjection(1..Len(rules), who)
    BY <1>1 DEF Surjection, Range
  <2> HIDE DEF f, who
  <2> QED BY <1>1, <2>1, FS_Interval, FS_Surjection
<1>4. Cardinality(who) \in Nat /\ \A i \in 1..Cardinality(who) : SetToSeq(who)[i] \in PlanAccounts
  <2> HIDE DEF who
  <2> QED BY <1>2, <1>3, Ordered
<1>5. \A a : chosen(a) \subseteq DOMAIN RuleFirst
  BY <1>1
<1> DEFINE Mine == {t \in Lookups : t.kind = "rules"}
<1>6. ASSUME NEW i \in 1..Cardinality(who)
      PROVE  Lookup("rules", SetToSeq(who)[i], chosen(SetToSeq(who)[i]), "") \in Mine
  <2> DEFINE a == SetToSeq(who)[i]
  <2>1. a \in PlanAccounts /\ chosen(a) \subseteq DOMAIN RuleFirst
    BY <1>4, <1>5
  <2> HIDE DEF who, chosen, a
  <2>2. Lookup("rules", a, chosen(a), "") \in Mine
    BY <2>1 DEF Lookup, Lookups
  <2> QED BY <2>2 DEF a
<1>7. RuleGroups(rules) = [i \in 1..Cardinality(who) |-> Lookup("rules", SetToSeq(who)[i], chosen(SetToSeq(who)[i]), "")]
  BY DEF RuleGroups
<1> HIDE DEF who, chosen, Mine
<1>8. RuleGroups(rules) \in [1..Cardinality(who) -> Mine]
  BY <1>6, <1>7
<1>9. RuleGroups(rules) \in Seq(Lookups)
  <2>1. RuleGroups(rules) \in [1..Cardinality(who) -> Lookups]
    BY <1>8 DEF Mine
  <2> QED BY <1>4, <2>1, Listed
<1>10. NoEtags(RuleGroups(rules))
  <2>1. \A i \in 1..Cardinality(who) : RuleGroups(rules)[i].kind = "rules"
    BY <1>8 DEF Mine
  <2>2. DOMAIN RuleGroups(rules) = 1..Cardinality(who)
    BY <1>7
  <2> QED BY <2>1, <2>2 DEF NoEtags
<1> QED BY <1>9, <1>10

LEMMA LookupsTyped ==
    ASSUME NEW sel \in Selections
    PROVE  LookupsOf(sel) \in Seq(Lookups) /\ EtagsLead(LookupsOf(sel))
<1> DEFINE each(kind) == [i \in DOMAIN sel.accounts |-> Lookup(kind, sel.accounts[i], {}, "")]
           subs == [i \in DOMAIN sel.subs |-> Lookup("sub", sel.subs[i], {}, "unsubscribe")]
           clusters == [i \in DOMAIN sel.clusters |->
                          Lookup("cluster", sel.clusters[i].account, {sel.clusters[i].cluster},
                                 sel.clusters[i].action)]
           last == IF sel.archive THEN each("count") ELSE <<>>
<1>1. /\ sel.accounts \in Seq(PlanAccounts) /\ sel.subs \in Seq(PlanAccounts)
      /\ sel.clusters \in Seq([cluster : PlanClusters, account : PlanAccounts, action : ClusterActions])
      /\ sel.rules \in Seq([account : PlanAccounts, rule : DOMAIN RuleFirst])
  BY PlanAssumption
<1>2. ASSUME NEW kind \in {"etag", "count"}
      PROVE  each(kind) \in Seq(Lookups) /\ \A i \in DOMAIN each(kind) : each(kind)[i].kind = kind
  <2>1. /\ Len(sel.accounts) \in Nat /\ DOMAIN sel.accounts = 1..Len(sel.accounts)
        /\ \A i \in DOMAIN sel.accounts : sel.accounts[i] \in PlanAccounts
    BY <1>1, LenProperties, ElementOfSeq
  <2>2. \A i \in DOMAIN sel.accounts : Lookup(kind, sel.accounts[i], {}, "") \in Lookups
    BY <1>2, <2>1 DEF Lookup, Lookups, PlanActions
  <2>3. each(kind) \in [1..Len(sel.accounts) -> Lookups]
    BY <2>1, <2>2
  <2>4. each(kind) \in Seq(Lookups)
    BY <2>1, <2>3, Listed
  <2> QED BY <2>4 DEF Lookup
<1>3. subs \in Seq(Lookups) /\ NoEtags(subs)
  <2>1. /\ Len(sel.subs) \in Nat /\ DOMAIN sel.subs = 1..Len(sel.subs)
        /\ \A i \in DOMAIN sel.subs : sel.subs[i] \in PlanAccounts
    BY <1>1, LenProperties, ElementOfSeq
  <2>2. \A i \in DOMAIN sel.subs : Lookup("sub", sel.subs[i], {}, "unsubscribe") \in Lookups
    BY <2>1 DEF Lookup, Lookups, PlanActions, ClusterActions
  <2>3. subs \in Seq(Lookups)
    BY <2>1, <2>2, SeqDef
  <2> QED BY <2>3 DEF Lookup, NoEtags
<1>4. clusters \in Seq(Lookups) /\ NoEtags(clusters)
  <2>1. /\ Len(sel.clusters) \in Nat /\ DOMAIN sel.clusters = 1..Len(sel.clusters)
        /\ \A i \in DOMAIN sel.clusters :
              sel.clusters[i] \in [cluster : PlanClusters, account : PlanAccounts, action : ClusterActions]
    BY <1>1, LenProperties, ElementOfSeq
  <2>2. \A i \in DOMAIN sel.clusters :
            Lookup("cluster", sel.clusters[i].account, {sel.clusters[i].cluster}, sel.clusters[i].action) \in Lookups
    BY <2>1 DEF Lookup, Lookups, PlanActions, ClusterActions
  <2>3. clusters \in [1..Len(sel.clusters) -> Lookups]
    BY <2>1, <2>2
  <2>4. clusters \in Seq(Lookups)
    BY <2>1, <2>3, Listed
  <2> QED BY <2>4 DEF Lookup, NoEtags
<1>5. RuleGroups(sel.rules) \in Seq(Lookups) /\ NoEtags(RuleGroups(sel.rules))
  BY <1>1, RuleGroupsTyped
<1>6. last \in Seq(Lookups) /\ NoEtags(last)
  <2>1. CASE sel.archive
    BY <1>2, <2>1 DEF NoEtags
  <2>2. CASE ~sel.archive
    BY <2>2, EmptySeq DEF NoEtags
  <2> QED BY <2>1, <2>2
<1>7. each("etag") \in Seq(Lookups) /\ EtagsLead(each("etag"))
  BY <1>2 DEF EtagsLead
<1>8. LookupsOf(sel) = each("etag") \o subs \o clusters \o RuleGroups(sel.rules) \o last
  BY DEF LookupsOf
<1> DEFINE etags == each("etag")   groups == RuleGroups(sel.rules)
<1> HIDE DEF etags, subs, clusters, groups, last
<1>9. etags \o subs \in Seq(Lookups) /\ EtagsLead(etags \o subs)
  BY <1>3, <1>7, LookupsJoined DEF etags
<1>10. etags \o subs \o clusters \in Seq(Lookups) /\ EtagsLead(etags \o subs \o clusters)
  BY <1>4, <1>9, LookupsJoined
<1>11. etags \o subs \o clusters \o groups \in Seq(Lookups) /\ EtagsLead(etags \o subs \o clusters \o groups)
  BY <1>5, <1>10, LookupsJoined DEF groups
<1>12. etags \o subs \o clusters \o groups \o last \in Seq(Lookups)
       /\ EtagsLead(etags \o subs \o clusters \o groups \o last)
  BY <1>6, <1>11, LookupsJoined
<1> QED BY <1>8, <1>12 DEF etags, groups

\* The rows of the mailbox and the marks on it stay as they are.
LEMMA BuildKeeps == PlanInd /\ (BuildPlan \/ BuildFails) => PlanInd'
<1> SUFFICES ASSUME PlanInd, BuildPlan \/ BuildFails PROVE PlanInd'
  OBVIOUS
<1>1. /\ UNCHANGED worldVars /\ baseline' = [a \in PlanAccounts |-> Unread]
      /\ operations' = <<>> /\ unmarked' = {}
      /\ todo' \in Seq(Lookups) /\ EtagsLead(todo')
  <2>1. <<>> \in Seq(Lookups) /\ EtagsLead(<<>>)
    BY EmptySeq DEF EtagsLead
  <2>2. CASE BuildPlan
    BY <2>2, LookupsTyped DEF BuildPlan
  <2>3. CASE BuildFails
    BY <2>1, <2>3 DEF BuildFails
  <2> QED BY <2>2, <2>3
<1>2. PlanTypes'
  BY <1>1, EmptySeq, PlanAssumption DEF PlanInd, PlanTypes, worldVars, Etags, Unread
<1>3. EtagsFirst' /\ OneRowPerMail' /\ IrreversibleIsHigh'
  BY <1>1 DEF EtagsFirst, EtagsLead, OneRowPerMail, IrreversibleIsHigh
<1>4. ASSUME NEW a \in PlanAccounts PROVE MarkerFollows(a)' /\ ShowsChange(a)'
  BY <1>1 DEF PlanInd, MarkerFollows, ShowsChange, worldVars, Unread
<1> QED BY <1>2, <1>3, <1>4 DEF PlanInd

\* What a lookup takes from the list.
LEMMA Taken ==
    ASSUME PlanInd, todo # <<>>, todo' = Tail(todo)
    PROVE  /\ Head(todo) \in Lookups /\ todo' \in Seq(Lookups) /\ EtagsLead(todo')
           /\ Head(todo).kind # "etag" => NoEtags(todo')
           /\ Head(todo).kind = "etag" => operations = <<>>
<1>1. todo \in Seq(Lookups) /\ EtagsLead(todo)
  BY DEF PlanInd, PlanTypes, EtagsFirst
<1>2. /\ Head(todo) = todo[1] /\ Head(todo) \in Lookups /\ Tail(todo) \in Seq(Lookups)
      /\ Len(Tail(todo)) = Len(todo) - 1 /\ Len(todo) \in Nat \ {0}
      /\ \A i \in 1..Len(Tail(todo)) : Tail(todo)[i] = todo[i + 1]
      /\ DOMAIN todo = 1..Len(todo)
  BY <1>1, HeadTailProperties, EmptySeq, LenProperties
<1>3. DOMAIN Tail(todo) = 1..Len(todo) - 1
  BY <1>2, LenProperties
<1>4. \A i \in DOMAIN Tail(todo) : i + 1 \in DOMAIN todo /\ Tail(todo)[i] = todo[i + 1] /\ 1 < i + 1 /\ 1 \in DOMAIN todo
  BY <1>2, <1>3
<1>5. EtagsLead(Tail(todo))
  <2> SUFFICES ASSUME NEW i \in DOMAIN Tail(todo), NEW k \in DOMAIN Tail(todo), i < k,
                      Tail(todo)[k].kind = "etag"
               PROVE  Tail(todo)[i].kind = "etag"
    BY DEF EtagsLead
  <2>1. i + 1 < k + 1
    BY <1>3
  <2> QED BY <1>1, <1>4, <2>1 DEF EtagsLead
<1>6. Head(todo).kind # "etag" => NoEtags(Tail(todo))
  BY <1>1, <1>2, <1>4 DEF EtagsLead, NoEtags
<1>7. Head(todo).kind = "etag" => operations = <<>>
  BY <1>2 DEF PlanInd, EtagsFirst, NoEtags
<1> QED BY <1>2, <1>5, <1>6, <1>7

LEMMA EtagKeeps == PlanInd /\ ReadEtag => PlanInd'
<1> SUFFICES ASSUME PlanInd, ReadEtag PROVE PlanInd'
  OBVIOUS
<1> DEFINE a == Head(todo).account
<1>1. /\ todo # <<>> /\ Head(todo).kind = "etag" /\ todo' = Tail(todo)
      /\ baseline' = [baseline EXCEPT ![a] = EtagOf(a)] /\ unmarked' = unmarked \ {a}
      /\ UNCHANGED worldVars /\ UNCHANGED operations
  BY DEF ReadEtag, Doing
<1>2. /\ Head(todo) \in Lookups /\ todo' \in Seq(Lookups) /\ EtagsLead(todo') /\ operations = <<>>
  BY <1>1, Taken
<1>3. a \in PlanAccounts
  BY <1>2 DEF Lookups
<1> HIDE DEF a
<1>4. /\ EtagOf(a) \in Etags
      /\ EtagOf(a).kind = "gmail" => EtagOf(a).history = marker[a] /\ marker[a] # 0
  BY <1>3, EtagTyped DEF PlanInd
<1>5. PlanTypes'
  BY <1>1, <1>2, <1>4 DEF PlanInd, PlanTypes, worldVars
<1>6. EtagsFirst' /\ OneRowPerMail' /\ IrreversibleIsHigh'
  BY <1>1, <1>2 DEF EtagsFirst, OneRowPerMail, IrreversibleIsHigh
<1>7. ASSUME NEW b \in PlanAccounts PROVE MarkerFollows(b)' /\ ShowsChange(b)'
  <2>0. baseline \in [PlanAccounts -> Etags] /\ MarkerFollows(b)
    BY DEF PlanInd, PlanTypes
  <2>1. MarkerFollows(b)'
    <3>1. CASE b = a
      <4>1. baseline'[b] = EtagOf(a) /\ marker[a] \in 0..MaxHistory /\ remoteHistory[a] \in 1..MaxHistory
        BY <1>1, <1>3, <2>0, <3>1 DEF PlanInd, PlanTypes
      <4> QED BY <1>1, <1>4, <2>0, <3>1, <4>1, PlanAssumption DEF MarkerFollows, worldVars
    <3>2. CASE b # a
      BY <1>1, <2>0, <3>2 DEF MarkerFollows, worldVars
    <3> QED BY <3>1, <3>2
  <2>2. ShowsChange(b)'
    BY <1>1, <1>2 DEF ShowsChange
  <2> QED BY <2>1, <2>2
<1> QED BY <1>5, <1>6, <1>7 DEF PlanInd

-----------------------------------------------------------------------------
(* The lookups that add rows *)

RiskShown(o) ==
    (\/ o.action = "deletePermanent"
     \/ IsDelete(o.action) /\ ProviderOf[o.account] = "pop3"
     \/ o.count > BulkLimit) => o.risk = "high"

\* What a lookup finds may be added: it is there, no message of it is planned for,
\* and none comes twice.
Addable(new) ==
    /\ new \in Seq(PlanRows)
    /\ \A i \in DOMAIN new : /\ RowCurrent(new[i]) /\ RiskShown(new[i])
                             /\ new[i].mail # NoMail => ~PlannedFor(new[i].mail)
    /\ \A i, k \in DOMAIN new : new[i].mail = new[k].mail /\ new[i].mail # NoMail => i = k

LEMMA RowsAdded ==
    ASSUME PlanInd, NEW kind, Doing(kind), kind # "etag", NEW new, Addable(new), Adds(new)
    PROVE  PlanInd'
<1>1. /\ todo # <<>> /\ Head(todo).kind # "etag" /\ todo' = Tail(todo)
      /\ operations' = operations \o new /\ UNCHANGED worldVars /\ UNCHANGED <<baseline, unmarked>>
  BY DEF Doing, Adds
<1>2. todo' \in Seq(Lookups) /\ EtagsLead(todo') /\ NoEtags(todo')
  BY <1>1, Taken
<1>3. new \in Seq(PlanRows) /\ operations \in Seq(PlanRows)
  BY DEF Addable, PlanInd, PlanTypes
<1>4. /\ operations' \in Seq(PlanRows) /\ Len(operations') = Len(operations) + Len(new)
      /\ \A i \in 1..Len(operations) + Len(new) :
            operations'[i] = IF i <= Len(operations) THEN operations[i] ELSE new[i - Len(operations)]
  BY <1>1, <1>3, ConcatProperties
<1>5. /\ Len(operations) \in Nat /\ Len(new) \in Nat /\ DOMAIN operations = 1..Len(operations)
      /\ DOMAIN new = 1..Len(new) /\ DOMAIN operations' = 1..Len(operations')
  BY <1>3, <1>4, LenProperties
<1>6. \A i \in DOMAIN operations' :
        \/ i \in DOMAIN operations /\ operations'[i] = operations[i]
        \/ i - Len(operations) \in DOMAIN new /\ operations'[i] = new[i - Len(operations)]
  <2> SUFFICES ASSUME NEW i \in DOMAIN operations'
               PROVE  \/ i \in DOMAIN operations /\ operations'[i] = operations[i]
                      \/ i - Len(operations) \in DOMAIN new /\ operations'[i] = new[i - Len(operations)]
    OBVIOUS
  <2>1. i \in 1..Len(operations) + Len(new)
    BY <1>4, <1>5
  <2>2. CASE i <= Len(operations)
    BY <1>4, <1>5, <2>1, <2>2
  <2>3. CASE ~(i <= Len(operations))
    BY <1>4, <1>5, <2>1, <2>3
  <2> QED BY <2>2, <2>3
<1>7. PlanTypes'
  BY <1>1, <1>2, <1>4 DEF PlanInd, PlanTypes, worldVars
<1>8. EtagsFirst'
  BY <1>2 DEF EtagsFirst
<1>9. OneRowPerMail'
  <2> SUFFICES ASSUME NEW i \in DOMAIN operations', NEW k \in DOMAIN operations',
                      operations'[i].mail = operations'[k].mail, operations'[i].mail # NoMail
               PROVE  i = k
    BY DEF OneRowPerMail
  <2>0. Len(operations) \in Int /\ i \in Int /\ k \in Int
    BY <1>4, <1>5
  <2>1. CASE i \in DOMAIN operations /\ operations'[i] = operations[i]
             /\ k \in DOMAIN operations /\ operations'[k] = operations[k]
    BY <2>1 DEF PlanInd, OneRowPerMail
  <2>2. CASE i \in DOMAIN operations /\ operations'[i] = operations[i]
             /\ k - Len(operations) \in DOMAIN new /\ operations'[k] = new[k - Len(operations)]
    BY <2>2 DEF Addable, PlannedFor
  <2>3. CASE i - Len(operations) \in DOMAIN new /\ operations'[i] = new[i - Len(operations)]
             /\ k \in DOMAIN operations /\ operations'[k] = operations[k]
    BY <2>3 DEF Addable, PlannedFor
  <2>4. CASE i - Len(operations) \in DOMAIN new /\ operations'[i] = new[i - Len(operations)]
             /\ k - Len(operations) \in DOMAIN new /\ operations'[k] = new[k - Len(operations)]
    <3>1. i - Len(operations) = k - Len(operations)
      BY <2>4 DEF Addable
    <3> QED BY <2>0, <3>1
  <2> QED BY <1>6, <2>1, <2>2, <2>3, <2>4
<1>10. IrreversibleIsHigh'
  <2> SUFFICES ASSUME NEW i \in DOMAIN operations' PROVE RiskShown(operations'[i])
    BY DEF IrreversibleIsHigh, RiskShown
  <2>1. \A k \in DOMAIN operations : RiskShown(operations[k])
    BY DEF PlanInd, IrreversibleIsHigh, RiskShown
  <2> QED BY <1>6, <2>1 DEF Addable
<1>11. ASSUME NEW a \in PlanAccounts PROVE MarkerFollows(a)' /\ ShowsChange(a)'
  <2>0. MarkerFollows(a) /\ ShowsChange(a)
    BY DEF PlanInd
  <2>1. MarkerFollows(a)'
    BY <1>1, <2>0 DEF MarkerFollows, worldVars
  <2>2. (\A i \in DOMAIN operations : operations[i].account = a => RowCurrent(operations[i])) =>
            \A i \in DOMAIN operations' : operations'[i].account = a => RowCurrent(operations'[i])
    BY <1>6 DEF Addable
  <2>3. \A i \in DOMAIN operations' : RowCurrent(operations'[i]) => RowCurrent(operations[i])'
    BY <1>1 DEF RowCurrent, RowsOf, worldVars
  <2> QED BY <1>1, <2>0, <2>1, <2>2, <2>3 DEF ShowsChange, worldVars
<1> QED BY <1>7, <1>8, <1>9, <1>10, <1>11 DEF PlanInd

LEMMA RiskTyped ==
    ASSUME NEW action, NEW method, NEW a, NEW n
    PROVE  /\ Classify(action, method, a, n) \in {"high", "medium", "low"}
           /\ n > BulkLimit => Classify(action, method, a, n) = "high"
           /\ action = "deletePermanent" => Classify(action, method, a, n) = "high"
           /\ IsDelete(action) /\ ProviderOf[a] = "pop3" => Classify(action, method, a, n) = "high"
<1>1. BaseRisk(action, method, ProviderOf[a]) \in {"high", "medium", "low"}
  BY DEF BaseRisk
<1>2. action = "deletePermanent" => BaseRisk(action, method, ProviderOf[a]) = "high"
  BY DEF BaseRisk
<1>3. IsDelete(action) /\ ProviderOf[a] = "pop3" => BaseRisk(action, method, ProviderOf[a]) = "high"
  BY DEF BaseRisk, IsDelete
<1> QED BY <1>1, <1>2, <1>3 DEF Classify

\* A row without a message, with the risk its action and its count call for.
LEMMA RowTyped ==
    ASSUME NEW a \in PlanAccounts, NEW kind \in {"row", "pred"}, NEW action \in PlanActions,
           NEW source \in {"subscription", "cluster", "rule", "archiveStrategy"}, NEW n \in Nat,
           NEW method, NEW size, n > BulkLimit => size > BulkLimit,
           NEW m \in RowsOf(a) \cup {NoMail}, PlanInd,
           source = "archiveStrategy" => n = Cardinality(RowsOf(a)),
           NEW o, o = Operation(kind, a, m, action, source, n, Classify(action, method, a, size))
    PROVE  o \in PlanRows /\ RowCurrent(o) /\ RiskShown(o) /\ o.mail = m
<1> DEFINE risk == Classify(action, method, a, size)
<1>1. /\ risk \in {"high", "medium", "low"}
      /\ size > BulkLimit => risk = "high"
      /\ action = "deletePermanent" => risk = "high"
      /\ IsDelete(action) /\ ProviderOf[a] = "pop3" => risk = "high"
  BY RiskTyped
<1>2. o = [kind |-> kind, account |-> a, mail |-> m, action |-> action, source |-> source,
           count |-> n, risk |-> risk]
  BY DEF Operation
<1>3. m \in AllMails \cup {NoMail}
  BY DEF RowsOf, PlanInd, PlanTypes
<1> HIDE DEF risk
<1>4. o \in PlanRows
  BY <1>1, <1>2, <1>3 DEF PlanRows
<1>5. /\ o.account = a /\ o.mail = m /\ o.action = action /\ o.source = source /\ o.count = n /\ o.risk = risk
  BY <1>2
<1> HIDE <1>2
<1>6. RowCurrent(o)
  BY <1>5 DEF RowCurrent
<1>7. RiskShown(o)
  BY <1>1, <1>5 DEF RiskShown
<1> QED BY <1>4, <1>5, <1>6, <1>7

LEMMA HeadTyped ==
    ASSUME PlanInd, NEW kind, Doing(kind)
    PROVE  /\ Head(todo) \in Lookups /\ Head(todo).kind = kind /\ Head(todo).account \in PlanAccounts
           /\ kind = "rules" => Head(todo).of \subseteq DOMAIN RuleFirst
<1>1. Head(todo) \in Lookups /\ Head(todo).kind = kind
  BY HeadTailProperties DEF Doing, PlanInd, PlanTypes
<1> QED BY <1>1 DEF Lookups

LEMMA OneAdded ==
    ASSUME NEW o \in PlanRows, RowCurrent(o), RiskShown(o), o.mail = NoMail
    PROVE  Addable(<<o>>)
<1>1. <<o>> \in Seq(PlanRows) /\ DOMAIN <<o>> = {1} /\ <<o>>[1] = o
  OBVIOUS
<1> QED BY <1>1 DEF Addable

LEMMA SubscriptionKeeps == PlanInd /\ FindSubscription => PlanInd'
<1> SUFFICES ASSUME PlanInd, FindSubscription PROVE PlanInd'
  OBVIOUS
<1> DEFINE a == Head(todo).account
<1>1. PICK method \in {"none", "mailto", "webLink", "listUnsubscribePost"} :
          Adds(<<Operation("row", a, NoMail, "unsubscribe", "subscription", 1,
                           Classify("unsubscribe", method, a, 0))>>)
  BY DEF FindSubscription
<1>2. Doing("sub") /\ a \in PlanAccounts
  BY HeadTyped DEF FindSubscription
<1> DEFINE o == Operation("row", a, NoMail, "unsubscribe", "subscription", 1,
                          Classify("unsubscribe", method, a, 0))
<1>3. 1 \in Nat /\ ~(1 > BulkLimit) /\ "unsubscribe" \in PlanActions
  BY PlanAssumption DEF PlanActions
<1> HIDE DEF a
<1>4. o \in PlanRows /\ RowCurrent(o) /\ RiskShown(o) /\ o.mail = NoMail
  BY <1>2, <1>3, RowTyped
<1> HIDE DEF o
<1>5. Addable(<<o>>)
  BY <1>4, OneAdded
<1> QED BY <1>1, <1>2, <1>5, RowsAdded DEF o

LEMMA RowsFinite ==
    ASSUME NEW a \in PlanAccounts, NEW S \in SUBSET RowsOf(a)
    PROVE  IsFiniteSet(S) /\ Cardinality(S) \in Nat
<1>1. IsFiniteSet(MailsOf[a]) /\ S \in SUBSET MailsOf[a]
  BY PlanAssumption DEF RowsOf
<1> QED BY <1>1, FS_Subset, FS_CardinalityType

LEMMA ArchiveKeeps == PlanInd /\ CountForArchive => PlanInd'
<1> SUFFICES ASSUME PlanInd, CountForArchive PROVE PlanInd'
  OBVIOUS
<1> DEFINE a == Head(todo).account
           n == Cardinality(RowsOf(a))
           o == Operation("pred", a, NoMail, "archive", "archiveStrategy", n,
                          Classify("archive", "none", a, n))
<1>1. Doing("count") /\ a \in PlanAccounts /\ Adds(<<o>>)
  BY HeadTyped DEF CountForArchive
<1> HIDE DEF a
<1>2. n \in Nat /\ "archive" \in PlanActions
  BY <1>1, RowsFinite DEF PlanActions
<1>3. n = Cardinality(RowsOf(a))
  OBVIOUS
<1> HIDE DEF n
<1>4. o \in PlanRows /\ RowCurrent(o) /\ RiskShown(o) /\ o.mail = NoMail
  BY <1>1, <1>2, <1>3, RowTyped
<1> HIDE DEF o
<1> QED BY <1>1, <1>4, OneAdded, RowsAdded

LEMMA ClusterKeeps == PlanInd /\ ResolveCluster => PlanInd'
<1> SUFFICES ASSUME PlanInd, ResolveCluster PROVE PlanInd'
  OBVIOUS
<1> DEFINE t == Head(todo)
           found == inStore \cap UNION {members[c] : c \in t.of}
           taken == {m \in found \cap MailsOf[t.account] : ~PlannedFor(m)}
           size == Cardinality(found)
           new == SetToSeq(taken)
           o(i) == Operation("row", t.account, new[i], t.action, "cluster", 1,
                             Classify(t.action, "none", t.account, size))
           added == [i \in DOMAIN new |-> o(i)]
<1>1. Doing("cluster") /\ Adds(added)
  BY DEF ResolveCluster
<1>2. t \in Lookups /\ t.account \in PlanAccounts
  BY <1>1, HeadTyped
<1>3. taken \subseteq RowsOf(t.account) /\ \A m \in taken : ~PlannedFor(m)
  BY DEF RowsOf
<1> HIDE DEF taken
<1>4. IsFiniteSet(taken)
  BY <1>2, <1>3, RowsFinite
<1>5. /\ Cardinality(taken) \in Nat /\ DOMAIN new = 1..Cardinality(taken)
      /\ \A i \in DOMAIN new : new[i] \in taken
      /\ \A i, k \in DOMAIN new : new[i] = new[k] => i = k
  BY <1>4, Ordered
<1>6. t.action \in PlanActions
  BY <1>1, <1>2, HeadTyped DEF Lookups, ClusterActions, PlanActions
<1> HIDE DEF t, new, size
<1>7. ASSUME NEW i \in DOMAIN new
      PROVE  o(i) \in PlanRows /\ RowCurrent(o(i)) /\ RiskShown(o(i)) /\ o(i).mail = new[i]
  <2>1. new[i] \in RowsOf(t.account) \cup {NoMail} /\ 1 \in Nat /\ ~(1 > BulkLimit)
    BY <1>3, <1>5, PlanAssumption
  <2> QED BY <1>2, <1>6, <2>1, RowTyped
<1> HIDE DEF o
<1>8. added \in [1..Cardinality(taken) -> PlanRows]
  BY <1>5, <1>7
<1>9. added \in Seq(PlanRows)
  BY <1>5, <1>8, Listed
<1>10. DOMAIN added = DOMAIN new /\ \A i \in DOMAIN new : added[i] = o(i)
  OBVIOUS
<1> HIDE DEF added
<1>11. Addable(added)
  BY <1>3, <1>5, <1>7, <1>9, <1>10 DEF Addable
<1> QED BY <1>1, <1>11, RowsAdded

LEMMA RulesKeep == PlanInd /\ EvaluateRules => PlanInd'
<1> SUFFICES ASSUME PlanInd, EvaluateRules PROVE PlanInd'
  OBVIOUS
<1> DEFINE t == Head(todo)
           shown(r) == PlanActionFromRule(RuleFirst[r])
<1>0. Doing("rules")
  BY DEF EvaluateRules
<1>1. PICK matches \in Evaluations(t.account, t.of) :
          LET order == SetToSeq(DOMAIN matches)
          IN  Adds([i \in DOMAIN order |->
                    LET n == Cardinality(matches[order[i]]) IN
                    Operation("pred", t.account, NoMail, shown(order[i]), "rule", n,
                              Classify(shown(order[i]), "none", t.account, n))])
  BY DEF EvaluateRules
<1>2. t.account \in PlanAccounts /\ t.of \subseteq DOMAIN RuleFirst
  BY <1>0, HeadTyped
<1> DEFINE order == SetToSeq(DOMAIN matches)
           n(i) == Cardinality(matches[order[i]])
           o(i) == Operation("pred", t.account, NoMail, shown(order[i]), "rule", n(i),
                             Classify(shown(order[i]), "none", t.account, n(i)))
           added == [i \in DOMAIN order |-> o(i)]
<1>3. Adds(added)
  BY <1>1
<1>4. PICK evaluated \in SUBSET t.of : matches \in [evaluated -> Matches(t.account)]
  BY DEF Evaluations
<1>5. /\ DOMAIN matches \subseteq DOMAIN RuleFirst /\ IsFiniteSet(DOMAIN matches)
      /\ \A r \in DOMAIN matches : matches[r] \subseteq RowsOf(t.account)
  <2>1. DOMAIN matches \in SUBSET DOMAIN RuleFirst
    BY <1>2, <1>4
  <2>2. IsFiniteSet(DOMAIN matches)
    BY <2>1, PlanAssumption, FS_Subset
  <2> QED BY <1>4, <2>1, <2>2 DEF Matches
<1>6. /\ Cardinality(DOMAIN matches) \in Nat /\ DOMAIN order = 1..Cardinality(DOMAIN matches)
      /\ \A i \in DOMAIN order : order[i] \in DOMAIN matches
  BY <1>5, Ordered
<1>7. \A r \in DOMAIN RuleFirst : shown(r) \in PlanActions
  BY PlanAssumption DEF PlanActionFromRule, RuleActions, PlanActions
<1> HIDE DEF t, order, shown
<1>8. ASSUME NEW i \in DOMAIN order
      PROVE  o(i) \in PlanRows /\ RowCurrent(o(i)) /\ RiskShown(o(i)) /\ o(i).mail = NoMail
  <2>1. n(i) \in Nat /\ shown(order[i]) \in PlanActions
    BY <1>2, <1>5, <1>6, <1>7, RowsFinite
  <2> DEFINE k == n(i)   action == shown(order[i])
  <2> HIDE DEF k, action
  <2>2. k \in Nat /\ action \in PlanActions /\ t.account \in PlanAccounts
    BY <1>2, <2>1 DEF k, action
  <2>3. o(i) = Operation("pred", t.account, NoMail, action, "rule", k, Classify(action, "none", t.account, k))
    BY DEF k, action
  <2> HIDE DEF o
  <2> QED BY <2>2, <2>3, RowTyped
<1> HIDE DEF o
<1>9. added \in [1..Cardinality(DOMAIN matches) -> PlanRows]
  BY <1>6, <1>8
<1>10. added \in Seq(PlanRows)
  BY <1>6, <1>9, Listed
<1>11. DOMAIN added = DOMAIN order /\ \A i \in DOMAIN order : added[i] = o(i)
  OBVIOUS
<1> HIDE DEF added
<1>12. Addable(added)
  BY <1>8, <1>10, <1>11 DEF Addable
<1> QED BY <1>0, <1>3, <1>12, RowsAdded

-----------------------------------------------------------------------------
(* What goes on meanwhile *)

\* The draft and its order stay; accounts other than the one that moves keep
\* their marks and their rows.
LEMMA WorldKeeps ==
    ASSUME PlanInd, PlanTypes', UNCHANGED draftVars, NEW a \in PlanAccounts,
           MarkerFollows(a)', ShowsChange(a)',
           \A b \in PlanAccounts \ {a} :
               /\ remoteHistory'[b] = remoteHistory[b] /\ pending'[b] = pending[b]
               /\ marker'[b] = marker[b] /\ upTo'[b] = upTo[b] /\ syncing'[b] = syncing[b]
               /\ RowsOf(b)' = RowsOf(b) /\ (b \notin unmarked' => b \notin unmarked)
    PROVE  PlanInd'
<1>1. EtagsFirst' /\ OneRowPerMail' /\ IrreversibleIsHigh'
  BY DEF PlanInd, draftVars, EtagsFirst, EtagsLead, NoEtags, OneRowPerMail, IrreversibleIsHigh
<1>2. ASSUME NEW b \in PlanAccounts, b # a PROVE MarkerFollows(b)' /\ ShowsChange(b)'
  <2>1. MarkerFollows(b) /\ ShowsChange(b)
    BY DEF PlanInd
  <2>2. MarkerFollows(b)'
    BY <1>2, <2>1 DEF MarkerFollows, draftVars
  <2>3. \A i \in DOMAIN operations :
            operations[i].account = b /\ RowCurrent(operations[i]) => RowCurrent(operations[i])'
    BY <1>2 DEF RowCurrent, draftVars
  <2>4. ShowsChange(b)'
    BY <1>2, <2>1, <2>3 DEF ShowsChange, draftVars
  <2> QED BY <2>2, <2>4
<1> QED BY <1>1, <1>2 DEF PlanInd

\* The marks of one account, as the steps use them.
LEMMA MarksOf ==
    ASSUME PlanInd, NEW a \in PlanAccounts
    PROVE  /\ remoteHistory[a] \in 1..MaxHistory /\ marker[a] \in 0..MaxHistory
           /\ upTo[a] \in 0..MaxHistory /\ baseline[a].history \in 0..MaxHistory
           /\ pending[a] \subseteq [mail : AllMails, at : 1..MaxHistory]
           /\ syncing[a] \in {"no", "delta", "full"}
           /\ MarkerFollows(a) /\ ShowsChange(a) /\ MaxHistory \in Nat
BY PlanAssumption DEF PlanInd, PlanTypes, Etags

LEMMA RemoteKeeps == ASSUME PlanInd, NEW a \in PlanAccounts, RemoteMoves(a) PROVE PlanInd'
<1>1. PICK m \in MailsOf[a] :
          pending' = [pending EXCEPT ![a] = @ \cup {[mail |-> m, at |-> remoteHistory'[a]]}]
  BY DEF RemoteMoves
<1>2. /\ remoteHistory[a] < MaxHistory /\ remoteHistory' = [remoteHistory EXCEPT ![a] = @ + 1]
      /\ UNCHANGED <<inStore, marker, syncing, upTo>> /\ UNCHANGED draftVars /\ UNCHANGED unmarked
  BY DEF RemoteMoves
<1>3. remoteHistory'[a] = remoteHistory[a] + 1 /\ remoteHistory'[a] \in 1..MaxHistory
  BY <1>2, MarksOf DEF PlanInd, PlanTypes
<1>4. [mail |-> m, at |-> remoteHistory'[a]] \in [mail : AllMails, at : 1..MaxHistory]
  BY <1>3 DEF AllMails
<1>5. PlanTypes'
  <2>1. remoteHistory' \in [PlanAccounts -> 1..MaxHistory]
    BY <1>2, <1>3 DEF PlanInd, PlanTypes
  <2>2. pending' \in [PlanAccounts -> SUBSET [mail : AllMails, at : 1..MaxHistory]]
    BY <1>1, <1>4 DEF PlanInd, PlanTypes
  <2> QED BY <1>2, <2>1, <2>2 DEF PlanInd, PlanTypes, draftVars
<1>6. pending'[a] = pending[a] \cup {[mail |-> m, at |-> remoteHistory'[a]]}
  BY <1>1 DEF PlanInd, PlanTypes
<1>7. \A p \in pending'[a] : p.at > marker[a]
  <2>1. \A p \in pending[a] : p.at > marker[a]
    BY DEF PlanInd, MarkerFollows
  <2>2. marker[a] <= remoteHistory[a] /\ marker[a] \in Nat /\ remoteHistory[a] \in Nat
    BY MarksOf DEF MarkerFollows
  <2>3. [mail |-> m, at |-> remoteHistory'[a]].at > marker[a]
    BY <1>3, <2>2
  <2> QED BY <1>6, <2>1, <2>3
<1>8. MarkerFollows(a)'
  BY <1>2, <1>3, <1>7, MarksOf DEF MarkerFollows, draftVars
<1>9. ShowsChange(a)'
  BY <1>2, <1>3, MarksOf DEF ShowsChange, draftVars, RowCurrent, RowsOf
<1>10. \A b \in PlanAccounts \ {a} : remoteHistory'[b] = remoteHistory[b] /\ pending'[b] = pending[b]
  BY <1>1, <1>2 DEF PlanInd, PlanTypes
<1> QED BY <1>2, <1>5, <1>8, <1>9, <1>10, WorldKeeps DEF RowsOf

LEMMA BeginSyncKeeps == ASSUME PlanInd, NEW a \in PlanAccounts, BeginSync(a) PROVE PlanInd'
<1>1. /\ syncing[a] = "no"
      /\ syncing' = [syncing EXCEPT ![a] = IF marker[a] = 0 THEN "full" ELSE "delta"]
      /\ upTo' = [upTo EXCEPT ![a] = remoteHistory[a]]
      /\ UNCHANGED <<inStore, remoteHistory, pending, marker>> /\ UNCHANGED draftVars /\ UNCHANGED unmarked
  BY DEF BeginSync
<1>2. /\ syncing'[a] = (IF marker[a] = 0 THEN "full" ELSE "delta") /\ upTo'[a] = remoteHistory[a]
      /\ \A b \in PlanAccounts \ {a} : syncing'[b] = syncing[b] /\ upTo'[b] = upTo[b]
  BY <1>1 DEF PlanInd, PlanTypes
<1>3. PlanTypes'
  <2>1. syncing' \in [PlanAccounts -> {"no", "delta", "full"}]
    BY <1>1 DEF PlanInd, PlanTypes
  <2>2. upTo' \in [PlanAccounts -> 0..MaxHistory]
    BY <1>1, MarksOf DEF PlanInd, PlanTypes
  <2> QED BY <1>1, <2>1, <2>2 DEF PlanInd, PlanTypes, draftVars
<1>4. MarkerFollows(a)'
  BY <1>1, <1>2, MarksOf DEF MarkerFollows, draftVars
<1>5. ShowsChange(a)'
  BY <1>1, <1>2, MarksOf DEF ShowsChange, draftVars, RowCurrent, RowsOf
<1> QED BY <1>1, <1>2, <1>3, <1>4, <1>5, WorldKeeps DEF RowsOf

LEMMA MarkerKeeps == ASSUME PlanInd, NEW a \in PlanAccounts, ClearMarker(a) PROVE PlanInd'
<1>1. /\ syncing[a] = "delta" /\ syncing' = [syncing EXCEPT ![a] = "full"]
      /\ marker' = [marker EXCEPT ![a] = 0] /\ upTo' = [upTo EXCEPT ![a] = 0]
      /\ UNCHANGED <<inStore, remoteHistory, pending>> /\ UNCHANGED draftVars /\ UNCHANGED unmarked
  BY DEF ClearMarker
<1>2. /\ syncing'[a] = "full" /\ marker'[a] = 0 /\ upTo'[a] = 0
      /\ \A b \in PlanAccounts \ {a} :
            syncing'[b] = syncing[b] /\ upTo'[b] = upTo[b] /\ marker'[b] = marker[b]
  BY <1>1 DEF PlanInd, PlanTypes
<1>3. PlanTypes'
  <2>1. syncing' \in [PlanAccounts -> {"no", "delta", "full"}]
    BY <1>1 DEF PlanInd, PlanTypes
  <2>2. upTo' \in [PlanAccounts -> 0..MaxHistory] /\ marker' \in [PlanAccounts -> 0..MaxHistory]
    BY <1>1, PlanAssumption DEF PlanInd, PlanTypes
  <2> QED BY <1>1, <2>1, <2>2 DEF PlanInd, PlanTypes, draftVars
<1>4. \A p \in pending[a] : p.at > 0
  BY MarksOf
<1>5. MarkerFollows(a)'
  BY <1>1, <1>2, <1>4, MarksOf DEF MarkerFollows, draftVars
<1>6. ShowsChange(a)'
  <2>1. /\ marker[a] > baseline[a].history => remoteHistory[a] > baseline[a].history
        /\ upTo[a] > baseline[a].history => remoteHistory[a] > baseline[a].history
    BY MarksOf DEF MarkerFollows
  <2> QED BY <1>1, <1>2, <2>1, MarksOf DEF ShowsChange, draftVars, RowCurrent, RowsOf
<1> QED BY <1>1, <1>2, <1>3, <1>5, <1>6, WorldKeeps DEF RowsOf

LEMMA EndSyncKeeps == ASSUME PlanInd, NEW a \in PlanAccounts, EndSync(a) PROVE PlanInd'
<1> DEFINE now == IF syncing[a] = "full" THEN remoteHistory[a] ELSE upTo[a]
<1>1. /\ syncing[a] # "no" /\ syncing' = [syncing EXCEPT ![a] = "no"]
      /\ marker' = [marker EXCEPT ![a] = now] /\ upTo' = [upTo EXCEPT ![a] = 0]
      /\ pending' = [pending EXCEPT ![a] = {p \in @ : p.at > now}]
      /\ UNCHANGED <<inStore, remoteHistory>> /\ UNCHANGED draftVars /\ UNCHANGED unmarked
  BY DEF EndSync
<1>2. now \in 0..MaxHistory /\ now <= remoteHistory[a] /\ marker[a] <= now
  BY <1>1, MarksOf DEF MarkerFollows
<1>3. /\ syncing[a] = "delta" => now = upTo[a]
      /\ syncing[a] = "full" => now = remoteHistory[a]
      /\ syncing[a] \in {"delta", "full"}
  BY <1>1, MarksOf
<1> HIDE DEF now
<1>4. /\ syncing'[a] = "no" /\ marker'[a] = now /\ upTo'[a] = 0
      /\ pending'[a] = {p \in pending[a] : p.at > now}
      /\ \A b \in PlanAccounts \ {a} :
            /\ syncing'[b] = syncing[b] /\ upTo'[b] = upTo[b] /\ marker'[b] = marker[b]
            /\ pending'[b] = pending[b]
  BY <1>1 DEF PlanInd, PlanTypes
<1>5. PlanTypes'
  <2>1. syncing' \in [PlanAccounts -> {"no", "delta", "full"}]
    BY <1>1 DEF PlanInd, PlanTypes
  <2>2. upTo' \in [PlanAccounts -> 0..MaxHistory] /\ marker' \in [PlanAccounts -> 0..MaxHistory]
    BY <1>1, <1>2, PlanAssumption DEF PlanInd, PlanTypes
  <2>3. pending' \in [PlanAccounts -> SUBSET [mail : AllMails, at : 1..MaxHistory]]
    BY <1>1 DEF PlanInd, PlanTypes
  <2> QED BY <1>1, <2>1, <2>2, <2>3 DEF PlanInd, PlanTypes, draftVars
<1>6. MarkerFollows(a)'
  <2>1. \A p \in pending'[a] : p.at > now
    BY <1>4
  <2>2. baseline[a].kind = "gmail" =>
            baseline[a].history \in 1..remoteHistory[a] /\ (now = 0 \/ baseline[a].history <= now)
    BY <1>2, <1>3, MarksOf DEF MarkerFollows
  <2> QED BY <1>1, <1>2, <1>4, <2>1, <2>2, MarksOf DEF MarkerFollows, draftVars
<1>7. ShowsChange(a)'
  <2>1. /\ marker[a] > baseline[a].history => now > baseline[a].history
        /\ syncing[a] = "delta" /\ upTo[a] > baseline[a].history => now > baseline[a].history
        /\ syncing[a] = "full" /\ remoteHistory[a] > baseline[a].history => now > baseline[a].history
    BY <1>2, <1>3, MarksOf
  <2> QED BY <1>1, <1>4, <2>1, MarksOf DEF ShowsChange, draftVars, RowCurrent, RowsOf
<1> QED BY <1>1, <1>4, <1>5, <1>6, <1>7, WorldKeeps DEF RowsOf

\* Where rows change unmarked, the account is marked as such, or has no etag yet.
LEMMA UnmarkedExcuses ==
    ASSUME PlanInd, UNCHANGED draftVars, NEW a \in PlanAccounts, Unmarks(a)
    PROVE  /\ ShowsChange(a)' /\ unmarked' \subseteq PlanAccounts
           /\ \A b \in PlanAccounts : b \notin unmarked' => b \notin unmarked
<1>1. baseline[a] = Unread => baseline[a].kind # "gmail"
  BY DEF Unread
<1>2. unmarked \subseteq PlanAccounts
  BY DEF PlanInd, PlanTypes
<1> QED BY <1>1, <1>2 DEF Unmarks, ShowsChange, draftVars

LEMMA RowMoves == ASSUME PlanInd, NEW a \in PlanAccounts, SyncRow(a) PROVE PlanInd'
<1>1. PICK m \in MailsOf[a] :
        /\ syncing[a] = "delta" => \E p \in pending[a] : p.mail = m /\ p.at <= upTo[a]
        /\ inStore' = IF m \in inStore THEN inStore \ {m} ELSE inStore \cup {m}
  BY DEF SyncRow
<1>2. /\ syncing[a] # "no" /\ UNCHANGED <<remoteHistory, pending, marker, syncing, upTo>> /\ UNCHANGED draftVars
      /\ IF syncing[a] = "full" THEN Unmarks(a) ELSE UNCHANGED unmarked
  BY DEF SyncRow
<1>3. m \in AllMails /\ \A b \in PlanAccounts \ {a} : m \notin MailsOf[b]
  BY PlanAssumption DEF AllMails
<1>4. \A b \in PlanAccounts \ {a} : RowsOf(b)' = RowsOf(b)
  BY <1>1, <1>3 DEF RowsOf
<1>5. /\ unmarked' \subseteq PlanAccounts
      /\ \A b \in PlanAccounts : b \notin unmarked' => b \notin unmarked
  BY <1>2, UnmarkedExcuses DEF PlanInd, PlanTypes
<1>6. PlanTypes'
  BY <1>1, <1>2, <1>3, <1>5 DEF PlanInd, PlanTypes, draftVars
<1>7. MarkerFollows(a)'
  BY <1>2, MarksOf DEF MarkerFollows, draftVars
<1>8. ShowsChange(a)'
  <2>1. CASE syncing[a] = "full"
    BY <1>2, <2>1, UnmarkedExcuses
  <2>2. CASE syncing[a] # "full"
    <3>1. syncing[a] = "delta"
      BY <1>2, <2>2, MarksOf
    <3>2. PICK p \in pending[a] : p.at <= upTo[a]
      BY <1>1, <3>1
    <3>3. p.at \in Nat /\ p.at > marker[a]
      BY <3>2, MarksOf DEF MarkerFollows
    <3>4. baseline[a].kind = "gmail" => upTo[a] > baseline[a].history
      BY <3>1, <3>2, <3>3, MarksOf DEF MarkerFollows
    <3> QED BY <1>2, <3>1, <3>4 DEF ShowsChange, draftVars
  <2> QED BY <2>1, <2>2
<1> QED BY <1>2, <1>4, <1>5, <1>6, <1>7, <1>8, WorldKeeps

LEMMA DropKeeps == ASSUME PlanInd, NEW a \in PlanAccounts, SyncDropped(a) PROVE PlanInd'
<1>1. /\ syncing' = [syncing EXCEPT ![a] = "no"] /\ upTo' = [upTo EXCEPT ![a] = 0] /\ Unmarks(a)
      /\ UNCHANGED <<inStore, remoteHistory, pending, marker>> /\ UNCHANGED draftVars
  BY DEF SyncDropped
<1>2. /\ syncing'[a] = "no" /\ upTo'[a] = 0
      /\ \A b \in PlanAccounts \ {a} : syncing'[b] = syncing[b] /\ upTo'[b] = upTo[b]
  BY <1>1 DEF PlanInd, PlanTypes
<1>3. /\ ShowsChange(a)' /\ unmarked' \subseteq PlanAccounts
      /\ \A b \in PlanAccounts : b \notin unmarked' => b \notin unmarked
  BY <1>1, UnmarkedExcuses
<1>4. PlanTypes'
  <2>1. syncing' \in [PlanAccounts -> {"no", "delta", "full"}]
    BY <1>1 DEF PlanInd, PlanTypes
  <2>2. upTo' \in [PlanAccounts -> 0..MaxHistory]
    BY <1>1, PlanAssumption DEF PlanInd, PlanTypes
  <2> QED BY <1>1, <1>3, <2>1, <2>2 DEF PlanInd, PlanTypes, draftVars
<1>5. MarkerFollows(a)'
  BY <1>1, <1>2, MarksOf DEF MarkerFollows, draftVars
<1> QED BY <1>1, <1>2, <1>3, <1>4, <1>5, WorldKeeps DEF RowsOf

LEMMA LocalKeeps == ASSUME PlanInd, NEW m \in AllMails, DeletedLocally(m) PROVE PlanInd'
<1> DEFINE a == OwnerOf(m)
<1>1. a \in PlanAccounts /\ \A b \in PlanAccounts \ {a} : m \notin MailsOf[b]
  BY OwnerOwns
<1>2. /\ inStore' = inStore \ {m} /\ Unmarks(a) /\ UNCHANGED draftVars
      /\ UNCHANGED <<remoteHistory, pending, marker, syncing, upTo>>
  BY DEF DeletedLocally
<1> HIDE DEF a
<1>3. /\ ShowsChange(a)' /\ unmarked' \subseteq PlanAccounts
      /\ \A b \in PlanAccounts : b \notin unmarked' => b \notin unmarked
  BY <1>1, <1>2, UnmarkedExcuses
<1>4. PlanTypes'
  BY <1>2, <1>3 DEF PlanInd, PlanTypes, draftVars
<1>5. MarkerFollows(a)'
  BY <1>1, <1>2, MarksOf DEF MarkerFollows, draftVars
<1>6. \A b \in PlanAccounts \ {a} : RowsOf(b)' = RowsOf(b)
  BY <1>1, <1>2 DEF RowsOf
<1> QED BY <1>1, <1>2, <1>3, <1>4, <1>5, <1>6, WorldKeeps

LEMMA QuietKeeps == PlanInd /\ (SavePlan \/ Regroup \/ UNCHANGED planVars) => PlanInd'
<1> SUFFICES ASSUME PlanInd, SavePlan \/ Regroup \/ UNCHANGED planVars PROVE PlanInd'
  OBVIOUS
<1>1. UNCHANGED <<inStore, remoteHistory, pending, marker, syncing, upTo, todo, baseline, operations, unmarked>>
  BY DEF SavePlan, Regroup, planVars, worldVars, draftVars
<1>2. PlanTypes' /\ EtagsFirst' /\ OneRowPerMail' /\ IrreversibleIsHigh'
  BY <1>1 DEF PlanInd, PlanTypes, EtagsFirst, EtagsLead, NoEtags, OneRowPerMail, IrreversibleIsHigh
<1>3. ASSUME NEW a \in PlanAccounts PROVE MarkerFollows(a)' /\ ShowsChange(a)'
  <2>1. MarkerFollows(a) /\ ShowsChange(a)
    BY DEF PlanInd
  <2> QED BY <1>1, <2>1 DEF MarkerFollows, ShowsChange, RowCurrent, RowsOf
<1> QED BY <1>2, <1>3 DEF PlanInd

LEMMA PlanKept == PlanInd /\ [PlanNext]_planVars => PlanInd'
<1> SUFFICES ASSUME PlanInd, [PlanNext]_planVars PROVE PlanInd'
  OBVIOUS
<1>1. CASE BuildPlan \/ BuildFails \/ ReadEtag
  BY <1>1, BuildKeeps, EtagKeeps
<1>2. CASE FindSubscription \/ ResolveCluster \/ EvaluateRules \/ CountForArchive
  BY <1>2, SubscriptionKeeps, ClusterKeeps, RulesKeep, ArchiveKeeps
<1>3. CASE SavePlan \/ Regroup \/ UNCHANGED planVars
  BY <1>3, QuietKeeps
<1>4. ASSUME NEW a \in PlanAccounts,
             RemoteMoves(a) \/ BeginSync(a) \/ ClearMarker(a) \/ SyncRow(a) \/ EndSync(a) \/ SyncDropped(a)
      PROVE  PlanInd'
  BY <1>4, RemoteKeeps, BeginSyncKeeps, MarkerKeeps, RowMoves, EndSyncKeeps, DropKeeps
<1>5. ASSUME NEW m \in AllMails, DeletedLocally(m) PROVE PlanInd'
  BY <1>5, LocalKeeps
<1> QED BY <1>1, <1>2, <1>3, <1>4, <1>5 DEF PlanNext

LEMMA PlanIsCurrent == PlanInd => CleanPlanIsCurrent
<1> SUFFICES ASSUME PlanInd, NEW a \in PlanAccounts,
                    baseline[a].kind = "gmail", Drift(baseline[a], EtagOf(a)) = "clean",
                    syncing[a] = "no", a \notin unmarked,
                    NEW i \in DOMAIN operations, operations[i].account = a
             PROVE  RowCurrent(operations[i])
  BY DEF CleanPlanIsCurrent, RowCurrent
<1>1. baseline[a] = EtagOf(a)
  BY DEF Drift
<1>2. marker[a] = baseline[a].history
  BY <1>1, EtagTyped DEF PlanInd
<1> QED BY <1>2, MarksOf DEF ShowsChange

-----------------------------------------------------------------------------
(* The sample *)

LEMMA Division ==
    ASSUME NEW x \in Nat, NEW m \in Nat \ {0}
    PROVE  x \div m \in Nat /\ m * (x \div m) <= x /\ x < m * (x \div m) + m
BY SMT

\* Steps of at least the divisor lead to ever greater quotients.
LEMMA Spread ==
    ASSUME NEW m \in Nat \ {0}, NEW l \in Nat, m < l, NEW j \in Nat, NEW k \in Nat, j < k
    PROVE  (j * l) \div m < (k * l) \div m
<1> DEFINE x == j * l   y == k * l
<1>1. x \in Nat /\ y \in Nat /\ x + l <= y
  <2>1. k \in Nat /\ j + 1 <= k
    OBVIOUS
  <2>2. PICK d \in Nat : k = j + 1 + d
    <3>1. k - j - 1 \in Nat /\ k = j + 1 + (k - j - 1)
      BY <2>1
    <3> QED BY <3>1
  <2>3. y = x + l + d * l /\ d * l \in Nat /\ x \in Nat
    BY <2>2
  <2> QED BY <2>3
<1> DEFINE p == x \div m   q == y \div m   mp == m * p   mq == m * q
<1>2. p \in Nat /\ q \in Nat /\ mp <= x /\ y < mq + m /\ mp \in Nat /\ mq \in Nat
  <2> HIDE DEF x, y
  <2> QED BY <1>1, Division
<1>3. ASSUME q <= p PROVE FALSE
  <2>1. mq <= mp
    <3> HIDE DEF p, q
    <3>1. PICK e \in Nat : p = q + e
      <4>1. p - q \in Nat /\ p = q + (p - q)
        BY <1>2, <1>3
      <4> QED BY <4>1
    <3>2. mp = mq + m * e /\ m * e \in Nat
      BY <1>2, <3>1
    <3> QED BY <1>2, <3>2
  <2> HIDE DEF mp, mq, x, y
  <2> QED BY <1>1, <1>2, <2>1
<1> HIDE DEF p, q
<1>4. p < q
  BY <1>2, <1>3
<1> QED BY <1>4 DEF p, q

LEMMA SampleFills ==
    ASSUME NEW n \in Nat, NEW cap \in Nat \ {0}
    PROVE  /\ Sample(n, cap) \subseteq 0..n - 1
           /\ Cardinality(Sample(n, cap)) = IF n < cap THEN n ELSE cap
           /\ n > 0 => 0 \in Sample(n, cap)
           /\ n > 0 /\ cap > 5 => n - 1 \in Sample(n, cap)
<1>1. CASE n <= cap
  <2>1. Sample(n, cap) = 0..n - 1
    BY <1>1 DEF Sample
  <2>2. Cardinality(0..n - 1) = n
    BY FS_Interval
  <2> QED BY <1>1, <2>1, <2>2
<1>2. CASE ~(n <= cap)
  <2> DEFINE Least(x, y) == IF x < y THEN x ELSE y
             head == Least(5, cap)
             tail == Least(5, cap - head)
             middle == cap - head - tail
             width == n - tail - head
             at(k) == head + ((k * width) \div middle)
             between == {at(k) : k \in 0..middle - 1}
  <2>1. /\ head \in 1..5 /\ tail \in 0..5 /\ middle \in Nat /\ width \in Nat /\ middle < width
        /\ n > head + tail /\ head + tail + middle = cap /\ (cap > 5 => tail > 0)
    BY <1>2
  <2>2. Sample(n, cap) = 0..head - 1 \cup between \cup n - tail..n - 1
    BY <1>2, <2>1 DEF Sample
  <2> HIDE DEF head, tail, middle, width
  <2>3. ASSUME NEW k \in 0..middle - 1 PROVE at(k) \in head..n - tail - 1
    <3> DEFINE q == (k * width) \div middle   top == (middle * width) \div middle
    <3>1. middle \in Nat \ {0} /\ k \in Nat /\ k < middle
      BY <2>1
    <3>2. q < top
      BY <2>1, <3>1, Spread
    <3>3. top = width
      <4> DEFINE x == middle * width
      <4>1. x \in Nat
        BY <2>1
      <4>2. top \in Nat /\ middle * top <= middle * width /\ middle * width < middle * top + middle
        <5> HIDE DEF x
        <5>1. x \div middle \in Nat /\ middle * (x \div middle) <= x /\ x < middle * (x \div middle) + middle
          BY <3>1, <4>1, Division
        <5> QED BY <5>1 DEF x
      <4> HIDE DEF top
      <4>3. ~(top < width)
        <5> SUFFICES ASSUME top < width PROVE FALSE
          OBVIOUS
        <5>1. PICK d \in Nat : width = top + 1 + d
          <6>1. width - top - 1 \in Nat /\ width = top + 1 + (width - top - 1)
            BY <2>1, <4>2
          <6> QED BY <6>1
        <5>2. middle * width = middle * top + middle + middle * d /\ middle * d \in Nat /\ middle * top \in Nat
          BY <3>1, <4>2, <5>1
        <5> QED BY <3>1, <4>2, <5>2
      <4>4. ~(width < top)
        <5> SUFFICES ASSUME width < top PROVE FALSE
          OBVIOUS
        <5>1. PICK d \in Nat : top = width + 1 + d
          <6>1. top - width - 1 \in Nat /\ top = width + 1 + (top - width - 1)
            BY <2>1, <4>2
          <6> QED BY <6>1
        <5>2. middle * top = middle * width + middle + middle * d /\ middle * d \in Nat /\ middle * width \in Nat
          BY <2>1, <3>1, <5>1
        <5> QED BY <3>1, <4>2, <5>2
      <4> QED BY <2>1, <4>2, <4>3, <4>4
    <3>4. q \in Nat
      <4> DEFINE x == k * width
      <4>1. x \in Nat
        BY <2>1, <3>1
      <4> HIDE DEF x
      <4>2. x \div middle \in Nat
        BY <3>1, <4>1, Division
      <4> QED BY <4>2 DEF x
    <3> HIDE DEF q, top
    <3>5. head + q \in head..n - tail - 1
      BY <2>1, <3>2, <3>3, <3>4 DEF width
    <3> QED BY <3>5 DEF q
  <2>4. ASSUME NEW j \in 0..middle - 1, NEW k \in 0..middle - 1, j < k PROVE at(j) < at(k)
    <3> DEFINE p == (j * width) \div middle   q == (k * width) \div middle
    <3>1. middle \in Nat \ {0} /\ j \in Nat /\ k \in Nat /\ width \in Nat /\ head \in Nat
      BY <2>1
    <3>2. p < q
      <4>1. middle < width /\ j < k
        BY <2>1, <2>4
      <4> QED BY <3>1, <4>1, Spread
    <3>3. p \in Nat /\ q \in Nat
      <4> DEFINE x == j * width   y == k * width
      <4>1. x \in Nat /\ y \in Nat
        BY <3>1
      <4> HIDE DEF x, y
      <4>2. x \div middle \in Nat /\ y \div middle \in Nat
        BY <3>1, <4>1, Division
      <4> QED BY <4>2 DEF x, y
    <3> HIDE DEF p, q
    <3>4. head + p < head + q
      BY <3>1, <3>2, <3>3
    <3> QED BY <3>4 DEF p, q
  <2> HIDE DEF at
  <2>5. IsFiniteSet(between) /\ Cardinality(between) = middle
    <3> DEFINE f == [k \in 0..middle - 1 |-> at(k)]
    <3>1. \A j, k \in 0..middle - 1 : at(j) = at(k) => j = k
      <4> SUFFICES ASSUME NEW j \in 0..middle - 1, NEW k \in 0..middle - 1, j # k PROVE at(j) # at(k)
        OBVIOUS
      <4>1. at(j) \in Int /\ at(k) \in Int /\ (j < k \/ k < j)
        BY <2>1, <2>3
      <4> QED BY <2>4, <4>1
    <3>2. f \in Bijection(0..middle - 1, between)
      BY <3>1 DEF Bijection, Injection, Surjection, IsInjective
    <3> HIDE DEF f, between
    <3>3. ExistsBijection(0..middle - 1, between)
      BY <3>2 DEF ExistsBijection
    <3>4. IsFiniteSet(0..middle - 1) /\ Cardinality(0..middle - 1) = middle
      BY <2>1, FS_Interval
    <3> QED BY <3>3, <3>4, FS_Bijection
  <2>6. between \subseteq head..n - tail - 1
    BY <2>3
  <2> HIDE DEF between
  <2>7. /\ IsFiniteSet(0..head - 1) /\ Cardinality(0..head - 1) = head
        /\ IsFiniteSet(n - tail..n - 1) /\ Cardinality(n - tail..n - 1) = tail
    <3>1. head - 1 \in Int /\ n - tail \in Int /\ n - 1 \in Int
      BY <2>1
    <3>2. IsFiniteSet(0..head - 1) /\ Cardinality(0..head - 1) = head
      <4>1. /\ IsFiniteSet(0..head - 1)
            /\ Cardinality(0..head - 1) = IF 0 > head - 1 THEN 0 ELSE (head - 1) - 0 + 1
        BY <3>1, FS_Interval
      <4> QED BY <2>1, <4>1
    <3>3. IsFiniteSet(n - tail..n - 1) /\ Cardinality(n - tail..n - 1) = tail
      <4> DEFINE a == n - tail   b == n - 1
      <4>1. a \in Int /\ b \in Int /\ (IF a > b THEN 0 ELSE b - a + 1) = tail
        BY <2>1
      <4> HIDE DEF a, b
      <4>2. IsFiniteSet(a..b) /\ Cardinality(a..b) = IF a > b THEN 0 ELSE b - a + 1
        BY <4>1, FS_Interval
      <4>3. IsFiniteSet(a..b) /\ Cardinality(a..b) = tail
        BY <4>1, <4>2
      <4> QED BY <4>3 DEF a, b
    <3> QED BY <3>2, <3>3
  <2> DEFINE front == 0..head - 1   back == n - tail..n - 1
  <2>8. front \cap between = {} /\ (front \cup between) \cap back = {}
    BY <2>1, <2>6
  <2>9. front \cup between \cup back \subseteq 0..n - 1 /\ 0 \in front /\ (cap > 5 => n - 1 \in back)
    BY <2>1, <2>6
  <2>10. Sample(n, cap) = (front \cup between) \cup back
    BY <2>2
  <2> HIDE DEF front, back
  <2>11. IsFiniteSet(front \cup between) /\ Cardinality(front \cup between) = head + middle
    <3>1. Cardinality(front \cap between) = 0
      BY <2>8, FS_EmptySet
    <3>2. IsFiniteSet(front) /\ Cardinality(front) = head
      BY <2>7 DEF front
    <3>3. /\ IsFiniteSet(front \cup between)
          /\ Cardinality(front \cup between)
                = Cardinality(front) + Cardinality(between) - Cardinality(front \cap between)
      BY <2>5, <3>2, FS_Union
    <3>4. head \in Nat /\ middle \in Nat
      BY <2>1
    <3> QED BY <2>5, <3>1, <3>2, <3>3, <3>4
  <2>12. Cardinality((front \cup between) \cup back) = head + middle + tail
    <3>1. Cardinality((front \cup between) \cap back) = 0
      BY <2>8, FS_EmptySet
    <3>2. IsFiniteSet(back) /\ Cardinality(back) = tail
      BY <2>7 DEF back
    <3> QED BY <2>1, <2>11, <3>1, <3>2, FS_Union
  <2> QED BY <1>2, <2>1, <2>9, <2>10, <2>12
<1> QED BY <1>1, <1>2

\* However syncs, deletions and reclusterings meet the building of a plan: no message
\* is planned for twice, what cannot be undone is shown as high risk, and a plan
\* without drift against the Gmail baseline is current (cleanup/domain/builder.rs,
\* classifier.rs, orchestrator/drift.rs); the samples fill (rules/rule_processor.rs).
THEOREM PlanHolds == PlanSpec => []PlanInv
<1>1. SamplesFill
  BY SampleFills DEF SamplesFill
<1>2. PlanInd => PlanInv
  BY <1>1, PlanIsCurrent DEF PlanInd, PlanTypes, PlanInv
<1> QED BY <1>2, PlanInitially, PlanKept, PTL DEF PlanSpec
=============================================================================
