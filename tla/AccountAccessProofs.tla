------------------------- MODULE AccountAccessProofs -------------------------
(***************************************************************************)
(* Proofs about AccountAccess, for all accounts, inputs, keys and failures *)
(* and every number of entries in a list of inputs.                        *)
(***************************************************************************)
EXTENDS AccountAccess, TLAPS

USE AccountsAssumption, AccountBoundAssumption DEF signInVars, pollVars

-----------------------------------------------------------------------------
(* The inductive invariant *)

\* A handler that is at work knows what it works on, and a poll with which id.
HandlersKnow ==
    /\ removal.pc # "idle" => removal.account \in Accounts
    /\ form.pc # "idle" => form.account \in Accounts /\ form.input \in Inputs
    /\ login.pc # "idle" => login.account \in Accounts
    /\ poll.pc # "idle" => poll.account \in Accounts
    /\ poll.pc \in {"secret", "flag", "token"} => poll.id \in Keys

\* While a removal goes on, every user of the account is one that its list did
\* not have, or came later.
SeesUsers ==
    removal.pc = "delete" =>
       \A i \in Inputs : input[i] = removal.account => i \in removal.unlisted

\* A sign-in goes on only with its mark.
HasMark == login.pc = "save" => login.account \in verified

AccountInv ==
    /\ TypeOK /\ HandlersKnow /\ SeesUsers /\ HasMark
    /\ CachedIsVerified /\ DelegatedActsAsUser

\* The variables of the other handlers, for steps of one of them.
RestOfRemoval == <<input, form, login, verified, cache, simulation, poll, changes>>
RestOfForm == <<account, login, verified, cache, simulation, poll, changes>>
RestOfLogin == <<account, input, removal, form, simulation, poll, changes>>
RestOfPoll == <<account, input, removal, form, login, verified, cache, simulation,
                changes>>

-----------------------------------------------------------------------------
LEMMA FaultType ==
    ASSUME TypeOK, Fault \/ UNCHANGED faults
    PROVE  faults' \in 0..MaxFaults
BY DEF TypeOK, Fault

LEMMA InitInv == Init => AccountInv
BY DEF Init, AccountInv, TypeOK, HandlersKnow, SeesUsers, HasMark, CachedIsVerified,
       DelegatedActsAsUser, ForUser, NoRemoval, NoForm, NoLogin, NoPoll

\* Accounts and their removal: the removal and the accounts change.
LEMMA RemovalStep ==
    ASSUME AccountInv, \/ \E a \in Accounts : RemoveAccount(a)
                       \/ Removal
    PROVE  AccountInv'
<1> USE DEF AccountInv
<1>1. faults' \in 0..MaxFaults /\ UNCHANGED RestOfRemoval
    BY FaultType DEF RemoveAccount, Removal, ListInputs, ListFails, DeleteAccount,
                     DeleteFails, RestOfRemoval
<1>2. account' \in [Accounts -> {NoAccount} \union Stanza]
    BY DEF TypeOK, RemoveAccount, Removal, ListInputs, ListFails, DeleteAccount,
           DeleteFails
<1>3. /\ removal' \in [pc : {"idle", "list", "delete"},
                       account : Accounts \union {NoName},
                       unlisted : SUBSET Inputs]
      /\ removal'.pc # "idle" => removal'.account \in Accounts
      /\ SeesUsers'
  <2>1. CASE \E a \in Accounts : RemoveAccount(a)
      BY <2>1 DEF TypeOK, HandlersKnow, SeesUsers, RemoveAccount, NoRemoval
  <2>2. CASE ListInputs
    <3>1. PICK l \in Lists :
            removal' = IF UsedIn(l) # {} THEN NoRemoval ELSE Listed(l)
        BY <2>2 DEF ListInputs
    <3>2. CASE UsedIn(l) # {}
        BY <3>1, <3>2 DEF NoRemoval, SeesUsers
    <3>3. CASE UsedIn(l) = {}
      <4>1. removal' = Listed(l)
          BY <3>1, <3>3
      <4>2. \A i \in Inputs : input[i] = removal.account => i \in Stanzas \ l
        <5>1. removal.account # NoName
            BY <2>2 DEF ListInputs, HandlersKnow
        <5>2. QED
            BY <3>3, <5>1 DEF UsedIn, Stanzas
      <4>3. QED
          BY <2>2, <1>1, <4>1, <4>2
          DEF ListInputs, Listed, TypeOK, HandlersKnow, SeesUsers, RestOfRemoval
    <3>4. QED
        BY <3>2, <3>3
  <2>3. CASE ListFails \/ DeleteAccount \/ DeleteFails
      BY <2>3 DEF SeesUsers, ListFails, DeleteAccount, DeleteFails, NoRemoval
  <2>4. QED
      BY <2>1, <2>2, <2>3 DEF Removal
<1>4. QED
    BY <1>1, <1>2, <1>3 DEF TypeOK, HandlersKnow, HasMark, CachedIsVerified,
                            DelegatedActsAsUser, ForUser, RestOfRemoval

\* The form of an input: the form and the inputs change.
LEMMA FormStep ==
    ASSUME AccountInv, \/ \E i \in Inputs, a \in Accounts : OpenForm(i, a)
                       \/ \E i \in Inputs : RemoveInput(i)
                       \/ Form
    PROVE  AccountInv'
<1> USE DEF AccountInv
<1>1. faults' \in 0..MaxFaults /\ UNCHANGED RestOfForm
    BY FaultType DEF OpenForm, RemoveInput, Form, FormReadId, FormReadSecret,
          FormReadFlag, FormReads, CheckCredentials, CheckUnclear, FormFails,
          StoreInput, RestOfForm
<1>2. input' \in [Inputs -> Accounts \union {NoName}]
    BY DEF TypeOK, HandlersKnow, OpenForm, RemoveInput, Form, FormReadId,
          FormReadSecret, FormReadFlag, FormReads, CheckCredentials, CheckUnclear,
          FormFails, StoreInput
<1> DEFINE FormType ==
      /\ form \in [pc : {"idle", "id", "secret", "flag", "check", "store"},
                   input : Inputs \union {NoName}, new : BOOLEAN,
                   account : Accounts \union {NoName},
                   id : Keys \union {NoKey}, good : BOOLEAN]
      /\ form.pc = "secret" => form.id # NoKey
      /\ form.pc # "idle" => form.account \in Accounts /\ form.input \in Inputs
<1>3. FormType'
  <2>0. FormType
      BY DEF TypeOK, HandlersKnow
  <2>1. CASE \E i \in Inputs, a \in Accounts : OpenForm(i, a)
      BY <2>1 DEF OpenForm, NoForm
  <2>2. CASE form' = NoForm \/ form' = form
    <3>1. CASE form' = NoForm
        BY <3>1 DEF NoForm
    <3>2. CASE form' = form
        BY <2>0, <3>2
    <3>3. QED
        BY <2>2, <3>1, <3>2
  <2>3. CASE /\ form.pc # "idle" /\ Exists(form.account)
             /\ form' = [form EXCEPT !.pc = "secret", !.id = account[form.account].id]
    <3>1. account[form.account] \in Stanza
        BY <2>0, <2>3 DEF Exists, TypeOK
    <3>2. account[form.account].id \in Keys
        BY <3>1 DEF Stanza
    <3>3. QED
        BY <2>0, <2>3, <3>2
  <2>4. CASE /\ form.pc # "idle"
             /\ form' = [form EXCEPT !.pc = "flag",
                                     !.good = (form.id = account[form.account].secret),
                                     !.id = NoKey]
    <3>1. (form.id = account[form.account].secret) \in BOOLEAN
        OBVIOUS
    <3>2. QED
        BY <2>0, <2>4, <3>1
  <2>5. CASE /\ form.pc # "idle"
             /\ \E pc \in {"check", "store"} : form' = [form EXCEPT !.pc = pc]
      BY <2>0, <2>5
  <2>6. QED
      BY <2>1, <2>2, <2>3, <2>4, <2>5 DEF RemoveInput, Form, FormReadId,
          FormReadSecret, FormReadFlag, FormReads, CheckCredentials, CheckUnclear,
          FormFails, StoreInput
<1>4. /\ removal' \in [pc : {"idle", "list", "delete"},
                       account : Accounts \union {NoName},
                       unlisted : SUBSET Inputs]
      /\ removal'.pc # "idle" => removal'.account \in Accounts
      /\ SeesUsers'
  <2>1. CASE StoreInput
    <3>1. form.input \in Inputs
        BY <2>1 DEF StoreInput, HandlersKnow
    <3>2. CASE UNCHANGED <<input, removal>>
        BY <3>2 DEF TypeOK, HandlersKnow, SeesUsers
    <3>3. CASE ~UNCHANGED <<input, removal>>
      <4>1. /\ input' = [input EXCEPT ![form.input] = form.account]
            /\ removal' = IF removal.pc = "delete"
                          THEN [removal EXCEPT !.unlisted = @ \union {form.input}]
                          ELSE removal
          BY <2>1, <3>3 DEF StoreInput
      <4>2. QED
          BY <3>1, <4>1 DEF TypeOK, HandlersKnow, SeesUsers
    <3>4. QED
        BY <3>2, <3>3
  <2>2. CASE \E i \in Inputs : RemoveInput(i)
      BY <2>2 DEF RemoveInput, TypeOK, HandlersKnow, SeesUsers
  <2>3. CASE UNCHANGED <<input, removal>>
      BY <2>3 DEF TypeOK, HandlersKnow, SeesUsers
  <2>4. QED
      BY <2>1, <2>2, <2>3 DEF OpenForm, Form, FormReadId, FormReadSecret,
         FormReadFlag, FormReads, CheckCredentials, CheckUnclear, FormFails
<1>5. QED
    BY <1>1, <1>2, <1>3, <1>4 DEF TypeOK, HandlersKnow, HasMark, CachedIsVerified,
                            DelegatedActsAsUser, ForUser, RestOfForm

\* The sign-in: the marks, the stored tokens and the sign-in change.
LEMMA LoginStep ==
    ASSUME AccountInv, (\E a \in Accounts : SignIn(a) \/ Expire(a)) \/ Login
    PROVE  AccountInv'
<1> USE DEF AccountInv
<1>1. faults' \in 0..MaxFaults /\ UNCHANGED RestOfLogin
    BY FaultType DEF SignIn, Expire, Login, UpdateConf, SaveTokenCache, LoginFails,
                     RestOfLogin
<1>2. /\ login' \in [pc : {"idle", "verify", "save"},
                     account : Accounts \union {NoName}]
      /\ login'.pc # "idle" => login'.account \in Accounts
    BY DEF TypeOK, HandlersKnow, SignIn, Expire, Login, UpdateConf, SaveTokenCache,
           LoginFails, NoLogin
<1>3. verified \subseteq verified' /\ verified' \subseteq Accounts
    BY DEF TypeOK, HandlersKnow, SignIn, Expire, Login, UpdateConf, SaveTokenCache,
           LoginFails
<1>4. HasMark'
    BY DEF TypeOK, HandlersKnow, HasMark, SignIn, Expire, Login, UpdateConf,
           SaveTokenCache, LoginFails, NoLogin
<1>5. /\ cache' \in [Accounts -> {"none", "expired", "other"} \union Keys]
      /\ \A a \in Accounts : cache'[a] # "none" /\ cache[a] = "none" =>
            login.pc = "save" /\ a = login.account
      /\ \A a \in Accounts : cache[a] # "none" =>
            cache'[a] # "none" /\ (cache'[a] = "other" <=> cache[a] = "other")
  <2>1. CASE login.pc = "save" /\ StoreCache
    <3>1. PICK c \in Keys \union {"other"} :
            cache' = [cache EXCEPT ![login.account] = IF @ = "none" THEN c ELSE @]
        BY <2>1 DEF StoreCache
    <3>2. login.account \in Accounts
        BY <2>1 DEF HandlersKnow
    <3>3. QED
        BY <2>1, <3>1, <3>2 DEF TypeOK
  <2>2. CASE \E a \in Accounts : Expire(a)
      BY <2>2 DEF Expire, TypeOK
  <2>3. CASE UNCHANGED cache
      BY <2>3 DEF TypeOK
  <2>4. QED
      BY <2>1, <2>2, <2>3 DEF SignIn, Login, UpdateConf, SaveTokenCache, LoginFails
<1>6. CachedIsVerified'
    BY <1>3, <1>5 DEF CachedIsVerified, HasMark
<1>7. DelegatedActsAsUser'
    BY <1>1, <1>3, <1>5 DEF DelegatedActsAsUser, ForUser, HandlersKnow, RestOfLogin
<1>8. QED
    BY <1>1, <1>2, <1>3, <1>4, <1>5, <1>6, <1>7 DEF TypeOK, HandlersKnow, SeesUsers,
       RestOfLogin

\* A poll that asks for a user gets the token of the one who signed in, that of
\* the application when the cache names no user, or none.
LEMMA BearersKnown ==
    ASSUME AccountInv, NEW as \in Bearers
    PROVE  /\ as \in {"nobody", "app", "user"}
           /\ ForUser /\ poll.pc = "token" /\ as # "nobody" =>
                /\ cache[poll.account] # "none"
                /\ as = "app" <=> cache[poll.account] = "other"
<1>1. poll.pc = "token" => poll.id \in Keys
    BY DEF AccountInv, HandlersKnow
<1>2. QED
    BY <1>1 DEF Bearers, AppBearer

\* The poll: only the poll changes.
LEMMA PollingStep ==
    ASSUME AccountInv, PollStep \/ PollFails
    PROVE  AccountInv'
<1> USE DEF AccountInv
<1>1. faults' \in 0..MaxFaults /\ UNCHANGED RestOfPoll
    BY FaultType DEF PollStep, PollFails, StartPoll, GetUsername, GetPassword,
          GetDelegated, PollReads, GetAccessToken, Collect, SetPoll, RestOfPoll
<1> DEFINE PollType ==
      /\ poll \in [pc : {"idle", "id", "secret", "flag", "token", "collect"},
                   account : Accounts \union {NoName},
                   id : Keys \union {NoKey}, good : BOOLEAN,
                   delegated : BOOLEAN, as : {"nobody", "app", "user"}]
      /\ poll.pc # "idle" => poll.account \in Accounts
      /\ poll.pc \in {"secret", "flag", "token"} => poll.id \in Keys
<1>2. PollType' /\ DelegatedActsAsUser'
  <2> USE DEF DelegatedActsAsUser, ForUser
  <2>0. PollType
      BY DEF TypeOK, HandlersKnow
  <2>1. CASE StartPoll
    <3>1. input[Polled] \in Accounts
        BY <2>1 DEF StartPoll, TypeOK
    <3>2. QED
        BY <2>1, <3>1 DEF StartPoll, SetPoll, NoPoll
  <2>2. CASE poll' = NoPoll
      BY <2>2 DEF NoPoll
  <2>3. CASE GetUsername /\ poll' # NoPoll
    <3>1. account[poll.account] \in Stanza
        BY <2>0, <2>3 DEF GetUsername, PollReads, SetPoll, Exists, TypeOK
    <3>2. account[poll.account].id \in Keys
        BY <3>1 DEF Stanza
    <3>3. QED
        BY <2>0, <2>3, <3>2 DEF GetUsername, PollReads, SetPoll
  <2>4. CASE GetPassword /\ poll' # NoPoll
    <3>1. (poll.id = account[poll.account].secret) \in BOOLEAN
        OBVIOUS
    <3>2. QED
        BY <2>0, <2>4, <3>1 DEF GetPassword, PollReads, SetPoll
  <2>5. CASE GetDelegated /\ poll' # NoPoll
    <3>1. account[poll.account] \in Stanza
        BY <2>0, <2>5 DEF GetDelegated, PollReads, SetPoll, Exists, TypeOK
    <3>2. account[poll.account].delegated \in BOOLEAN
        BY <3>1 DEF Stanza
    <3>3. QED
        BY <2>0, <2>5, <3>2 DEF GetDelegated, PollReads, SetPoll
  <2>6. CASE GetAccessToken /\ poll' # NoPoll
    <3>1. PICK as \in Bearers : as # "nobody" /\ poll' = Collecting(as)
        BY <2>6 DEF GetAccessToken, SetPoll
    <3>2. poll.pc = "token" /\ poll.account \in Accounts
        BY <2>6 DEF GetAccessToken, HandlersKnow
    <3>3. PollType'
        BY <2>0, <3>1, <3>2, BearersKnown DEF Collecting
    <3>4. /\ poll'.account = poll.account /\ poll'.delegated = poll.delegated
          /\ poll'.as = as
        BY <2>0, <3>1 DEF Collecting
    <3>5. UNCHANGED <<verified, cache, simulation>>
        BY <1>1 DEF RestOfPoll
    <3>6. ForUser => /\ cache[poll.account] # "none"
                     /\ as = "app" <=> cache[poll.account] = "other"
        BY <3>1, <3>2, BearersKnown
    <3>7. QED
        BY <3>2, <3>3, <3>4, <3>5, <3>6 DEF CachedIsVerified
  <2>7. QED
      BY <2>1, <2>2, <2>3, <2>4, <2>5, <2>6
      DEF PollStep, PollFails, Collect, SetPoll
<1>3. QED
    BY <1>1, <1>2 DEF TypeOK, HandlersKnow, SeesUsers, HasMark, CachedIsVerified,
                    RestOfPoll

LEMMA SaveStep ==
    ASSUME AccountInv, NEW a \in Accounts, SaveAccount(a)
    PROVE  AccountInv'
BY DEF AccountInv, SaveAccount, TypeOK, HandlersKnow, SeesUsers, HasMark,
       CachedIsVerified,
       DelegatedActsAsUser, ForUser

LEMMA NextInv == AccountInv /\ [Next]_vars => AccountInv'
<1> SUFFICES ASSUME AccountInv, [Next]_vars PROVE AccountInv'
    OBVIOUS
<1>1. CASE UNCHANGED vars
    BY <1>1 DEF vars, AccountInv, TypeOK, HandlersKnow, SeesUsers, HasMark,
                CachedIsVerified,
                DelegatedActsAsUser, ForUser
<1>2. CASE Next
    BY <1>2, SaveStep, RemovalStep, FormStep, LoginStep, PollingStep DEF Next
<1>3. QED
    BY <1>1, <1>2

LEMMA AlwaysAccountInv == Spec => []AccountInv
BY InitInv, NextInv, PTL DEF Spec

-----------------------------------------------------------------------------
(* Theorems *)

\* Every variable has the values the code can give it (account_validation,
\* get_account_details and the handlers of the add-on).
THEOREM TypeCorrect == Spec => []TypeOK
<1>1. AccountInv => TypeOK
    BY DEF AccountInv
<1>2. QED
    BY <1>1, AlwaysAccountInv, PTL

\* A sign-in whose tokens are stored is marked as verified, whatever fails in
\* the handler of the sign-in (updateConf, save_token_cache).
THEOREM TokensAreVerified == Spec => []CachedIsVerified
<1>1. AccountInv => CachedIsVerified
    BY DEF AccountInv
<1>2. QED
    BY <1>1, AlwaysAccountInv, PTL

\* A poll that asks for a user's token collects only when a verified sign-in is
\* stored, and as its user unless the sign-in names none, however account and
\* sign-in change meanwhile (get_account_details, get_access_token).
THEOREM ActsAsUser == Spec => []DelegatedActsAsUser
<1>1. AccountInv => DelegatedActsAsUser
    BY DEF AccountInv
<1>2. QED
    BY <1>1, AlwaysAccountInv, PTL

\* An account that goes while an input names it was out of the sight of the
\* handler: the list was cut before that input, or it was stored afterwards
\* (handleRemove), for every length of the list and every failure.
THEOREM UsedIsSpared == Spec => RemovalSparesUsed
<1> DEFINE Spares ==
      \A a \in Accounts, i \in Inputs :
         Exists(a) /\ account'[a] = NoAccount /\ input[i] = a =>
            i \in removal.unlisted
<1>1. AccountInv /\ Next => Spares
  <2> SUFFICES ASSUME AccountInv, Next, NEW a \in Accounts, NEW i \in Inputs,
                      Exists(a), account'[a] = NoAccount, input[i] = a
               PROVE  i \in removal.unlisted
      OBVIOUS
  <2>0. account \in [Accounts -> {NoAccount} \union Stanza] /\ NoAccount \notin Stanza
      BY DEF AccountInv, TypeOK, NoAccount, Stanza
  <2>1. CASE \E b \in Accounts : SaveAccount(b)
      BY <2>0, <2>1 DEF SaveAccount, Exists
  <2>2. CASE DeleteAccount \/ DeleteFails
    <3>1. removal.pc = "delete" /\ removal.account = a
        BY <2>0, <2>2 DEF DeleteAccount, DeleteFails, Exists
    <3>2. QED
        BY <3>1 DEF AccountInv, SeesUsers
  <2>3. CASE UNCHANGED account
      BY <2>3 DEF Exists
  <2>4. Next => \/ \E b \in Accounts : SaveAccount(b)
                \/ DeleteAccount \/ DeleteFails
                \/ UNCHANGED account
      BY DEF Next, RemoveAccount, SignIn, Expire, OpenForm, RemoveInput, PollStep,
             PollFails, StartPoll, GetUsername, GetPassword, GetDelegated, PollReads,
             GetAccessToken, Collect, SetPoll, Removal, ListInputs, ListFails, Form,
             FormReadId, FormReadSecret, FormReadFlag, FormReads, CheckCredentials,
             CheckUnclear, FormFails, StoreInput, Login, UpdateConf, SaveTokenCache,
             LoginFails
  <2>5. QED
      BY <2>1, <2>2, <2>3, <2>4
<1>2. AccountInv /\ [Next]_vars => [Spares]_vars
    BY <1>1
<1>3. QED
    BY <1>2, AlwaysAccountInv, PTL DEF Spec, RemovalSparesUsed
=============================================================================
