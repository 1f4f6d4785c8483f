---------------------------- MODULE AccountAccess ----------------------------
(***************************************************************************)
(* Accounts, and what depends on them: the handlers that create, change    *)
(* and remove them, the form of an input, which validates the account it   *)
(* names, the sign-in of a user for delegated permissions, and the polls,  *)
(* which get a token with the account of their input.                      *)
(*                                                                         *)
(* A reader of an account fetches its stanza anew for each of its fields.  *)
(***************************************************************************)
EXTENDS Naturals, FiniteSets

CONSTANTS
    Accounts,    \* names of accounts, also of the sign-ins they refer to
    Inputs,      \* names of inputs
    Polled,      \* the input whose polls are followed: polls share no state
    OtherApps,   \* stanzas of other apps, which a list of inputs has as well
    Keys,        \* client ids, and the secrets that belong to them
    ListLimit,   \* entries splunkd returns when a request names no count
    NoKey, NoName,
    MaxChanges,  \* bound: changes of accounts
    MaxFaults    \* bound: failures of calls

ASSUME AccountsAssumption ==
    /\ IsFiniteSet(Inputs) /\ IsFiniteSet(OtherApps) /\ ListLimit \in Nat
    /\ Polled \in Inputs /\ OtherApps \intersect Inputs = {}
    /\ NoName \notin Accounts \union Inputs /\ NoKey \notin Keys
    /\ {"none", "expired", "other"} \intersect Keys = {}
ASSUME AccountBoundAssumption == MaxChanges \in Nat /\ MaxFaults \in Nat

VARIABLES
    account,   \* the stanzas of accounts
    input,     \* azure_app_account of each input, NoName if there is none
    removal,   \* the handler of the removal of an account
    form,      \* the handler of the creation or change of an input
    login,     \* the handler at the end of a sign-in
    verified,  \* sign-ins with verification_status True
    cache,     \* the stored token caches: "none", the client id one has good
               \* tokens for, "expired", or "other": it names no user where
               \* the inputs ask
    simulation, \* Polled is of simulations: it asks for a token without the flag
    poll,      \* the poll of Polled
    changes, faults

signInVars == <<login, verified, cache>>
pollVars == <<simulation, poll>>
vars == <<account, input, removal, form, signInVars, pollVars, changes, faults>>

\* A secret is accepted for the client id it belongs to.
Stanza == [id : Keys, secret : Keys, delegated : BOOLEAN]
NoAccount == [id |-> NoKey, secret |-> NoKey, delegated |-> FALSE]
Exists(a) == account[a] # NoAccount

NoRemoval == [pc |-> "idle", account |-> NoName, unlisted |-> {}]
NoForm == [pc |-> "idle", input |-> NoName, new |-> FALSE, account |-> NoName,
           id |-> NoKey, good |-> FALSE]
NoLogin == [pc |-> "idle", account |-> NoName]
NoPoll == [pc |-> "idle", account |-> NoName, id |-> NoKey, good |-> FALSE,
           delegated |-> FALSE, as |-> "nobody"]

Init ==
    /\ account = [a \in Accounts |-> NoAccount]
    /\ input = [i \in Inputs |-> NoName]
    /\ removal = NoRemoval /\ form = NoForm /\ login = NoLogin
    /\ verified = {} /\ cache = [a \in Accounts |-> "none"]
    /\ simulation \in BOOLEAN /\ poll = NoPoll
    /\ changes = 0 /\ faults = 0

Fault == faults < MaxFaults /\ faults' = faults + 1

-----------------------------------------------------------------------------
(* The account: created and changed by the generic handlers.               *)
SaveAccount(a) ==
    /\ changes < MaxChanges /\ changes' = changes + 1
    /\ \E s \in Stanza : account' = [account EXCEPT ![a] = s]
    /\ UNCHANGED <<input, removal, form, signInVars, pollVars, faults>>

\* The removal looks for an input that uses the account.
RemoveAccount(a) ==
    /\ removal.pc = "idle" /\ Exists(a)
    /\ removal' = [NoRemoval EXCEPT !.pc = "list", !.account = a]
    /\ UNCHANGED <<account, input, form, signInVars, pollVars, changes, faults>>

\* What a list of the inputs has: all stanzas, or the first ListLimit.
Stanzas == OtherApps \union {i \in Inputs : input[i] # NoName}
Lists == IF Cardinality(Stanzas) <= ListLimit THEN {Stanzas}
         ELSE {l \in SUBSET Stanzas : Cardinality(l) = ListLimit}

\* The users of the account in it; a stanza of another app is passed over.
UsedIn(l) == {i \in l \ OtherApps : input[i] = removal.account}

\* unlisted is a history: the inputs beyond the list, and those stored later.
Listed(l) == [removal EXCEPT !.pc = "delete",
                             !.unlisted = Inputs \intersect (Stanzas \ l)]

ListInputs ==
    /\ removal.pc = "list"
    /\ \E l \in Lists :
        removal' = IF UsedIn(l) # {} THEN NoRemoval ELSE Listed(l)
    /\ UNCHANGED <<account, input, form, signInVars, pollVars, changes, faults>>

\* Mutant: a failure is logged, and the account removed.
ListFailsOpen ==
    /\ removal.pc = "list" /\ Fault
    /\ removal' = Listed(Stanzas)
    /\ UNCHANGED <<account, input, form, signInVars, pollVars, changes>>

\* Every exception ends in a refusal: that the account is used, or, before any
\* input was seen, that input_name has no value.
ListFails ==
    /\ removal.pc = "list" /\ Fault
    /\ removal' = NoRemoval
    /\ UNCHANGED <<account, input, form, signInVars, pollVars, changes>>

DeleteAccount ==
    /\ removal.pc = "delete"
    /\ account' = [account EXCEPT ![removal.account] = NoAccount]
    /\ removal' = NoRemoval
    /\ UNCHANGED <<input, form, signInVars, pollVars, changes, faults>>

DeleteFails ==
    /\ removal.pc = "delete" /\ Fault
    /\ \/ UNCHANGED account
       \/ account' = [account EXCEPT ![removal.account] = NoAccount]
    /\ removal' = NoRemoval
    /\ UNCHANGED <<input, form, signInVars, pollVars, changes>>

-----------------------------------------------------------------------------
(* The form of an input.                                                   *)
OpenForm(i, a) ==
    /\ form.pc = "idle"
    /\ form' = [NoForm EXCEPT !.pc = "id", !.input = i, !.new = (input[i] = NoName),
                              !.account = a]
    /\ UNCHANGED <<account, input, removal, signInVars, pollVars, changes,
                   faults>>

\* Each field is read from the stanza as it is then; a stanza that is gone
\* makes the handler answer 400.
FormReads(pc, next) ==
    /\ form.pc = pc
    /\ form' = IF Exists(form.account) THEN next ELSE NoForm
    /\ UNCHANGED <<account, input, removal, signInVars, pollVars, changes,
                   faults>>
\* Mutant: the id is left to be read with the secret.
FormReadNothing ==
    FormReads("id", [form EXCEPT !.pc = "secret"])
FormReadId ==
    FormReads("id", [form EXCEPT !.pc = "secret", !.id = account[form.account].id])
FormReadSecret ==
    FormReads("secret", [form EXCEPT !.pc = "flag",
                                     !.good = (form.id = account[form.account].secret),
                                     !.id = NoKey])
FormReadFlag ==
    FormReads("flag", [form EXCEPT !.pc = IF account[form.account].delegated
                                          THEN "store" ELSE "check"])

\* An answer with error_codes is a refusal.
CheckCredentials ==
    /\ form.pc = "check"
    /\ form' = IF form.good THEN [form EXCEPT !.pc = "store"] ELSE NoForm
    /\ UNCHANGED <<account, input, removal, signInVars, pollVars, changes,
                   faults>>

\* Any other answer is taken for success, also one to bad credentials.
CheckUnclear ==
    /\ form.pc = "check" /\ Fault
    /\ form' = [form EXCEPT !.pc = "store"]
    /\ UNCHANGED <<account, input, removal, signInVars, pollVars, changes>>

FormFails ==
    /\ form.pc # "idle" /\ Fault
    /\ form' = NoForm
    /\ UNCHANGED <<account, input, removal, signInVars, pollVars, changes>>

\* A new input must not exist, one that is changed must.
StoreInput ==
    /\ form.pc = "store"
    /\ \/ /\ form.new = (input[form.input] = NoName)
          /\ input' = [input EXCEPT ![form.input] = form.account]
          /\ removal' = IF removal.pc = "delete"
                        THEN [removal EXCEPT !.unlisted = @ \union {form.input}]
                        ELSE removal
       \/ /\ form.new # (input[form.input] = NoName)
          /\ UNCHANGED <<input, removal>>
    /\ form' = NoForm
    /\ UNCHANGED <<account, signInVars, pollVars, changes, faults>>

RemoveInput(i) ==
    /\ input[i] # NoName
    /\ input' = [input EXCEPT ![i] = NoName]
    /\ UNCHANGED <<account, removal, form, signInVars, pollVars, changes,
                   faults>>

-----------------------------------------------------------------------------
(* The sign-in.  The user has signed in at Microsoft, which sends a code.  *)
SignIn(a) ==
    /\ login.pc = "idle"
    /\ login' = [pc |-> "verify", account |-> a]
    /\ UNCHANGED <<account, input, removal, form, verified, cache, pollVars,
                   changes, faults>>

UpdateConf ==
    /\ login.pc = "verify"
    /\ verified' = verified \union {login.account}
    /\ login' = [login EXCEPT !.pc = "save"]
    /\ UNCHANGED <<account, input, removal, form, cache, pollVars, changes,
                   faults>>

\* The cache is created; when there is one, the request fails.  Its tokens are
\* for the client id that was typed in for the sign-in; one for an environment
\* of another cloud than that of the inputs names no user to them.
StoreCache ==
    \E c \in Keys \union {"other"} :
       cache' = [cache EXCEPT ![login.account] = IF @ = "none" THEN c ELSE @]

SaveTokenCache ==
    /\ login.pc = "save"
    /\ StoreCache
    /\ login' = NoLogin
    /\ UNCHANGED <<account, input, removal, form, verified, pollVars, changes,
                   faults>>

\* Mutant: a failed update of the conf does not keep the cache from being saved.
LoginGoesOn ==
    /\ login.pc # "idle" /\ Fault
    /\ login' = IF login.pc = "verify" THEN [login EXCEPT !.pc = "save"] ELSE NoLogin
    /\ UNCHANGED <<account, input, removal, form, verified, cache, pollVars,
                   changes>>

LoginFails ==
    /\ login.pc # "idle" /\ Fault
    /\ login' = NoLogin
    /\ \/ UNCHANGED <<verified, cache>>
       \/ login.pc = "verify" /\ verified' = verified \union {login.account}
            /\ UNCHANGED cache
       \/ login.pc = "save" /\ StoreCache /\ UNCHANGED verified
    /\ UNCHANGED <<account, input, removal, form, pollVars, changes>>

\* Tokens are renewed in memory only, so the stored ones expire.
Expire(a) ==
    /\ cache[a] \in Keys
    /\ cache' = [cache EXCEPT ![a] = "expired"]
    /\ UNCHANGED <<account, input, removal, form, login, verified, pollVars,
                   changes, faults>>

-----------------------------------------------------------------------------
(* The polls of one input.                                                 *)
SetPoll(p) ==
    /\ poll' = p
    /\ UNCHANGED <<account, input, removal, form, signInVars, simulation,
                   changes>>

StartPoll ==
    /\ poll.pc = "idle" /\ input[Polled] # NoName
    /\ SetPoll([NoPoll EXCEPT !.pc = "id", !.account = input[Polled]])
    /\ UNCHANGED faults

\* get_account_details: a stanza that is gone ends the process.
PollReads(pc, next) ==
    /\ poll.pc = pc
    /\ SetPoll(IF Exists(poll.account) THEN next ELSE NoPoll)
    /\ UNCHANGED faults
GetUsername ==
    PollReads("id", [poll EXCEPT !.pc = "secret", !.id = account[poll.account].id])
GetPassword ==
    PollReads("secret", [poll EXCEPT !.pc = "flag",
                                     !.good = (poll.id = account[poll.account].secret)])
GetDelegated ==
    PollReads("flag", [poll EXCEPT !.pc = "token",
                                   !.delegated = account[poll.account].delegated])

\* The token the application gets with its own credentials.
AppBearer == IF poll.good THEN "app" ELSE "nobody"

\* The poll asks for the token of the user who signed in.
ForUser == poll.delegated /\ ~simulation

\* Mutant of Bearers: without a cache, the application's token is taken.
BearersOrApp ==
    IF ~ForUser \/ cache[poll.account] \in {"none", "other"} THEN {AppBearer}
    ELSE IF cache[poll.account] # poll.id THEN {"nobody"}
    ELSE IF poll.good THEN {"user"} ELSE {"user", "nobody"}

\* Whose token the poll may get.  For a user: without a cache, get_secrets
\* raises; one that names no user is passed over; one without good tokens
\* for the client id gives None.  The secret is needed to renew a token only.
Bearers ==
    IF ~ForUser \/ cache[poll.account] = "other" THEN {AppBearer}
    ELSE IF cache[poll.account] # poll.id THEN {"nobody"}
    ELSE IF poll.good THEN {"user"} ELSE {"user", "nobody"}

Collecting(as) ==
    [poll EXCEPT !.pc = "collect", !.as = as, !.id = NoKey, !.good = FALSE]

\* Mutant: without a token, the poll asks again with the fields it has.
GetAccessTokenAgain ==
    /\ poll.pc = "token"
    /\ \E as \in Bearers \ {"nobody"} : SetPoll(Collecting(as))
    /\ UNCHANGED faults

GetAccessToken ==
    /\ poll.pc = "token"
    /\ \E as \in Bearers :
          SetPoll(IF as = "nobody" THEN NoPoll ELSE Collecting(as))
    /\ UNCHANGED faults

Collect ==
    /\ poll.pc = "collect"
    /\ SetPoll(NoPoll)
    /\ UNCHANGED faults

PollFails ==
    /\ poll.pc # "idle" /\ Fault
    /\ SetPoll(NoPoll)

PollStep ==
    \/ StartPoll \/ GetUsername \/ GetPassword \/ GetDelegated
    \/ GetAccessToken \/ Collect

-----------------------------------------------------------------------------
Removal == ListInputs \/ ListFails \/ DeleteAccount \/ DeleteFails
Form == \/ FormReadId \/ FormReadSecret \/ FormReadFlag
        \/ CheckCredentials \/ CheckUnclear \/ FormFails \/ StoreInput
Login == UpdateConf \/ SaveTokenCache \/ LoginFails

Next ==
    \/ \E a \in Accounts : SaveAccount(a) \/ RemoveAccount(a) \/ SignIn(a) \/ Expire(a)
    \/ \E i \in Inputs, a \in Accounts : OpenForm(i, a)
    \/ \E i \in Inputs : RemoveInput(i)
    \/ PollStep \/ PollFails \/ Removal \/ Form \/ Login

Spec == Init /\ [][Next]_vars

\* Splunk starts the polls every interval; the users do as they like.
FairSpec == Spec /\ WF_vars(PollStep)

-----------------------------------------------------------------------------
(* Each variable has the values the code can give it; a form has read all  *)
(* it sends, and stores an input under a name.                             *)
TypeOK ==
    /\ account \in [Accounts -> {NoAccount} \union Stanza]
    /\ input \in [Inputs -> Accounts \union {NoName}]
    /\ removal \in [pc : {"idle", "list", "delete"},
                    account : Accounts \union {NoName}, unlisted : SUBSET Inputs]
    /\ form \in [pc : {"idle", "id", "secret", "flag", "check", "store"},
                 input : Inputs \union {NoName}, new : BOOLEAN,
                 account : Accounts \union {NoName},
                 id : Keys \union {NoKey}, good : BOOLEAN]
    /\ form.pc = "secret" => form.id # NoKey
    /\ login \in [pc : {"idle", "verify", "save"},
                  account : Accounts \union {NoName}]
    /\ verified \subseteq Accounts
    /\ cache \in [Accounts -> {"none", "expired", "other"} \union Keys]
    /\ simulation \in BOOLEAN
    /\ poll \in [pc : {"idle", "id", "secret", "flag", "token", "collect"},
                 account : Accounts \union {NoName},
                 id : Keys \union {NoKey}, good : BOOLEAN,
                 delegated : BOOLEAN, as : {"nobody", "app", "user"}]
    /\ changes \in 0..MaxChanges /\ faults \in 0..MaxFaults

\* "Cannot delete the account as it is already been used": when an account goes
\* while an input names it, that input was beyond the end of the list of the
\* handler, or was stored after that; no other order of the two handlers and no
\* failure takes the account of an input (handleRemove).
RemovalSparesUsed ==
    [][\A a \in Accounts, i \in Inputs :
         Exists(a) /\ account'[a] = NoAccount /\ input[i] = a =>
            i \in removal.unlisted]_vars

\* A sign-in whose tokens are stored is marked as verified, whatever failed
\* (updateConf comes before save_token_cache).
CachedIsVerified == \A a \in Accounts : cache[a] # "none" => a \in verified

\* An input of an account with delegated permissions collects only once a user
\* has signed in for it and the sign-in is marked and stored, and collects as
\* that user; as the application only if the stored sign-in names no user
\* where the input asks (get_access_token falls through), however the account
\* and the sign-in change while the poll is under way.
DelegatedActsAsUser ==
    poll.pc = "collect" /\ ForUser =>
       /\ poll.account \in verified /\ cache[poll.account] # "none"
       /\ poll.as = "app" <=> cache[poll.account] = "other"

\* Once its account is in order and stays so, an input collects again and again,
\* whatever the polls before have met.
InOrder ==
    /\ input[Polled] # NoName
    /\ LET s == account[input[Polled]]
       IN  /\ s # NoAccount /\ s.id = s.secret
           /\ s.delegated /\ ~simulation =>
                 cache[input[Polled]] \in {s.id, "other"}
PollRecovers == <>[]InOrder => []<>(poll.pc = "collect")
=============================================================================
