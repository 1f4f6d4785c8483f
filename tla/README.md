# TLA+ models of the Splunk Add-on for Microsoft Security

This directory is a verification project for the add-on: TLA+ modules that
model what its inputs, REST handlers and alert actions do with the state they
share, TLC configurations that check small instances, and TLAPS proofs for
every instance. Paths below are relative to the repository (`src/`).

## 1. The system

The add-on is a set of Python programs that Splunk starts, and a configuration
app. Its own code is `bin/`, `bin/Splunk_TA_MS_Security/` and a few files of
`lib/`; the rest of `lib/` is vendored. Some vendored code carries the
add-on's behaviour and is modelled with it: the event processor of
`azure-eventhub`, `KVStoreCheckpointer` and `CredentialManager` of `solnlib`, the REST
handlers and `ModularAlert` of `splunktaucclib`.

| Part | State it keeps | Operations | Interacts with |
|---|---|---|---|
| Event hub input (`microsoft_defender_event_hub.py`, `eventhub_helper.py`, `azure/eventhub/_eventprocessor`) | one KV store document per input: owner, etag, time and offset of each partition; in memory: consumers, owned partitions | start, balance and claim partitions, receive, write events, update checkpoint, close and release, stop | two threads of one process; the KV store; the hub; removal of the input |
| Poll inputs (alerts, incidents, machines, simulations) | one KV store checkpoint per input: the newest timestamp seen | read start date, query pages, write events, store checkpoint | KV store; Graph and Defender APIs; removal of the input |
| Advanced hunting input | none | query, write events | API |
| Checkpoint helpers (`ms_security_utils.py`) | the default start date they persist | `get_start_date`, `checkpoint_handler`, `delete_checkpoint` | KV store |
| REST handlers of inputs and accounts (`bin/*_rh_*.py`) | the stanzas of the conf files | create, edit, remove; validations; removal of checkpoints | the running inputs |
| Account validation (`Splunk_TA_MS_Security_account_validation.py`) | - | read the account of an input, ask for a token with it, classify the refusal | Microsoft login |
| Delegated authentication (`get_delegated_*.py`) | token cache and verification flag in the conf files | login URL, code for token | inputs and alert actions that use the account |
| Alert actions (update incident, advanced hunting) | the list of events and responses of one run | one API call per search result, write the answers in files | API, the spool directory of Splunk |
| Secrets of accounts and of the proxy (`solnlib/credentials.py`, `splunktaucclib/rest_handler`, `ms_security_encrypt_creds.py`) | the field of a stanza, `******` once it is encrypted; the entries of storage/passwords that hold its value in pieces | list, get, create, update and delete a stanza; encrypt what is found in plain text | splunkd, whose calls are separate; each other; the inputs that read the value |
| URL tables, checks of single form fields | - | pure functions | - |

### What is hard

* **Two threads and one document.** The load balancer claims partitions while
  the worker stores offsets and releases partitions. Each reads the whole
  document and writes it back, with no test of what it replaces.
* **Death between two steps.** A process can be killed after it has written
  events and before their offset is stored, in the middle of a claim, or while it
  holds partitions that nobody may take before a timeout of 300 seconds.
* **Errors of the store.** Each of its calls may raise, also after the
  document was stored; what follows depends on the thread and the place.
* **Stop during a cycle.** `close()` sets flags that the threads test at one
  point of their loops only.
* **Poll and removal.** An input that is removed while it polls stores its
  checkpoint again after it was deleted.
* **Fields read one by one.** A reader of an account fetches the stanza anew for each
  field, so it may combine the id of one version with the secret of another.
* **Rows with state.** An alert action keeps values, tokens, ids and events from one
  search result to the next, and any of its rows may fail.
* **A secret in pieces.** A value above 255 characters is several entries, each created,
  updated and deleted by a call of its own, with no lock; the stanza that goes with them is
  changed by yet another call. Requests are served in parallel and may fail at each of these.
* **Pages and timestamps.** The checkpoint of a poll is the newest timestamp
  of what was received, and the filter of the next query is strict.

### What makes each part correct

* Event hub input: no offset is stored past an event that was not written to
  Splunk (at least once, without a gap); everything is written in the end;
  a partition is read by the one the store names, again, after any disturbance that
  leaves the balancer alive;
  one event that cannot be handled stops only its partition.
* Poll inputs: every item the service reports is written, or will be asked for again;
  the checkpoint never goes back; a removed input leaves no checkpoint.
* Accounts: an account that an input uses is removed only if the handler could not see that
  input; a poll recovers from whatever it met while the account changed.
* Delegated authentication: a sign-in with stored tokens is marked as verified; an input
  that asks for the token of a user collects with no other, unless the stored sign-in is of
  another cloud.
* Alert actions: a request uses the values of its own row; an event carries the ids of
  the row it was made for; what Microsoft has answered is reported, once in each report, and
  in the index its row names.
* Secrets: inputs are served what the administrator last saved; what a deleted account leaves is
  never served; reading a stanza leaves nothing in plain text.

## 2. Modules

| Module | What it is |
|---|---|
| `OwnershipBalance` | which partitions a processor asks for (`_balance_ownership`) |
| `OwnershipBalanceProofs` | TLAPS proofs about it |
| `EventHubDelivery` | abstract: delivery at least once, without a gap |
| `EventHubConsumer` | the event hub input: process, load balancer, worker, KV store document |
| `EventHubConsumerProofs` | TLAPS proofs about it |
| `PollInput` | one poll input: the service, the poll, its checkpoint, removal and creation |
| `PollInputProofs` | TLAPS proofs about it |
| `AccountAccess` | accounts: removal, the form of an input, sign-in, what a poll reads |
| `AccountAccessProofs` | TLAPS proofs about it |
| `AlertActions` | the two alert actions |
| `AlertActionsProofs` | TLAPS proofs about it |
| `SafeRegister` | abstract: a store that its writers change in several steps |
| `CredentialManager` | the entries of one secret and the calls that change them |
| `CredentialManagerProofs` | TLAPS proofs about it, also that it is a `SafeRegister` |
| `StoredSecrets` | the REST requests on a stanza with a secret, on top of `CredentialManager` |
| `StoredSecretsProofs` | TLAPS proofs about it: types, and how it uses `CredentialManager` |
| `SavedSecretsProofs` | TLAPS proofs about it: what is served, and what a read leaves |
| `MCEventHubConsumer`, `MCPollInput`, `MCAccountAccess`, `MCAlertActions`, `MCStoredSecrets` | the TLC instances |

### EventHubConsumer

State and code:

| Variable | Code |
|---|---|
| `doc` | the record list under `event_hub_lastUpdate_<name>`: `owner_id`, `etag`, `last_modified_time` (as the flag `fresh`: younger than the ownership timeout), `offset` |
| `ingested` | history of `EventWriter.write_event` per partition |
| `status` | life of a process: created, store initialised, running, `_running` cleared, ended |
| `lb` | where the thread `_load_balancing` is, with `newly_claimed_pids`, `to_cancel_pids` and the checkpoints it has read |
| `wk` | where the worker (`start`) is, the batch it handles, the document it has read, and whether it holds `_lock` |
| `claim` | the call of `KVCheckpointStore.claim_ownership` each thread is in: partitions left, their etags, partitions won, the document read |
| `consumers`, `cancelled`, `pos` | `_consumers`, the `stop` flag of each, and its position |
| `owned`, `ownTag` | `OwnershipManager.owned_partitions`: those still owned by self and young, and their etags |

Every call of the KV store is a step of its own, so a step of any other thread
can come between a read and the write that depends on it. `Claim*` is
`claim_ownership`, used by both threads; `LB*` is the balancer, `Wk*` the worker.
`WriteFails` leaves open whether the store has taken the document. An etag is a
number; a new one is any number that no thread and no document holds, which is
what a UUID is. In its first cycle the balancer asks the hub for the partition ids (`LBIds`) and
lists the owners then (`AtList`); an error of the hub there, or of the store in any
cycle, ends the balancer (`LBFails`). `Expire` is the passing of 300 seconds: it
happens only to claims that no running balancer renews, and to all copies of such a claim at
once (`Aged`). `StartResized` is a start that finds another number of partitions than
the document has: that is deleted, with its offsets, before a new one is stored.

`BalanceIsFair`, `Settled` and `SharedOut` of `OwnershipBalance` say what a decision of the balancer has to
keep to. `MCEventHubConsumer` evaluates them, as the assumption `BalanceChecked`, for every list of up to four
partitions and three owners; section 4 has the theorems for all lists.

Abstractions: events are the numbers `1..LastOffset` of each partition; a batch is a
range of them; the choice of event categories, the JSON of records and the
statistics are left out. Each incarnation of the process is an element of `Procs`, because
its owner id is a new UUID. `Partitions` are those the hub keeps when it is scaled.

### PollInput

| Variable | Code |
|---|---|
| `ckpt` | the KV store checkpoint of the input |
| `stanza`, `start`, `life` | its stanza in `inputs.conf`, the `start_date` of it, and how often it was created; a `stub` is what the stored default date leaves of a removed stanza |
| `poll` | where `stream_events` is, with its start date, the date of the query, the page, what is left of it, and the latest date so far |
| `rm` | where the removal is: `delete_checkpoint` reads, deletes; then the stanza goes |
| `item` | the service: when each item was last updated |
| `written`, `dropped`, `since`, `raced` | histories: versions written, versions on pages that were thrown away, the first date asked from, whether a poll ran during a removal |

The four types of input are one module: they differ in the order of token and start date
(`TokenFirst`), in the filter (`Fresh`), in items without a date (`RaiseOnItem`) and in the
rest not at all. A page is any `PageSize` of the items that match. `Formatted` is
`strftime` with its loss of the fraction, and `TextLater` the comparison of dates as text:
time is counted in half seconds so that both can show. A failure may leave the store with
or without the new value (`PutFailsLate`, `PersistFailsLate`); `PollFails` is any other
exception and the death of the process.

Assumed of the service: no two updates have the same date, and an update is visible at
once. Assumed of Splunk: one poll of an input at a time.

### AccountAccess

| Variable | Code |
|---|---|
| `account`, `input` | the stanzas: client id, secret and `use_delegated_permissions`; the account each input names |
| `removal` | `handleRemove` of an account: list of inputs, then removal |
| `form` | `handleCreate` or `handleEdit` of an input with `account_validation`: id, secret and flag read one by one, the check at Microsoft, the stored input |
| `login`, `verified`, `cache` | `DelegatedAuthToken`: the mark, and the stored tokens |
| `simulation`, `poll` | `get_account_details` and `get_access_token` in the polls of the input `Polled`, and whether that is one of simulations |

A list of inputs without a count has at most `ListLimit` entries (`Lists`); which ones is
left open. It has the stanzas of other apps as well (`OtherApps`), which the handler passes over and which
may take the place of an input all the same. `removal.unlisted` is a history: the inputs the list was cut
before, and those stored since. A secret is good for the client id it belongs to. `CheckUnclear` is an
answer without `error_codes`, which the code takes for success.

A stored `cache` has tokens for a client id, or expired ones, or is `"other"`: the sign-in was
made for an environment of another cloud than the one the inputs ask in (get_delegated_auth_token.py:87), so
`get_accounts` finds no user there and `get_access_token` goes on with the credentials of the
application (ms_security_utils.py:178, `Bearers`). An input of simulations does not pass the
flag (microsoft_defender_endpoint_simulations.py:139), so it always acts as the application (`ForUser`). Assumed:
a sign-in has the name of its account; one handler of each kind runs at a time.

### AlertActions

| Variable | Code |
|---|---|
| `job` | the action, its parameters, the rows of `results_file`, the tenant of the account |
| `row`, `loaded` | the row of the loop, and the row whose ids `update()` has loaded |
| `subject`, `tenant`, `index` | `incident_id` or `query`, `tenant_id` and `index`; a hunt keeps the values of the rows before |
| `tokens` | `lru_cache` of `get_access_token` |
| `events`, `written` | `ModularAction.events`, and how many of them the running `writeevents` has put in files |
| `spool` | the files, each with its events, its index and the row it was written for |
| `lost` | history: rows whose `writeevents` failed or lost a file to a later one of the same name |
| `asked`, `applied`, `got` | histories: requests, those Microsoft carried out, answers received |

`Update` and `Hunt` share the module: a hunt writes after each row all events so far, an update
once at the end; an update passes over a row without an incident. `WriteChunk` is one file of
at most `Chunk` events (50000 in the code), `WriteOver` one whose name, made of the second and a
random number, a file has already, `WriteFails` one that cannot be written, after which
`writeevents` returns False and the action goes on. `Fails` is every other exception, which
ends the process; `AskFails` may have had its effect at Microsoft. The host of
a file and the part of a failed file that may be on disk are left out.

### CredentialManager and StoredSecrets

| Variable | Code |
|---|---|
| `entries` | the entries of storage/passwords with the numbers 1, 2, ... behind the separator, each a piece of 255 characters or the end mark |
| `call` | where `set_password` or `delete_password` of a process is: the text, the entry that is next, the entries listed for deletion |
| `conf` | the field in the `.conf` file: `Mask` (`******`), plain text, `Blank`, or no stanza |
| `req` | the request each handler serves (`list`, `get`, `create`, `update`, `delete`), where it is, the field it has read and the text it wants stored |
| `kind` | a stanza that comes and goes (`account`) or one of the settings (`proxy`) |
| `stored`, `mixed` | histories: the text written last, and the writers that overlapped |
| `saved`, `stale` | histories: what the administrator last saved, and the requests that began before another's change |

Every call to splunkd is a step: `Create`, `Find`, `Update`, `Look` and `Delete` for the
entries, `ReadConf`, `PostMask`, `Post` and `Remove` for the stanza. `CallFails` is a call that
raises or is tried again from its first entry (`@retry`), carried out or not; a process that dies
is a call that raises. `Checked` is what `check_existing` makes of an outcome: any failure of
a read means that there is no such stanza. `EditByHand` is a value written
to the `.conf` file in plain text while Splunk is down. A piece is a model value; `Parsable`
are the texts that are JSON, so a text of pieces of two values can be told from both.

## 3. Runs

| Run | Instance | What it checks |
|---|---|---|
| `eventhub_one` | 1 partition, 3 incarnations, 3 events, any 2 faults of 6 kinds, store calls of any duration | types, at least once, refinement of `EventHubDelivery` |
| `eventhub_live` | 1 partition, 3 incarnations, 2 events, any 2 of crash, stop, broken link, store error | every event is ingested, unless a process stays without its balancer; claims heal |
| `eventhub_poison` | 2 partitions, 2 events each, the handler raises on one | no offset passes it or what follows; the other events are ingested |
| `eventhub_store_error` | 1 store error | violated: the error is not retried |
| `eventhub_stop` | 1 stop | violated: a stopped processor stays owner |
| `eventhub_lost_update` | no fault | violated: a claim undoes a checkpoint |
| `poll_safe` | all types, 3 items, one without a date, pages of 2, 2 creations, 1 failure | types; the checkpoint covers only what was written or dropped, advances, is the latest, and goes with its input |
| `poll_live` | 2 items in one page, 2 failures, fair polls | every update is written; once if nothing disturbs |
| `poll_pages` | pages of 1 | violated: the checkpoint passes items of the pages that are dropped |
| `account` | 1 account, 1 input beside 2 stanzas of other apps, a list of 2, 2 keys, 2 changes, 1 failure | types; what a removal may take from an input; marks and tokens; whose token a poll gets; polls recover |
| `alert` | both actions, up to 3 rows, 2 subjects, 2 tenants, 2 indexes, files of 1 event, 1 cached token, 1 failure | types; ids and values of the row; what was answered is reported once, and in the index of its row |
| `secrets` | 2 requests at once, both kinds of stanza, a value of 1 piece and one of 3 | types; inputs are served what was saved; the entries are a `SafeRegister`; reading encrypts |

**Bounds of the event hub.** Three incarnations and two faults give a crash (or stop) of a
process and of its successor, with a third to read what they left; a fault of
the store in one and a crash in the other; and so on. Three events give batches of one,
two and three and a batch that starts inside an earlier one. Two partitions
are the least with which a document holds records its reader does not mean to change.
In all of these runs one process is alive at a time, as Splunk starts one per input; the
theorem `AtLeastOnce` also covers several at once. `MaxTag` = 5 etags are never all in use; an action
that needs a new one is guarded by that. Deadlock is not checked in any run: when all incarnations,
the time or the rows are used up nothing is left to do.

**Bounds of the others.** In `poll_safe` two of three items fill a page, so a page is
dropped, while `MaxTime` = 7 half seconds hold a whole second before and after the default start
date; two creations let a poll of the first meet the second. In `account` a list of two
stanzas out of three stands for the thirty entries splunkd returns and a thirty-first, which is the
input or not; a second input adds no order of the handlers, as each changes one input, and polls share no state. Two
changes give an account that is exchanged while its fields are read. In `alert` one cached token and two
tenants make the cache evict; three rows give a row without values between or after rows with them;
`SomeKinds` names a tenant in a row exactly when it names an index, since the two are read alike.
Files of one event make every report of two answers two files.

**Bounds of the secrets.** A value of one piece and one of three (`MaxPieces` = 3): the short one
stored over the long one leaves a piece behind its end mark and a second mark behind that, which is
the least with which old entries can be taken for new ones. Two requests give every pair of
operations. `MaxLost` = 1: while nothing is known of what should be stored, no request begins beside another.
`MaxFailing` = 1: calls to storage/passwords fail only while one request is served. The theorems (below) are for any
`MaxLost` and `MaxFailing`: also for calls that fail amid any number of requests.

**`SlowStore`.** The balancer sleeps 30 to 36 seconds between two cycles. With
`SlowStore = TRUE` nothing is assumed of that time. With `FALSE` a cycle starts only
after the worker has left the store calls it was in and has closed what was cancelled:
liveness needs this, as otherwise each release of a partition could be overtaken
by the next claim for ever.

**Fairness.** Event hub: weak fairness of each thread's steps, as the threads are never blocked but by
`_lock`, which its holder gives back; strong fairness for receiving from a
partition, since the worker takes the consumers in turn; weak fairness for the expiry
of claims of processes that are gone. Poll inputs and accounts: weak fairness of the polls, which Splunk starts
every interval, and of time. None for faults, users, removals, sign-ins or updates at the service.

**What the violations mean.** `eventhub_store_error`: `_on_error` (eventhub_helper.py:473) reads an attribute of its
context, which is `None` for errors of the balancer; the handler of the
resulting exception does the same, and the thread ends. From then on no claim is renewed and
no partition is opened, while the process stays alive. A hub that cannot be
reached when the first cycle asks for the partition ids (ownership_manager.py:104) does the same. `eventhub_stop`:
the balancer, in the middle of a cycle, claims again what the
worker has just released, and the next incarnation waits for the timeout.
`eventhub_lost_update`: with no fault at all, a claim that read the document before an offset was stored
writes the old offset back; a restart then delivers events twice. `poll_pages`:
`get_atp_alerts_odata` asks for the next page but returns the first only; with the latest items on it, the
checkpoint passes the others for good.

**What the passing properties leave open.** `CheckpointIsLatest` holds up to the second: "...:05Z"
is greater as text than the later "...:05.5Z", and the items between are written again, which
`WrittenOnce` therefore excludes. `RemovalDeletesCheckpoint` and `CreatedAsksFromStart` except
a removal during which a poll ran: that poll stores its checkpoint again, and the next
input of the name starts from it. `EveryEventIngested` and
`ClaimsHeal` except a process that stays without its balancer (`StaysUnbalanced`, what `eventhub_store_error` shows):
nothing but its end lets another take over. `RemovalSparesUsed` allows an account to go under an input
that was beyond the first entries of the list, or stored after it; it excludes every other way, such as a
removal after a failed list. `DelegatedActsAsUser` has the application's token only where the stored sign-in is
of another cloud. `PollRecovers` asks for an
account that is in order: a second sign-in does not make it so, since stored tokens are only
created and never replaced, and neither does a sign-in that failed between its mark and its tokens. `CachedIsVerified`
is about the other direction: tokens without a mark. `HuntIsReported` counts the copies of an answer in the files of one row:
the list of events is never emptied, so the files of each row of a hunt repeat all answers before,
in the index of that row too. `ReportedInIndexOfRow` therefore asks for a copy in the right index and not
for none in another; all answers of an update go to the index of its last row.

`SavedIsServed` excepts two kinds of change, after which what is served is whole and old or new at best.
*A change by a request that began before another one's.* An update that leaves the secret out reads it and writes
it back, over what was saved in between; a read that finds `******` without an entry stores
`******`, also when a deletion runs beside it; two creations both find no stanza and both store their secret before one
is refused. *A change that fails halfway.* The secret is stored before the stanza is
posted, and deleted after the stanza is. A text torn by such a failure is as a rule no JSON: a read answers 500,
which `check_existing` (handler.py:66) takes for a stanza that does not exist, so an update is answered 404 while a
creation replaces the secret and is refused then. A list reads the secrets of all accounts
(`_merge_passwords`), so the torn text of one makes it fail for each of them, and
`ms_security_encrypt_creds.py` with it. With an entry missing in the middle the code joins head and tail, which may
still be JSON and then a wrong value; the model's text is never JSON in that case. The value is unknown by then
(`SafeRegister`), so no property depends on it. That these two kinds of change lose something is what the code
does; what is checked is that they do no lasting harm: the next whole change is served again.

## 4. Proofs

All proofs are for all values of the constants that satisfy the assumptions of the module.

`EventHubConsumerProofs`:

* `TypeCorrect`: `Spec => []TypeOK`. `TypeOK` needs `TypeInv`, which adds what the
  locals of a thread hold where they are used (`WkOK`, `CallOK`).
* `AtLeastOnce`: `Spec => []CommittedIsIngested`. The property of `doc` alone is not
  inductive: every thread of every incarnation may write back a document it read long
  ago. `OffsetsIngested` says that all of these copies, all positions of consumers, all
  checkpoints a balancer has read, and the batch in progress are covered by what was
  ingested; since `ingested` only grows, no overwriting can break it. This is why the lost
  updates of the code cost duplicates and never events.
* `ImplementsDelivery`: `Spec => DeliverySpec`, from the same invariant: writing an
  event is `Ingest`, every other step is a `Commit`.

`PollInputProofs`:

* `TypeCorrect`: with `TypeInv`, which adds that no date a poll or the store knows is yet to come.
* `CheckpointGoesForward`: `Spec => CheckpointAdvances`, from `AdvanceInv`: the date of a
  query is never below the checkpoint, and an answer has only later dates. So the greater of
  them as text is later too, although text and time do not agree.
* `NothingSkipped`: `Spec => []CoveredIsWritten`, for every page size. `CoverInv` says the same of the date
  a running poll asks from, and of its answer: what is older than something in it is in it or
  was dropped (`AnswerInv`); `LifeInv` keeps a poll of a removed input apart from its successor.
* `OnePageIsEnough`: if no answer needs a second page, nothing is ever dropped (`OnePageInv`), and
  `EveryPageIsWritten` holds. The assumption is the one `poll_pages` shows to be needed.
* `RemovalDeletes`, `AsksFromStart`: from `RaceInv`, which says that a poll, the first date and the checkpoint belong to the
  stanza there is, as long as no poll ran during a removal. The exception is needed in each of its steps: a poll that is
  under way stores its checkpoint whatever became of its input.
* `StoresTheLatest`: from `LatestInv`, by way of `TextMaxSecond`: the later of two texts is in no earlier second.
* `WritesOnce`: if every item has its date, `WrittenOnce` holds. `OnceInv` argues in the order of the text, which is
  total (`TextOrder`): all that was written is not later than the checkpoint, or in the answer of the
  running poll. Only the last step uses that the two orders agree on the dates met.

`AccountAccessProofs`: `TypeCorrect`, `TokensAreVerified`, `ActsAsUser`, `UsedIsSpared`, all from
`AccountInv`, which adds to the properties what a handler knows at each of its steps (`HandlersKnow`).

* `UsedIsSpared`: `SeesUsers` says that while a removal goes on, every input that names the account is one
  the list did not have or that came later. It has to be kept by each step that stores, changes or removes an
  input in the meantime, and by the list itself, whose entries of other apps hide inputs and use no account.
* `ActsAsUser`: the token is chosen when the fields are read and the sign-in is stored (`BearersKnown`, which
  needs that the id was read first); afterwards a stored sign-in may expire but is never replaced, and a mark is
  never taken back, so what the poll decided stays true while it collects. `HasMark` is the order
  of mark and tokens.

`AlertActionsProofs`: all six properties of the run `alert`, for any number of rows, answers
and failures, any size of a file and of the cache.

* `TypeCorrect`, `EventsHaveIds`, `RowsOverride` from `RowInv`. What the loop works with is what the
  row names, where it names something (`LocalsOK`); the cache keeps its size and has a tenant once, after the
  token used last is moved to its front and the oldest is dropped (`RemoveAt`, `Front`, `Remembered`).
* `HuntsAreReported`, `UpdatesAreReported`, `AnswersReachTheirIndex` from `ReportInv`. `AnswersOK`: every
  answer is in the list of events, and none is there twice. `FilesOK`: what a file holds is in that list and of no later
  row than its own, the files of one row hold nothing twice, and their index is the one the row names. `ReportOK` says
  which events the files of a row must hold by now, chunk by chunk while they are written; `IndexOK`, that
  the index is the last one named; `UpdateOK`, that the rows behind an update are settled. A file
  that replaces another takes away from what an earlier row has reported: that row is in `lost` then, and for all
  others `Kept` carries their files over.

`CredentialManagerProofs`:

* `CredTypeCorrect`, and `EntriesAreRegister`: `CredSpec => RegisterSpec`, for any length of the texts and any number
  of processes. When nothing writes and the last write is known, the entries up to the first
  end mark are that text (`ContentOK`). For a single writer at work, `Progress` says that the entries below the next one
  are the pieces of its text, or that those it will delete are all there are (`Holds`); writers
  that overlap are `mixed`, whose ends leave the content unknown (`HistoryOK`), also when the other one has ended
  long before. So leftovers behind an end mark do no harm, and a failed store no more than make the content unknown.

`StoredSecretsProofs`: `SecretsTypeCorrect`, among it that a request stores nothing but the text of a value, and
`SecretsAreRegister`: whatever requests come together, they use the manager as `CredSpec` allows, so the theorem above
holds of the entries under them.

`SavedSecretsProofs`: `InputsGetWhatWasSaved` and `ReadsLeaveNoPlainText`, from `SInv`, for any number of requests, with
failures of any call.

* A request that has missed nothing (`Fresh`) knows the stanza and the entries: what it has read is what is
  there, the call it is in has got as far as `Progress` says, and what that will leave is its target (`Local`).
  A step of another request that changes something makes it stale, so the lemmas about a call that nobody interferes with
  (last part of `CredentialManagerProofs`) are all that is needed of it. `FreshOK` says this of all fresh requests.
* `SavedOK`: the value saved last is served, or some request that is halfway will have it served when it succeeds
  (`Answers`), unless a stale one is halfway. `SavedIsServed` alone says nothing of those moments and is not inductive. A stale
  request that changes something, and one that fails halfway, make the value unknown; the next request that stores a
  new one from the start makes it known again.
* `ReadsLeaveNoPlainText` follows from what a fresh read knows: it ends only where it found no
  plain text, or after it has posted `******`.

`OwnershipBalanceProofs`: what the balancer asks for, for every list of a hub's partitions and every number of processors.

* `DecisionsAreFair`: it always has something to choose from; it takes no more than its rounded-up share; and
  it steals only from an owner that is left with a rounded-down share, so no partition is stolen back and forth.
* `ReleasedIsAskedFor`: while a partition is released, some active processor will ask for a released one.
* `SettledIsSharedOut`: when nobody asks for a change, each processor has its rounded-down share. It need not be the
  rounded-up one at most: with five partitions of three processors, 3, 1 and 1 stay as they are.

All three count: partitions are placed in numbered seats of their owners (`AtMostEach`, `AtLeastEach`), so that too few or too
many claims of each would make more or fewer partitions than there are (`SomeoneHasRoom`, `SomeoneHasMore`). The only
assumption is that a list is finite.

Only model-checked: the liveness properties (`EveryEventIngested`, `ClaimsHeal`,
`EveryUpdateIsWritten`, `PollRecovers`), which TLAPS does not prove, and the four violations. Every other
property of a run is a theorem.

## 5. Not modelled

Constants, logging, the JavaScript of the configuration pages, default configuration: no state of
their own or no logic of the add-on. The advanced hunting input keeps nothing between two polls; the inputs
and accounts of event hubs are checked by one connection and a table of its failures.

Vendored libraries, which are most of `lib/` by size (AMQP, cryptography, parsers, Unicode tables, HTTP, the Splunk
SDK): only those parts are modelled that carry behaviour of the add-on, as named above. The models therefore
stand for a small share of the files of the repository, although for most of the state the add-on's own code changes.

Within the event hub input: the records of an event (an event is one unit; a `ValueError` amid its records drops
the rest of them, eventhub_helper.py:406), the choice of categories, and the handler around the processor (closed before
its worker has registered a processor it stops nothing, eventhub_helper.py:482). Within the poll inputs: editing and
disabling, the expansion of an incident into its alerts, and a service that reports an item late with an earlier
date, which the strict filter of api_specific_content.py:43 never asks for. Within accounts: their tenants, the URL of a sign-in,
several sign-ins at once, and the proxy settings, which `lru_cache` keeps for the life of a process
(ms_security_utils.py:219). Within alert actions: the host of a file, delegated permissions, what an update changes in an
incident. Within secrets: several encrypted fields of one stanza, which the add-on has nowhere, the single entries of
versions without an end mark, which are only read, and stanzas whose names overlap as patterns (`delete_password` does not quote
the name it compares, credentials.py:225; the names the UI accepts are safe).

## 6. Plan

1. Event hub input, poll inputs, accounts, alert actions and secrets: done, as above.
2. Proofs of all safety and action properties, of both refinements, and of the balancer's decision: done. Left: what
   the liveness properties rest on, step by step (which threads can always go on, what brings an item nearer to its write).
3. Start and stop of `EventHubConsumerHandler`; records within an event.
4. Editing and disabling of inputs while they poll; the tenant of an account, and its environments one by one.
