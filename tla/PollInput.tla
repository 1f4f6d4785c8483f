------------------------------ MODULE PollInput ------------------------------
(***************************************************************************)
(* An input that polls a Microsoft API: alerts, incidents, machines or     *)
(* attack simulations.  Every interval Splunk runs a process for it, which *)
(* asks for the items updated after its checkpoint, writes them, and moves *)
(* the checkpoint to the latest date it saw.  Meanwhile the service goes   *)
(* on updating items, and a user may remove the input and create it again. *)
(*                                                                         *)
(* Time is counted in half seconds, so that it has dates which are whole   *)
(* seconds ("...:05Z") and dates which are not ("...:05.5Z").              *)
(***************************************************************************)
EXTENDS Naturals, FiniteSets

CONSTANTS
    Kinds,       \* types of input, among those below
    Items,       \* alerts, incidents, machines or simulations of the tenant
    Undated,     \* items that lack the date the code looks for
    Stamps,      \* dates the service gives to updates
    StartDates,  \* start dates a user configures
    Window,      \* how far back the default start date lies (30 days)
    PageSize,    \* items in one response of the service
    MaxTime,     \* bound: the clock stops here
    MaxLives,    \* bound: times the input is created
    MaxFaults    \* bound: failures of calls and deaths of the process

ASSUME KindsAssumption ==
    Kinds \subseteq {"alerts", "machines", "incidents", "simulations"}
ASSUME DatesAssumption ==
    /\ MaxTime \in Nat /\ Window \in {2 * s : s \in 1..MaxTime}
    /\ Window + 2 <= MaxTime
    /\ Stamps \subseteq 1..MaxTime
    /\ StartDates \subseteq 1..MaxTime
ASSUME ItemsAssumption ==
    IsFiniteSet(Items) /\ Undated \subseteq Items /\ PageSize \in Nat
ASSUME PollBoundAssumption == MaxLives \in Nat /\ MaxFaults \in Nat

NoDate == 0
Dates == 0..MaxTime

VARIABLES
    kind,     \* type of the input
    clock,    \* now
    item,     \* the service: date of the last update of each item
    written,  \* history: versions <<item, date>> written to Splunk
    dropped,  \* history: versions on pages the input asked for and threw away
    ckpt,     \* KV store: the checkpoint of the input
    stanza,   \* inputs.conf: "none", "input", or a "stub" with a start date only
    start,    \* inputs.conf: start_date of that stanza
    life,     \* how often the input was created
    since,    \* history: the first date the input decided to ask from, after it
              \* was created or its checkpoint was deleted
    poll,     \* locals of the running poll
    rm,       \* where the handler of the removal is
    raced,    \* history: a poll ran while the input was removed
    faults

vars == <<kind, clock, item, written, dropped, ckpt, stanza, start, life, since, poll,
          rm, raced, faults>>
service == <<clock, item>>
conf == <<stanza, start, life>>

Idle == [pc |-> "idle", life |-> 0, start |-> NoDate, query |-> NoDate,
         page |-> {}, left |-> {}, max |-> NoDate]

Init ==
    /\ kind \in Kinds
    /\ clock = Window + 2
    /\ item = [i \in Items |-> NoDate]
    /\ written = {} /\ dropped = {} /\ ckpt = NoDate
    /\ stanza = "input" /\ life = 1
    /\ start \in {NoDate} \union {d \in StartDates : d <= clock}
    /\ since = NoDate
    /\ poll = Idle /\ rm = "idle"
    /\ raced = FALSE /\ faults = 0

-----------------------------------------------------------------------------
(* Dates are compared as text.  In one second the text with no fraction is *)
(* the greatest, since "Z" comes after ".".                                *)
Whole(t) == t % 2 = 0
TextLater(a, b) ==
    \/ a \div 2 > b \div 2
    \/ a \div 2 = b \div 2 /\ Whole(a) /\ ~Whole(b)
TextMax(a, b) == IF TextLater(a, b) THEN a ELSE b

\* strftime("%Y-%m-%dT%H:%M:%SZ") drops the fraction.
Formatted(t) == 2 * (t \div 2)
\* Mutant: the default lies in the future.
DefaultStartAhead == Formatted(clock + Window)

DefaultStart == Formatted(clock - Window)

\* Two types of input ask for the token before they look for the date.
TokenFirst == kind \in {"alerts", "machines"}

-----------------------------------------------------------------------------
(* The service.                                                            *)
Tick ==
    /\ clock < MaxTime
    /\ clock' = clock + 1
    /\ UNCHANGED <<kind, dropped, item, written, ckpt, conf, since, poll, rm, raced, faults>>

\* No two updates have the same date, and each is visible at once.
Update(i) ==
    /\ \E t \in Stamps :
        /\ clock < t
        /\ clock' = t
        /\ item' = [item EXCEPT ![i] = t]
    /\ UNCHANGED <<kind, dropped, written, ckpt, conf, since, poll, rm, raced, faults>>

\* What the filter of the query asks for: a simulation must have been
\* completed before the present second.
Fresh(q) ==
    {i \in Items : /\ item[i] > q
                   /\ kind = "simulations" => item[i] < Formatted(clock)}

\* The first page of an answer that has all of them, if they fit.
FirstPages(fresh) ==
    IF Cardinality(fresh) <= PageSize THEN {fresh}
    ELSE {p \in SUBSET fresh : Cardinality(p) = PageSize}

-----------------------------------------------------------------------------
(* The poll.                                                               *)
At(pc) == poll.pc = pc

StartPoll ==
    /\ At("idle") /\ stanza = "input"
    /\ poll' = [Idle EXCEPT !.pc = IF TokenFirst THEN "token" ELSE "date",
                            !.life = life, !.start = start]
    /\ UNCHANGED <<kind, dropped, service, written, ckpt, conf, since, rm, raced, faults>>

GetToken ==
    /\ At("token")
    /\ poll' = [poll EXCEPT !.pc = IF TokenFirst THEN "date" ELSE "request"]
    /\ UNCHANGED <<kind, dropped, service, written, ckpt, conf, since, rm, raced, faults>>

\* Mutant: the latest date starts from the configured one.
AskFromStart(q) ==
    [poll EXCEPT !.pc = IF TokenFirst THEN "request" ELSE "token",
                 !.query = q, !.max = poll.start]

Ask(q) == [poll EXCEPT !.pc = IF TokenFirst THEN "request" ELSE "token",
                       !.query = q, !.max = q]

FirstDate(q) ==
    since' = IF since = NoDate /\ stanza = "input" /\ poll.life = life THEN q
             ELSE since

\* get_start_date: the checkpoint, else the configured date, else a default.
ReadDate ==
    /\ At("date")
    /\ LET q == IF ckpt # NoDate THEN ckpt ELSE poll.start
       IN  IF q # NoDate THEN poll' = Ask(q) /\ FirstDate(q)
           ELSE poll' = [poll EXCEPT !.pc = "persist"] /\ UNCHANGED since
    /\ UNCHANGED <<kind, dropped, service, written, ckpt, conf, rm, raced, faults>>

\* Mutant: the default is not stored.
DoNotStoreStart(d) == UNCHANGED conf

\* conf.update creates the stanza when it is not there.
StoreStart(d) ==
    /\ start' = d
    /\ stanza' = IF stanza = "none" THEN "stub" ELSE stanza
    /\ UNCHANGED life

PersistDefault ==
    /\ At("persist")
    /\ StoreStart(DefaultStart)
    /\ poll' = Ask(DefaultStart) /\ FirstDate(DefaultStart)
    /\ UNCHANGED <<kind, dropped, service, written, ckpt, rm, raced, faults>>

\* The answer; an answer of several pages has a link to the next.
Versions(p) == {<<i, item[i]>> : i \in p}
Request ==
    /\ At("request")
    /\ LET fresh == Fresh(poll.query)
       IN  \E p \in FirstPages(fresh) :
            /\ poll' = [poll EXCEPT !.page = Versions(p), !.left = Versions(p),
                                    !.pc = IF p = fresh THEN "item" ELSE "more"]
            /\ dropped' = dropped \union Versions(fresh \ p)
    /\ UNCHANGED <<kind, service, written, ckpt, conf, since, rm, raced, faults>>

\* The other pages are requested, and what the calls return is dropped.
RequestMore ==
    /\ At("more")
    /\ poll' = [poll EXCEPT !.pc = "item"]
    /\ UNCHANGED <<kind, dropped, service, written, ckpt, conf, since, rm, raced, faults>>

\* Mutant: the last date seen instead of the latest.
WriteItemLast(v) ==
    /\ At("item") /\ v \in poll.left /\ v[1] \notin Undated
    /\ written' = written \union {v}
    /\ poll' = [poll EXCEPT !.left = @ \ {v}, !.max = v[2]]
    /\ UNCHANGED <<kind, dropped, service, ckpt, conf, since, rm, raced, faults>>

WriteItem(v) ==
    /\ At("item") /\ v \in poll.left /\ v[1] \notin Undated
    /\ written' = written \union {v}
    /\ poll' = [poll EXCEPT !.left = @ \ {v}, !.max = TextMax(v[2], @)]
    /\ UNCHANGED <<kind, dropped, service, ckpt, conf, since, rm, raced, faults>>

\* required() raises and ends the poll; a simulation is written before that.
RaiseOnItem(v) ==
    /\ At("item") /\ v \in poll.left /\ v[1] \in Undated
    /\ written' = IF kind = "simulations" THEN written \union {v} ELSE written
    /\ poll' = Idle
    /\ UNCHANGED <<kind, dropped, service, ckpt, conf, since, rm, raced, faults>>

AllWritten ==
    /\ At("item") /\ poll.left = {}
    /\ poll' = [poll EXCEPT !.pc = "get"]
    /\ UNCHANGED <<kind, dropped, service, written, ckpt, conf, since, rm, raced, faults>>

GetCheckpoint ==
    /\ At("get")
    /\ poll' = [poll EXCEPT !.pc = "put"]
    /\ UNCHANGED <<kind, dropped, service, written, ckpt, conf, since, rm, raced, faults>>

\* Mutant: the checkpoint is the present.
StoreCheckpointNow ==
    /\ ckpt' = clock
    /\ raced' = (raced \/ rm # "idle" \/ stanza # "input")

StoreCheckpoint ==
    /\ ckpt' = poll.max
    /\ raced' = (raced \/ rm # "idle" \/ stanza # "input")

PutCheckpoint ==
    /\ At("put")
    /\ StoreCheckpoint
    /\ poll' = Idle
    /\ UNCHANGED <<kind, dropped, service, written, conf, since, rm, faults>>

-----------------------------------------------------------------------------
(* Faults.  Every failed call ends the poll: it raises, or it was the last. *)
Fault == faults < MaxFaults /\ faults' = faults + 1

PollFails ==
    /\ ~At("idle") /\ Fault
    /\ poll' = Idle
    /\ UNCHANGED <<kind, dropped, service, written, ckpt, conf, since, rm, raced>>

\* The store has taken the value, but the call raises.
PutFailsLate ==
    /\ At("put") /\ Fault
    /\ StoreCheckpoint
    /\ poll' = Idle
    /\ UNCHANGED <<kind, dropped, service, written, conf, since, rm>>

PersistFailsLate ==
    /\ At("persist") /\ Fault
    /\ StoreStart(DefaultStart)
    /\ poll' = Idle
    /\ UNCHANGED <<kind, dropped, service, written, ckpt, since, rm, raced>>

-----------------------------------------------------------------------------
(* The handler of the removal: delete_checkpoint, then the stanza.  Any    *)
(* failure exits with both, or only the stanza, in place.                  *)
StartRemove ==
    /\ rm = "idle" /\ stanza # "none"
    /\ rm' = "get"
    /\ UNCHANGED <<kind, dropped, service, written, ckpt, conf, since, poll, raced, faults>>

RemoveGet ==
    /\ rm = "get"
    /\ rm' = IF ckpt = NoDate THEN "conf" ELSE "delete"
    /\ UNCHANGED <<kind, dropped, service, written, ckpt, conf, since, poll, raced, faults>>

DeleteCheckpoint ==
    /\ ckpt' = NoDate /\ since' = NoDate
    /\ raced' = (raced \/ ~At("idle"))

RemoveCheckpoint ==
    /\ rm = "delete"
    /\ DeleteCheckpoint
    /\ rm' = "conf"
    /\ UNCHANGED <<kind, dropped, service, written, conf, poll, faults>>

RemoveStanza ==
    /\ rm = "conf"
    /\ stanza' = "none" /\ start' = NoDate /\ since' = NoDate
    /\ raced' = (raced \/ ~At("idle"))
    /\ rm' = "idle"
    /\ UNCHANGED <<kind, dropped, service, written, ckpt, life, poll, faults>>

\* Mutant: a failure is logged and the removal goes on.
RemoveFailsOpen ==
    /\ rm # "idle" /\ Fault
    /\ rm' = "conf"
    /\ UNCHANGED <<kind, dropped, service, written, ckpt, since, conf, poll, raced>>

RemoveFails ==
    /\ rm # "idle" /\ Fault
    /\ rm' = "idle"
    /\ UNCHANGED <<ckpt, since, raced>> \/ (rm = "delete" /\ DeleteCheckpoint)
    /\ UNCHANGED <<kind, dropped, service, written, conf, poll>>

\* The start date must not be in the future.
CreateInput ==
    /\ stanza = "none" /\ rm = "idle" /\ life < MaxLives
    /\ stanza' = "input" /\ life' = life + 1
    /\ start' \in {NoDate} \union {d \in StartDates : d <= clock}
    /\ UNCHANGED <<kind, dropped, service, written, ckpt, since, poll, rm, raced, faults>>

-----------------------------------------------------------------------------
PollStep ==
    \/ StartPoll \/ GetToken \/ ReadDate \/ PersistDefault
    \/ Request \/ RequestMore \/ AllWritten \/ GetCheckpoint \/ PutCheckpoint
    \/ \E v \in poll.left : WriteItem(v) \/ RaiseOnItem(v)

PollFault == PollFails \/ PutFailsLate \/ PersistFailsLate

Removal ==
    \/ StartRemove \/ RemoveGet \/ RemoveCheckpoint \/ RemoveStanza
    \/ RemoveFails \/ CreateInput

Next ==
    \/ Tick \/ \E i \in Items : Update(i)
    \/ PollStep \/ PollFault \/ Removal

Spec == Init /\ [][Next]_vars

\* Splunk starts the poll every interval, and time passes.  Nothing makes the
\* service update, a user remove, or a call fail.
FairSpec == Spec /\ WF_vars(PollStep) /\ WF_vars(Tick)

-----------------------------------------------------------------------------
PollType ==
    [pc : {"idle", "token", "date", "persist", "request", "more", "item", "get",
           "put"},
     life : Nat, start : Dates, query : Dates, max : Dates,
     page : SUBSET (Items \X Dates), left : SUBSET (Items \X Dates)]

(* Each variable has the values the code can give it; a poll has a date     *)
(* before it sends a request.                                               *)
TypeOK ==
    /\ kind \in Kinds /\ clock \in Dates
    /\ item \in [Items -> Dates]
    /\ written \subseteq Items \X Dates /\ dropped \subseteq Items \X Dates
    /\ ckpt \in Dates /\ start \in Dates /\ since \in Dates
    /\ stanza \in {"none", "input", "stub"} /\ life \in Nat
    /\ poll \in PollType
    /\ rm \in {"idle", "get", "delete", "conf"}
    /\ raced \in BOOLEAN /\ faults \in 0..MaxFaults

\* What was updated after the first date the input asks from, and is covered
\* by its checkpoint, was written, or was on a page that was thrown away: no
\* poll will ask for it again.  (stream_events moves the checkpoint after the
\* events, whatever fails.)
Covered(i) == since # NoDate /\ since < item[i] /\ item[i] <= ckpt
CoveredIsWritten ==
    \A i \in Items : Covered(i) => <<i, item[i]>> \in written \union dropped

\* "Gets the events": all the service has for the query, not only the first
\* page (get_atp_alerts_odata).
EveryPageIsWritten ==
    \A i \in Items : Covered(i) => <<i, item[i]>> \in written

\* The checkpoint goes back only by being deleted, though the dates are
\* compared as text (checkpoint_handler).
CheckpointAdvances == [][ckpt' = NoDate \/ ckpt' >= ckpt]_vars

\* A checkpoint survives its input only if a poll ran during the removal
\* (delete_checkpoint exits on every failure, before the stanza is removed).
RemovalDeletesCheckpoint == stanza # "input" /\ ckpt # NoDate => raced

\* An input, also one created under the name of a removed one, first asks from
\* its own start date, or from the default it stored, unless a poll ran during
\* the removal ("Deleted the checkpoint when user deletes the input").
CreatedAsksFromStart == since # NoDate /\ ~raced => since = start

\* The checkpoint a poll stores lies in the second of the latest date it wrote
\* ("Technically it works for JSON timestamp"); within the second, the text
\* with no fraction wins.
CheckpointIsLatest ==
    At("put") => \A v \in poll.page : v[2] \div 2 <= poll.max \div 2

\* As long as nothing fails, no poll raises, the input is not removed, and the
\* order of the dates as text is their order in time, no version is written
\* twice (the filters ask for dates strictly after the checkpoint).
Undisturbed ==
    LET met == {start, ckpt} \union {v[2] : v \in written \union poll.page}
    IN  /\ faults = 0 /\ life = 1 /\ stanza = "input" /\ rm = "idle"
        /\ \A a, b \in met : TextLater(a, b) => a > b
WrittenOnce ==
    [][Undisturbed => \A v \in poll.left : WriteItem(v) => v \notin written]_vars

\* What the input must fetch is written, or replaced by a later update.
Due(i) ==
    /\ since # NoDate /\ stanza = "input" /\ since < item[i]
    /\ kind = "simulations" => item[i] < Formatted(clock)
EveryUpdateIsWritten ==
    \A i \in Items : \A t \in Stamps :
        item[i] = t /\ Due(i) ~>
            <<i, t>> \in written \/ item[i] # t \/ stanza # "input"
=============================================================================
