---------------------------- MODULE AlertActions ----------------------------
(***************************************************************************)
(* The two alert actions: "update" changes the incidents that the rows of  *)
(* a search name, "hunt" runs the queries they name.  The answers become   *)
(* events in files that Splunk picks up from its spool directory.          *)
(*                                                                         *)
(* The rows come from a lazy generator: a row is loaded, with its ids, in  *)
(* the step that takes it.  A row is known by its number, which is its rid *)
(* here.  What a row is about is its subject: the incident, or the query.  *)
(***************************************************************************)
EXTENDS Naturals, Sequences, FiniteSets, SequencesExt

CONSTANTS
    Subjects,    \* incidents, or queries
    Tenants,     \* tenants
    Indexes,     \* indexes of Splunk
    Nothing,     \* a field or a parameter without a value
    CacheSize,   \* tokens that are kept (8 in the code)
    Chunk,       \* events in one file (50000 in the code)
    RowKinds,    \* bound: what rows of the search name
    MaxRows,     \* bound: rows of the search
    MaxAnswers,  \* bound: events made of one answer
    MaxFaults    \* bound: failures

ASSUME AlertAssumption ==
    /\ Nothing \notin Subjects \union Tenants \union Indexes
    /\ CacheSize \in Nat \ {0} /\ Chunk \in Nat \ {0}

VARIABLES
    job,      \* the action and its parameters, the rows, the account's tenant
    pc,       \* where the process is
    row,      \* number of the row it works on
    loaded,   \* the row whose ids the next event gets
    subject, tenant, index,  \* locals of process_events
    tokens,   \* tenants with a cached token, the last used first
    events,   \* the list that writeevents writes
    written,  \* how many of them the running writeevents has written
    spool,    \* the files: the events, the index, the row worked on, the tenant
    lost,     \* history: rows whose writeevents has failed or been overwritten
    asked,    \* history: the requests
    applied,  \* history: rows whose request Microsoft has carried out
    got,      \* history: the answers, by row, that the process has received
    faults

locals == <<subject, tenant, index>>
files == <<written, spool, lost>>
history == <<asked, applied, got>>
vars == <<job, pc, row, loaded, locals, tokens, events, files, history, faults>>

Or(x, y) == IF x = Nothing THEN y ELSE x
Field(S) == S \union {Nothing}
Row == [subject : Field(Subjects), tenant : Field(Tenants), index : Field(Indexes)]

ASSUME AlertBoundAssumption ==
    /\ RowKinds \subseteq Row
    /\ MaxRows \in Nat /\ MaxAnswers \in Nat \ {0} /\ MaxFaults \in Nat

Rows == UNION {[1..n -> RowKinds] : n \in 0..MaxRows}
Job == [action : {"update", "hunt"}, rows : Rows, subject : Field(Subjects),
        tenant : Field(Tenants), account : Field(Tenants)]

Update == job.action = "update"
Hunt == job.action = "hunt"
Fault == faults < MaxFaults /\ faults' = faults + 1

\* A hunt requires the parameter with the query.  Without an index events go to
\* a default one.
Init ==
    /\ job \in {j \in Job : j.action = "hunt" => j.subject # Nothing}
    /\ pc = "next" /\ row = 0
    /\ loaded = IF Len(job.rows) = 0 THEN 0 ELSE 1  \* prepare_meta_for_cam
    /\ subject = job.subject /\ tenant = job.tenant /\ index = Nothing
    /\ tokens = <<>> /\ events = <<>>
    /\ written = 0 /\ spool = <<>> /\ lost = {}
    /\ asked = {} /\ applied = {} /\ got = {}
    /\ faults = 0

-----------------------------------------------------------------------------
\* Mutant: the rows are read into a list first, which loads the ids of all.
PreHandleAll == loaded' = Len(job.rows)
PreHandle == loaded' = row + 1

\* Mutant: a parameter wins.
RowTenantLast(r) == Or(IF Hunt THEN tenant ELSE job.tenant, Or(r.tenant, job.account))

\* Mutant: the index of the first row that names one is kept.
RowIndexFirst(r) == Or(index, r.index)

\* The values of a row win.  Those it lacks come from the parameters for an
\* update, from the row before for a hunt.
RowSubject(r) == Or(r.subject, IF Hunt THEN subject ELSE job.subject)
RowTenant(r) == Or(r.tenant, Or(IF Hunt THEN tenant ELSE job.tenant, job.account))

RowIndex(r) == Or(r.index, index)

NextRow ==
    /\ pc = "next" /\ row < Len(job.rows)
    /\ row' = row + 1
    /\ PreHandle
    /\ LET r == job.rows[row + 1]
       IN  /\ subject' = RowSubject(r) /\ tenant' = RowTenant(r)
           /\ index' = RowIndex(r)
           /\ pc' = IF RowTenant(r) = Nothing THEN "failed" ELSE "token"
    /\ UNCHANGED <<job, tokens, events, files, history, faults>>

\* Mutant: no tenant ever goes.
RememberAll(t) == <<t>> \o SelectSeq(tokens, LAMBDA u : u # t)

\* lru_cache: the token of a tenant is asked for once, and the tenant that was
\* not used for longest goes.
Position(t) == {k \in 1..Len(tokens) : tokens[k] = t}
Remember(t) ==
    <<t>> \o (IF Position(t) # {} THEN RemoveAt(tokens, CHOOSE k \in Position(t) : TRUE)
              ELSE IF Len(tokens) < CacheSize THEN tokens ELSE Front(tokens))

\* An update without an incident goes on with the next row.
GetAccessToken ==
    /\ pc = "token"
    /\ tokens' = Remember(tenant)
    /\ pc' = IF subject = Nothing THEN "next" ELSE "ask"
    /\ UNCHANGED <<job, row, loaded, locals, events, files, history, faults>>

Request == [row |-> row, subject |-> subject, tenant |-> Head(tokens)]

\* Each part of the answer is an event with the ids of the row that is loaded:
\* the updated incident and its alerts, or the results of the query.
Answers == IF Hunt THEN 0..MaxAnswers ELSE 1..MaxAnswers
Parts(n) == [k \in 1..n |-> [row |-> row, part |-> k, rid |-> loaded]]

Ask ==
    /\ pc = "ask"
    /\ asked' = asked \union {Request}
    /\ applied' = applied \union {row}
    /\ \E n \in Answers :
        /\ events' = events \o Parts(n)
        /\ got' = got \union {<<row, k>> : k \in 1..n}
    /\ pc' = IF Hunt THEN "write" ELSE "next"
    /\ UNCHANGED <<job, row, loaded, locals, tokens, files, faults>>

\* Mutant: a failed request is logged, and the next row taken.
AskFailsOpen ==
    /\ pc = "ask" /\ Fault
    /\ asked' = asked \union {Request}
    /\ applied' \in {applied, applied \union {row}}
    /\ pc' = "next"
    /\ UNCHANGED <<job, row, loaded, locals, tokens, events, files, got>>

\* The request may have been carried out when its answer is lost.
AskFails ==
    /\ pc = "ask" /\ Fault
    /\ asked' = asked \union {Request}
    /\ applied' \in {applied, applied \union {row}}
    /\ pc' = "failed"
    /\ UNCHANGED <<job, row, loaded, locals, tokens, events, files, got>>

\* An update writes when all rows are done, and only if one was updated.
LastRow ==
    /\ pc = "next" /\ row = Len(job.rows)
    /\ pc' = IF Update /\ applied # {} THEN "write" ELSE "done"
    /\ UNCHANGED <<job, row, loaded, locals, tokens, events, files, history, faults>>

Written == IF Hunt THEN "next" ELSE "done"

\* One file after the other, each with a chunk of all events of the process.
IsLast == written + Chunk >= Len(events)
File == [row |-> row, tenant |-> tenant, index |-> index,
         events |-> SubSeq(events, written + 1,
                           IF IsLast THEN Len(events) ELSE written + Chunk)]
NextChunk ==
    /\ written' = IF IsLast THEN 0 ELSE written + Chunk
    /\ pc' = IF IsLast THEN Written ELSE "write"
WriteAside == UNCHANGED <<job, row, loaded, locals, tokens, events, history>>

WriteChunk ==
    /\ pc = "write" /\ events # <<>>
    /\ spool' = Append(spool, File)
    /\ NextChunk
    /\ WriteAside /\ UNCHANGED <<lost, faults>>

\* Without events nothing is written.
WriteNothing ==
    /\ pc = "write" /\ events = <<>>
    /\ pc' = Written
    /\ WriteAside /\ UNCHANGED <<files, faults>>

\* The name of a file has the second and a random number: it may replace an
\* earlier one, also one of the same call.
WriteOver ==
    /\ pc = "write" /\ events # <<>> /\ Fault
    /\ \E k \in 1..Len(spool) :
        /\ spool' = Append(RemoveAt(spool, k), File)
        /\ lost' = lost \union {spool[k].row}
    /\ NextChunk
    /\ WriteAside

\* Mutant: the list is emptied after it was to be written.
WriteFailsEmpty ==
    /\ pc = "write" /\ events # <<>> /\ Fault
    /\ lost' = lost \union {row} /\ events' = <<>>
    /\ written' = 0 /\ pc' = Written
    /\ UNCHANGED <<job, row, loaded, locals, tokens, spool, history>>

\* A failure to write is logged, and the rest of the events is not written.
WriteFails ==
    /\ pc = "write" /\ events # <<>> /\ Fault
    /\ lost' = lost \union {row}
    /\ written' = 0 /\ pc' = Written
    /\ WriteAside /\ UNCHANGED spool

\* Every other exception ends the process, as does its death.
Fails ==
    /\ pc \in {"next", "token", "write"} /\ Fault
    /\ pc' = "failed"
    /\ UNCHANGED <<job, row, loaded, locals, tokens, events, files, history>>

Next ==
    \/ NextRow \/ LastRow \/ GetAccessToken \/ Ask \/ AskFails
    \/ WriteChunk \/ WriteNothing \/ WriteOver \/ WriteFails \/ Fails

Spec == Init /\ [][Next]_vars

-----------------------------------------------------------------------------
Event == [row : 1..MaxRows, part : 1..MaxAnswers, rid : 0..MaxRows]

\* Each variable has the values the code can give it; the cache of tokens keeps
\* to its size and has a tenant once.
TypeOK ==
    /\ job \in Job
    /\ pc \in {"next", "token", "ask", "write", "done", "failed"}
    /\ row \in 0..Len(job.rows) /\ loaded \in 0..Len(job.rows)
    /\ subject \in Field(Subjects) /\ tenant \in Field(Tenants)
    /\ index \in Field(Indexes)
    /\ tokens \in Seq(Tenants) /\ Len(tokens) <= CacheSize /\ IsInjective(tokens)
    /\ events \in Seq(Event)
    /\ written \in 0..Len(events)
    /\ spool \in Seq([row : 1..MaxRows, tenant : Tenants, index : Field(Indexes),
                      events : Seq(Event)])
    /\ lost \subseteq 1..MaxRows
    /\ asked \subseteq [row : 1..MaxRows, subject : Subjects, tenant : Tenants]
    /\ applied \subseteq 1..MaxRows
    /\ got \subseteq (1..MaxRows) \X (1..MaxAnswers)
    /\ faults \in 0..MaxFaults

\* "Remember to call update() prior to addevent() to ensure that the events
\* reflect the appropriate orig_sid and orig_rid identifiers": an event has the
\* ids of the row it was made for (get_events, addevent).
EventHasIdsOfRow == \A k \in 1..Len(events) : events[k].rid = events[k].row

\* "Override values if they are present in the event": the request of a row is
\* about what the row names, with a token of the tenant the row names, whatever
\* the rows before have named and whatever tokens are cached (process_events).
RowOverrides ==
    \A q \in asked : LET r == job.rows[q.row]
                     IN  /\ r.subject # Nothing => q.subject = r.subject
                         /\ r.tenant # Nothing => q.tenant = r.tenant

\* The places of an answer in the files of the row i.
Answer(e) == <<e.row, e.part>>
Places(a, i) ==
    {p \in (1..Len(spool)) \X (1..Chunk) :
        LET file == spool[p[1]]
        IN  /\ file.row = i /\ p[2] <= Len(file.events)
            /\ Answer(file.events[p[2]]) = a}

\* After each row of a hunt its files have every answer so far once, unless one of
\* them could not be written or was overwritten: what is lost with a row comes
\* with the next, and a row that fails takes nothing from the rows before.
HuntIsReported ==
    Hunt /\ pc = "next" =>
        \A i \in (1..row) \ lost : \A a \in got :
            Cardinality(Places(a, i)) = IF a[1] <= i THEN 1 ELSE 0

\* An update that ends well has updated the incident of every row that has one,
\* and reports each answer once, unless a file could not be written or was
\* overwritten; one that fails before it writes reports none (process_events).
UpdateIsReported ==
    /\ Update /\ pc = "failed" /\ written = 0 => spool = <<>>
    /\ Update /\ pc = "done" =>
        /\ \A i \in 1..Len(job.rows) :
             Or(job.rows[i].subject, job.subject) # Nothing => i \in applied
        /\ lost = {} => \A a \in got : Cardinality(Places(a, row)) = 1

\* What was answered for a row that names an index is in that index: for a hunt
\* always, though the rows after it may write it to theirs too; for an update,
\* whose answers all go to one index, only if no later row names another.
ReportedInIndexOfRow ==
    \A a \in got :
        LET own == job.rows[a[1]].index
            later == {job.rows[i].index : i \in a[1] + 1 .. Len(job.rows)}
        IN  /\ own # Nothing
            /\ \/ Hunt /\ pc = "next" /\ a[1] \notin lost
               \/ Update /\ pc = "done" /\ lost = {} /\ later \subseteq {own, Nothing}
            => \E i \in 1..row : \E p \in Places(a, i) : spool[p[1]].index = own
=============================================================================
