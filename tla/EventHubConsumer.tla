-------------------------- MODULE EventHubConsumer --------------------------
(***************************************************************************)
(* The Microsoft Defender event hub input.  Splunk runs the input as a     *)
(* process; in it the EventProcessor has two threads:                      *)
(*   "lb"  the load balancer: list ownership, claim, open and cancel       *)
(*         partition consumers, every 30 seconds;                          *)
(*   "wk"  the worker: receive a batch, write it to Splunk, move the       *)
(*         checkpoint; close consumers and release their partitions.       *)
(* Both keep ownership and offsets of ALL partitions in one KV store       *)
(* document (KVCheckpointStore), which they read and write back whole.     *)
(*                                                                         *)
(* Each element of Procs is one incarnation of the process, with its own   *)
(* owner id.  Partitions are those the hub keeps when it is scaled.        *)
(***************************************************************************)
EXTENDS OwnershipBalance

CONSTANTS
    Procs,       \* incarnations of the input's process
    Partitions,  \* partition ids of the hub
    NoPart,      \* a partition variable that holds nothing
    NoDoc,       \* the KV store has no document under the checkpoint key
    LastOffset,  \* events 1..LastOffset are in every partition
    Poison,      \* events <<p, i>> the handler raises on
    SlowStore,   \* a store call may outlast the 30 seconds between two cycles
    MaxTag,      \* bound: etags are 1..MaxTag, an unused one is "new"
    MaxLive,     \* bound: incarnations alive at once
    Faults,      \* kinds of fault that may happen
    MaxFaults    \* bound: how many faults happen

ASSUME OffsetAssumption == LastOffset \in Nat
ASSUME PoisonAssumption == Poison \subseteq Partitions \X (1..LastOffset)
ASSUME SlowStoreAssumption == SlowStore \in BOOLEAN
ASSUME BoundAssumption == MaxTag \in Nat /\ MaxLive \in Nat /\ MaxFaults \in Nat
ASSUME NamesAssumption == Nobody \notin Procs /\ NoPart \notin Partitions

Threads == {"lb", "wk"}
FaultKinds == {"store", "crash", "stop", "link", "delete", "resize"}
Entry == [owner : Procs \union {Nobody}, etag : Nat, fresh : BOOLEAN,
          offset : 0..LastOffset]
Doc == [Partitions -> Entry]

ASSUME NoDocAssumption == NoDoc \notin Doc

VARIABLES
    doc,         \* the KV store document of the input
    ingested,    \* history: events written to Splunk, per partition
    status,      \* process: "new" -> "init" -> "up" -> "stopping" -> "down"
    lb, wk,      \* locals of the two threads of each process
    claim,       \* per thread, the running call of claim_ownership
    consumers,   \* EventProcessor._consumers: partitions with a consumer
    cancelled,   \* those whose stop flag is set
    pos,         \* offset the consumer of a partition has read up to
    owned,       \* OwnershipManager.owned_partitions still owned by self
    ownTag,      \* and their etags
    faults

localVars == <<lb, wk, claim, consumers, cancelled, pos, owned, ownTag>>
vars == <<doc, ingested, status, localVars, faults>>

-----------------------------------------------------------------------------
NoTags == [p \in Partitions |-> 0]
IdleLB == [pc |-> "list", newly |-> {}, cancel |-> {}, ckpt |-> NoTags]
NewLB == [IdleLB EXCEPT !.pc = "ids"]
IdleWk == [pc |-> "loop", part |-> NoPart, next |-> 0, last |-> 0,
           snap |-> NoDoc, lock |-> FALSE]
NoCall == [pc |-> "idle", todo |-> {}, tag |-> NoTags, won |-> {},
           cur |-> NoPart, snap |-> NoDoc]

Live == {q \in Procs : status[q] \in {"init", "up", "stopping"}}
Running(q) == status[q] \in {"up", "stopping"}

Fault(kind) == /\ kind \in Faults
               /\ faults < MaxFaults
               /\ faults' = faults + 1

\* checkpoint.get raises, or returns None for a deleted document, which no
\* caller but __init__ tests for.
ReadFails == \/ doc = NoDoc /\ UNCHANGED faults
             \/ Fault("store")

\* checkpoint.update raises; the document may have been stored all the same.
WriteFails(new) == Fault("store") /\ doc' \in {doc, new}

\* Etags of partition p that some thread may still compare or write back,
\* leaving out the given calls and the document, which is being replaced.
EtagsHeld(p, except) ==
    LET calls == {claim[c[1]][c[2]] : c \in (Procs \X Threads) \ except}
        docs  == {wk[q].snap : q \in Procs} \union {c.snap : c \in calls}
    IN  {d[p].etag : d \in docs \ {NoDoc}}
          \union {c.tag[p] : c \in calls}
          \union {ownTag[q][p] : q \in Procs}

\* str(uuid.uuid4()): a value that nothing else in the system holds.
UnusedTags(p, except) == (1..MaxTag) \ EtagsHeld(p, except)
NewEtag(p, except) == CHOOSE e \in UnusedTags(p, except) : TRUE

InitialDoc ==
    [p \in Partitions |-> [owner |-> Nobody, etag |-> NewEtag(p, {}),
                           fresh |-> TRUE, offset |-> 0]]

Init ==
    /\ doc = NoDoc
    /\ ingested = [p \in Partitions |-> {}]
    /\ status = [q \in Procs |-> "new"]
    /\ lb = [q \in Procs |-> NewLB]
    /\ wk = [q \in Procs |-> IdleWk]
    /\ claim = [q \in Procs |-> [t \in Threads |-> NoCall]]
    /\ consumers = [q \in Procs |-> {}]
    /\ cancelled = [q \in Procs |-> {}]
    /\ pos = [q \in Procs |-> NoTags]
    /\ owned = [q \in Procs |-> {}]
    /\ ownTag = [q \in Procs |-> NoTags]
    /\ faults = 0

-----------------------------------------------------------------------------
(* The process: creation of the checkpoint store, start, stop and death.   *)

SetStatus(q, s) == status' = [status EXCEPT ![q] = s]

StartGet(q) ==
    /\ status[q] = "new"
    /\ Cardinality(Live) < MaxLive
    /\ SetStatus(q, IF doc = NoDoc THEN "init" ELSE "up")
    /\ UNCHANGED <<doc, ingested, localVars, faults>>

StartPut(q) ==
    /\ status[q] = "init"
    /\ \A p \in Partitions : UnusedTags(p, {}) # {}
    /\ doc' = InitialDoc
    /\ SetStatus(q, "up")
    /\ UNCHANGED <<ingested, localVars, faults>>

\* The hub has another number of partitions than the stored document: that is
\* deleted, with all offsets, before a new one is stored.
StartResized(q) ==
    /\ status[q] = "new"
    /\ Cardinality(Live) < MaxLive
    /\ doc # NoDoc
    /\ Fault("resize")
    /\ doc' = NoDoc
    /\ SetStatus(q, "init")
    /\ UNCHANGED <<ingested, localVars>>

\* Any error while the client is created, of the hub or of the store, ends in
\* sys.exit(1).
StartFails(q) ==
    /\ \/ /\ status[q] = "new" /\ Cardinality(Live) < MaxLive
          /\ Fault("link") \/ Fault("store")
          /\ UNCHANGED doc
       \/ /\ status[q] = "init" /\ WriteFails(InitialDoc)
          /\ \A p \in Partitions : UnusedTags(p, {}) # {}
    /\ SetStatus(q, "down")
    /\ UNCHANGED <<ingested, localVars>>

Down(q) ==
    /\ SetStatus(q, "down")
    /\ lb' = [lb EXCEPT ![q] = NewLB]
    /\ wk' = [wk EXCEPT ![q] = IdleWk]
    /\ claim' = [claim EXCEPT ![q] = [t \in Threads |-> NoCall]]
    /\ consumers' = [consumers EXCEPT ![q] = {}]
    /\ cancelled' = [cancelled EXCEPT ![q] = {}]
    /\ pos' = [pos EXCEPT ![q] = NoTags]
    /\ owned' = [owned EXCEPT ![q] = {}]
    /\ ownTag' = [ownTag EXCEPT ![q] = NoTags]
    /\ UNCHANGED <<doc, ingested>>

\* The process is killed between any two steps.
Crash(q) == q \in Live /\ Fault("crash") /\ Down(q)

\* Main thread interrupted: __exit__ closes the client, which stops the
\* processor; the worker is then joined.
Stop(q) ==
    /\ status[q] = "up"
    /\ Fault("stop")
    /\ SetStatus(q, "stopping")
    /\ UNCHANGED <<doc, ingested, localVars>>

\* is_alive() is false or join() returned: the process ends, and the load
\* balancer, a daemon thread, with it.
Exit(q) ==
    /\ Running(q)
    /\ wk[q].pc \in {"done", "dead"}
    /\ Down(q)
    /\ UNCHANGED faults

\* The copy d of the document once the claim stored for p has grown old.
Aged(d, p) == IF d = NoDoc \/ d[p].etag # doc[p].etag THEN d
              ELSE [d EXCEPT ![p] = [@ EXCEPT !.fresh = FALSE]]

\* A claim grows older than the ownership timeout of 300 seconds: the stored
\* one, its copies in documents a thread has read, and the copy its process
\* has in owned_partitions.  A balancer that is alive renews its claims every
\* 30 to 36 seconds.
Expire(p) ==
    /\ doc # NoDoc
    /\ doc[p].owner # Nobody /\ doc[p].fresh
    /\ \A q \in Live : doc[p].owner = q => lb[q].pc = "dead"
    /\ doc' = Aged(doc, p)
    /\ wk' = [q \in Procs |-> [wk[q] EXCEPT !.snap = Aged(@, p)]]
    /\ claim' = [q \in Procs |-> [t \in Threads |->
                     [claim[q][t] EXCEPT !.snap = Aged(@, p)]]]
    /\ owned' = [q \in Procs |-> IF ownTag[q][p] = doc[p].etag
                                 THEN owned[q] \ {p} ELSE owned[q]]
    /\ UNCHANGED <<ingested, status, lb, consumers, cancelled, pos, ownTag,
                   faults>>

\* delete_checkpoint from the REST handler that removes the input.
DeleteDoc ==
    /\ doc # NoDoc
    /\ Fault("delete")
    /\ doc' = NoDoc
    /\ UNCHANGED <<ingested, status, localVars>>
-----------------------------------------------------------------------------
(* KVCheckpointStore.claim_ownership, called by either thread: the load    *)
(* balancer claims for itself, the worker gives a partition up.            *)

ClaimedBy(q, t) == IF t = "lb" THEN q ELSE Nobody

SetCall(q, t, call) == claim' = [claim EXCEPT ![q][t] = call]

Call(parts, tags) ==
    [NoCall EXCEPT !.pc = "open", !.todo = parts,
                   !.tag = [p \in Partitions |->
                               IF p \in parts THEN tags[p] ELSE 0]]

\* The etag array is read once; a partition whose etag has moved is skipped.
ClaimOpen(q, t) ==
    LET c == claim[q][t]
    IN  /\ c.pc = "open"
        /\ doc # NoDoc
        /\ SetCall(q, t, [c EXCEPT
               !.pc = "next",
               !.todo = {p \in c.todo : doc[p].etag = c.tag[p]},
               !.tag = [p \in Partitions |->
                           IF doc[p].etag = c.tag[p] THEN c.tag[p] ELSE 0]])
        /\ UNCHANGED <<doc, ingested, status, lb, wk, consumers, cancelled,
                       pos, owned, ownTag, faults>>

\* For each partition left the whole document is read again ...
ClaimGet(q, t) ==
    LET c == claim[q][t]
    IN  /\ c.pc = "next"
        /\ doc # NoDoc
        /\ \E p \in c.todo :
               SetCall(q, t, [c EXCEPT !.pc = "put", !.cur = p, !.snap = doc])
        /\ UNCHANGED <<doc, ingested, status, lb, wk, consumers, cancelled,
                       pos, owned, ownTag, faults>>

ClaimedDoc(q, t) ==
    LET c == claim[q][t]
    IN  [c.snap EXCEPT ![c.cur] = [@ EXCEPT !.owner = ClaimedBy(q, t),
                                            !.etag = NewEtag(c.cur, {<<q, t>>}),
                                            !.fresh = TRUE]]

\* ... and written back whole, with no test of what it holds by now.
ClaimPut(q, t) ==
    LET c == claim[q][t]
    IN  /\ c.pc = "put"
        /\ UnusedTags(c.cur, {<<q, t>>}) # {}
        /\ doc' = ClaimedDoc(q, t)
        /\ SetCall(q, t, [c EXCEPT !.pc = "next",
                                   !.todo = @ \ {c.cur},
                                   !.won = @ \union {c.cur},
                                   !.tag[c.cur] = NewEtag(c.cur, {<<q, t>>}),
                                   !.cur = NoPart, !.snap = NoDoc])
        /\ UNCHANGED <<ingested, status, lb, wk, consumers, cancelled, pos,
                       owned, ownTag, faults>>

\* What the store does when a step of the call raises.
ClaimRaises(q, t) ==
    LET c == claim[q][t]
    IN  \/ /\ c.pc = "open" \/ (c.pc = "next" /\ c.todo # {})
           /\ ReadFails /\ UNCHANGED doc
        \/ /\ c.pc = "put" /\ UnusedTags(c.cur, {<<q, t>>}) # {}
           /\ WriteFails(ClaimedDoc(q, t))

ClaimReturns(q, t) == claim[q][t].pc = "next" /\ claim[q][t].todo = {}

-----------------------------------------------------------------------------
(* The load-balancing thread.                                              *)

SetLB(q, l) == lb' = [lb EXCEPT ![q] = l]

\* The balancer sleeps 30 seconds between two cycles.  Unless the store is
\* slow, the worker gets out of the store calls it was in and closes the
\* consumers cancelled so far in that time.
Slept(q) ==
    SlowStore \/ (wk[q].pc \in {"loop", "write", "dead"} /\ cancelled[q] = {})

\* In its first cycle the balancer asks the hub for the partition ids, which
\* it keeps; the ids it is told are Partitions.
LBIds(q) ==
    /\ status[q] = "up"
    /\ lb[q].pc = "ids"
    /\ SetLB(q, [IdleLB EXCEPT !.pc = "first"])
    /\ UNCHANGED <<doc, ingested, status, wk, claim, consumers, cancelled,
                   pos, owned, ownTag, faults>>

\* The owners are listed: in the first cycle once the ids are known, later at
\* the head of the loop, where alone _running is tested.
AtList(q) ==
    \/ lb[q].pc = "first"
    \/ lb[q].pc = "list" /\ status[q] = "up" /\ Slept(q)

\* Mutant of LBList: balances only until it has got a partition.
LBListOnce(q) ==
    /\ lb[q].pc = "first" \/ (lb[q].pc = "list" /\ status[q] = "up")
    /\ consumers[q] = {}
    /\ doc # NoDoc
    /\ \E parts \in BalanceOwnership(doc, q) \ {{}} :
          /\ SetLB(q, [IdleLB EXCEPT !.pc = "claim"])
          /\ SetCall(q, "lb", Call(parts, [p \in Partitions |-> doc[p].etag]))
    /\ UNCHANGED <<doc, ingested, status, wk, consumers, cancelled, pos,
                   owned, ownTag, faults>>

LBList(q) ==
    /\ AtList(q)
    /\ doc # NoDoc
    /\ \E parts \in BalanceOwnership(doc, q) :
          \/ /\ parts # {}
             /\ SetLB(q, [IdleLB EXCEPT !.pc = "claim"])
             /\ SetCall(q, "lb", Call(parts, [p \in Partitions |-> doc[p].etag]))
             /\ UNCHANGED owned
          \/ /\ parts = {}
             /\ SetLB(q, [IdleLB EXCEPT !.pc = "cancel",
                                        !.cancel = consumers[q]])
             /\ owned' = [owned EXCEPT ![q] = {}]
             /\ UNCHANGED claim
    /\ UNCHANGED <<doc, ingested, status, wk, consumers, cancelled, pos,
                   ownTag, faults>>

\* claim_ownership returned: what was not won again is to be cancelled.
LBClaimed(q) ==
    LET won == claim[q]["lb"].won
        new == won \ consumers[q]
    IN  /\ lb[q].pc = "claim"
        /\ ClaimReturns(q, "lb")
        /\ owned' = [owned EXCEPT ![q] = won]
        /\ ownTag' = [ownTag EXCEPT ![q] = claim[q]["lb"].tag]
        /\ SetLB(q, [IdleLB EXCEPT
                        !.pc = IF new # {} THEN "checkpoints"
                               ELSE IF consumers[q] \subseteq won THEN "list"
                               ELSE "cancel",
                        !.newly = new, !.cancel = consumers[q] \ won])
        /\ SetCall(q, "lb", NoCall)
        /\ UNCHANGED <<doc, ingested, status, wk, consumers, cancelled, pos,
                       faults>>

LBCheckpoints(q) ==
    /\ lb[q].pc = "checkpoints"
    /\ doc # NoDoc
    /\ SetLB(q, [lb[q] EXCEPT !.pc = "create",
                     !.ckpt = [p \in Partitions |->
                                  IF p \in lb[q].newly THEN doc[p].offset ELSE 0]])
    /\ UNCHANGED <<doc, ingested, status, wk, claim, consumers, cancelled,
                   pos, owned, ownTag, faults>>

\* Mutant of LBCreate: consumers start one event after the checkpoint's next.
LBCreateSkips(q) ==
    LET new == lb[q].newly \ consumers[q]
    IN  /\ lb[q].pc = "create"
        /\ ~wk[q].lock
        /\ consumers' = [consumers EXCEPT ![q] = @ \union new]
        /\ cancelled' = [cancelled EXCEPT ![q] = @ \ new]
        /\ pos' = [pos EXCEPT ![q] =
                      [p \in Partitions |-> IF p \in new THEN lb[q].ckpt[p] + 1
                                                         ELSE @[p]]]
        /\ SetLB(q, [IdleLB EXCEPT
                        !.pc = IF lb[q].cancel = {} THEN "list" ELSE "cancel",
                        !.cancel = lb[q].cancel])
        /\ UNCHANGED <<doc, ingested, status, wk, claim, owned, ownTag, faults>>

\* _create_tasks_for_claimed_ownership, under the processor's lock: the new
\* consumers start at the checkpoint.
LBCreate(q) ==
    LET new == lb[q].newly \ consumers[q]
    IN  /\ lb[q].pc = "create"
        /\ ~wk[q].lock
        /\ consumers' = [consumers EXCEPT ![q] = @ \union new]
        /\ cancelled' = [cancelled EXCEPT ![q] = @ \ new]
        /\ pos' = [pos EXCEPT ![q] =
                      [p \in Partitions |-> IF p \in new THEN lb[q].ckpt[p]
                                                         ELSE @[p]]]
        /\ SetLB(q, [IdleLB EXCEPT
                        !.pc = IF lb[q].cancel = {} THEN "list" ELSE "cancel",
                        !.cancel = lb[q].cancel])
        /\ UNCHANGED <<doc, ingested, status, wk, claim, owned, ownTag, faults>>

LBCancel(q) ==
    /\ lb[q].pc = "cancel"
    /\ ~wk[q].lock
    /\ cancelled' = [cancelled EXCEPT
                        ![q] = @ \union (lb[q].cancel \intersect consumers[q])]
    /\ SetLB(q, IdleLB)
    /\ UNCHANGED <<doc, ingested, status, wk, claim, consumers, pos, owned,
                   ownTag, faults>>

\* An error of the hub or of the store: _process_error(None, err) calls the
\* input's _on_error with no context, which raises; the handler of that raises
\* too, and the thread ends.  Nothing starts another.
LBFails(q) ==
    /\ \/ /\ lb[q].pc = "ids" /\ status[q] = "up"
          /\ Fault("link") /\ UNCHANGED doc
       \/ /\ AtList(q)
          /\ ReadFails /\ UNCHANGED doc
       \/ /\ lb[q].pc = "checkpoints"
          /\ ReadFails /\ UNCHANGED doc
       \/ /\ lb[q].pc = "claim"
          /\ ClaimRaises(q, "lb")
    /\ SetLB(q, [IdleLB EXCEPT !.pc = "dead"])
    /\ SetCall(q, "lb", NoCall)
    /\ UNCHANGED <<ingested, status, wk, consumers, cancelled, pos, owned,
                   ownTag>>

-----------------------------------------------------------------------------
(* The worker thread.                                                      *)

SetWk(q, w) == wk' = [wk EXCEPT ![q] = w]
AtLoop(q) == wk[q].pc = "loop" /\ ~wk[q].lock /\ Running(q)
Closing(q, p) == [wk[q] EXCEPT !.pc = "closing", !.part = p, !.next = 0,
                               !.last = 0, !.snap = NoDoc]
NextRound(q) == [IdleWk EXCEPT !.lock = wk[q].lock]

\* consumer.receive hands the events after its position to the callback.
WkReceive(q, p) ==
    /\ AtLoop(q)
    /\ p \in consumers[q] \ cancelled[q]
    /\ \E k \in pos[q][p] + 1 .. LastOffset :
          SetWk(q, [IdleWk EXCEPT !.pc = "write", !.part = p,
                                  !.next = pos[q][p] + 1, !.last = k])
    /\ UNCHANGED <<doc, ingested, status, lb, claim, consumers, cancelled,
                   pos, owned, ownTag, faults>>

\* Mutant of WkWrite: the last event of a batch is left out.
WkWriteShort(q) ==
    LET w == wk[q]
    IN  /\ w.pc = "write"
        /\ <<w.part, w.next>> \notin Poison
        /\ ingested' = [ingested EXCEPT ![w.part] = @ \union {w.next}]
        /\ SetWk(q, IF w.next + 1 >= w.last THEN [w EXCEPT !.pc = "get"]
                                            ELSE [w EXCEPT !.next = @ + 1])
        /\ UNCHANGED <<doc, status, lb, claim, consumers, cancelled, pos, owned,
                       ownTag, faults>>

\* _on_event_batch: each event in turn goes to Splunk, then the checkpoint.
WkWrite(q) ==
    LET w == wk[q]
    IN  /\ w.pc = "write"
        /\ <<w.part, w.next>> \notin Poison
        /\ ingested' = [ingested EXCEPT ![w.part] = @ \union {w.next}]
        /\ SetWk(q, IF w.next = w.last THEN [w EXCEPT !.pc = "get"]
                                       ELSE [w EXCEPT !.next = @ + 1])
        /\ UNCHANGED <<doc, status, lb, claim, consumers, cancelled, pos, owned,
                       ownTag, faults>>

\* Mutant of WkPoison: the exception ends the worker.
WkPoisonEnds(q) ==
    /\ wk[q].pc = "write"
    /\ <<wk[q].part, wk[q].next>> \in Poison
    /\ SetWk(q, [IdleWk EXCEPT !.pc = "dead"])
    /\ UNCHANGED <<doc, ingested, status, lb, claim, consumers, cancelled, pos,
                   owned, ownTag, faults>>

\* The callback raises on an event: the rest of the batch is not handled.
WkPoison(q) ==
    /\ wk[q].pc = "write"
    /\ <<wk[q].part, wk[q].next>> \in Poison
    /\ SetWk(q, Closing(q, wk[q].part))
    /\ UNCHANGED <<doc, ingested, status, lb, claim, consumers, cancelled, pos,
                   owned, ownTag, faults>>

WkCkptGet(q) ==
    /\ wk[q].pc = "get"
    /\ doc # NoDoc
    /\ SetWk(q, [wk[q] EXCEPT !.pc = "put", !.snap = doc])
    /\ UNCHANGED <<doc, ingested, status, lb, claim, consumers, cancelled, pos,
                   owned, ownTag, faults>>

\* Mutants of CheckpointedDoc: the offset is that of the next event; it goes
\* to the records of all partitions.
CheckpointedDocNext(q) ==
    [wk[q].snap EXCEPT ![wk[q].part] = [@ EXCEPT !.offset = wk[q].last + 1]]
CheckpointedDocAll(q) ==
    [p \in Partitions |-> [wk[q].snap[p] EXCEPT !.offset = wk[q].last]]

CheckpointedDoc(q) ==
    [wk[q].snap EXCEPT ![wk[q].part] = [@ EXCEPT !.offset = wk[q].last]]

\* update_checkpoint writes the whole document back as it was read.  (A
\* consumer's position moves here: one whose callback raised is closed.)
WkCkptPut(q) ==
    /\ wk[q].pc = "put"
    /\ doc' = CheckpointedDoc(q)
    /\ pos' = [pos EXCEPT ![q][wk[q].part] = wk[q].last]
    /\ SetWk(q, NextRound(q))
    /\ UNCHANGED <<ingested, status, lb, claim, consumers, cancelled, owned,
                   ownTag, faults>>

WkCkptFails(q) ==
    /\ \/ /\ wk[q].pc = "get"
          /\ ReadFails /\ UNCHANGED doc
       \/ /\ wk[q].pc = "put"
          /\ WriteFails(CheckpointedDoc(q))
    /\ SetWk(q, Closing(q, wk[q].part))
    /\ UNCHANGED <<ingested, status, lb, claim, consumers, cancelled, pos, owned,
                   ownTag>>

\* The link fails or is stolen: the consumer is closed.
WkReceiveFails(q, p) ==
    /\ AtLoop(q)
    /\ p \in consumers[q] \ cancelled[q]
    /\ Fault("link")
    /\ SetWk(q, Closing(q, p))
    /\ UNCHANGED <<doc, ingested, status, lb, claim, consumers, cancelled, pos,
                   owned, ownTag>>

\* The load balancer has set the consumer's stop flag.
WkStopped(q, p) ==
    /\ AtLoop(q)
    /\ p \in consumers[q] \intersect cancelled[q]
    /\ SetWk(q, Closing(q, p))
    /\ UNCHANGED <<doc, ingested, status, lb, claim, consumers, cancelled, pos,
                   owned, ownTag, faults>>

\* The processor was stopped: under its lock, every consumer is closed.
WkDrain(q) ==
    /\ status[q] = "stopping"
    /\ wk[q].pc = "loop"
    /\ \/ \E p \in consumers[q] : SetWk(q, [Closing(q, p) EXCEPT !.lock = TRUE])
       \/ consumers[q] = {} /\ SetWk(q, [IdleWk EXCEPT !.pc = "done"])
    /\ UNCHANGED <<doc, ingested, status, lb, claim, consumers, cancelled, pos,
                   owned, ownTag, faults>>

\* _close_consumer, and release_ownership of a partition still owned.
WkClose(q) ==
    LET p == wk[q].part
    IN  /\ wk[q].pc = "closing"
        /\ consumers' = [consumers EXCEPT ![q] = @ \ {p}]
        /\ cancelled' = [cancelled EXCEPT ![q] = @ \ {p}]
        /\ owned' = [owned EXCEPT ![q] = @ \ {p}]
        /\ pos' = [pos EXCEPT ![q][p] = 0]
        /\ \/ /\ p \in owned[q]
              /\ SetCall(q, "wk", Call({p}, ownTag[q]))
              /\ SetWk(q, [wk[q] EXCEPT !.pc = "release"])
           \/ /\ p \notin owned[q]
              /\ SetWk(q, NextRound(q))
              /\ UNCHANGED claim
        /\ UNCHANGED <<doc, ingested, status, lb, ownTag, faults>>

WkReleased(q) ==
    /\ wk[q].pc = "release"
    /\ ClaimReturns(q, "wk")
    /\ SetCall(q, "wk", NoCall)
    /\ SetWk(q, NextRound(q))
    /\ UNCHANGED <<doc, ingested, status, lb, consumers, cancelled, pos, owned,
                   ownTag, faults>>

\* A store error in release_ownership leaves start(): the thread ends.
WkReleaseFails(q) ==
    /\ wk[q].pc = "release"
    /\ ClaimRaises(q, "wk")
    /\ SetCall(q, "wk", NoCall)
    /\ SetWk(q, [IdleWk EXCEPT !.pc = "dead"])
    /\ UNCHANGED <<ingested, status, lb, consumers, cancelled, pos, owned, ownTag>>

-----------------------------------------------------------------------------
LBStep(q) ==
    \/ LBIds(q) \/ LBList(q) \/ LBClaimed(q) \/ LBCheckpoints(q)
    \/ LBCreate(q) \/ LBCancel(q) \/ ClaimOpen(q, "lb") \/ ClaimGet(q, "lb")
    \/ ClaimPut(q, "lb")

WkStep(q) ==
    \/ WkWrite(q) \/ WkPoison(q) \/ WkCkptGet(q) \/ WkCkptPut(q)
    \/ \E p \in Partitions : WkStopped(q, p)
    \/ WkDrain(q) \/ WkClose(q) \/ WkReleased(q)
    \/ ClaimOpen(q, "wk") \/ ClaimGet(q, "wk") \/ ClaimPut(q, "wk")

ProcessStep(q) == StartGet(q) \/ StartPut(q) \/ Exit(q)

Failure(q) ==
    \/ StartResized(q) \/ StartFails(q) \/ Crash(q) \/ Stop(q) \/ LBFails(q)
    \/ WkCkptFails(q) \/ WkReleaseFails(q)
    \/ \E p \in Partitions : WkReceiveFails(q, p)

Next ==
    \/ \E q \in Procs :
          \/ ProcessStep(q) \/ LBStep(q) \/ WkStep(q) \/ Failure(q)
          \/ \E p \in Partitions : WkReceive(q, p)
    \/ \E p \in Partitions : Expire(p)
    \/ DeleteDoc

Spec == Init /\ [][Next]_vars

\* The store keeps no lock and the timers run on, so threads that can step do;
\* the worker's loop takes the consumers in turn.  Nothing makes a fault happen.
Fairness ==
    /\ \A q \in Procs :
          /\ WF_vars(ProcessStep(q)) /\ WF_vars(LBStep(q)) /\ WF_vars(WkStep(q))
          /\ \A p \in Partitions : SF_vars(WkReceive(q, p))
    /\ \A p \in Partitions :
          WF_vars(Expire(p) /\ \A q \in Live : doc[p].owner # q)

FairSpec == Spec /\ Fairness

-----------------------------------------------------------------------------
(* Types *)

Tags == [Partitions -> Nat]
Offsets == [Partitions -> 0..LastOffset]
Parts == SUBSET Partitions
Calls == [pc : {"idle", "open", "next", "put"}, todo : Parts, tag : Tags,
          won : Parts, cur : Partitions \union {NoPart},
          snap : Doc \union {NoDoc}]
LBLocals == [pc : {"ids", "first", "list", "claim", "checkpoints", "create",
                   "cancel", "dead"},
             newly : Parts, cancel : Parts, ckpt : Offsets]
WkLocals == [pc : {"loop", "write", "get", "put", "closing", "release",
                   "done", "dead"},
             part : Partitions \union {NoPart}, next : Nat,
             last : 0..LastOffset, snap : Doc \union {NoDoc}, lock : BOOLEAN]

\* Every variable has its type; in particular no offset past the end of a
\* partition is ever stored or read from.
TypeOK ==
    /\ doc \in Doc \union {NoDoc}
    /\ ingested \in [Partitions -> SUBSET (1..LastOffset)]
    /\ status \in [Procs -> {"new", "init", "up", "stopping", "down"}]
    /\ lb \in [Procs -> LBLocals]
    /\ wk \in [Procs -> WkLocals]
    /\ claim \in [Procs -> [Threads -> Calls]]
    /\ consumers \in [Procs -> Parts]
    /\ cancelled \in [Procs -> Parts]
    /\ pos \in [Procs -> Offsets]
    /\ owned \in [Procs -> Parts]
    /\ ownTag \in [Procs -> Tags]
    /\ faults \in 0..MaxFaults

-----------------------------------------------------------------------------
(* Properties *)

Ingested(p, o) == \A i \in 1..o : i \in ingested[p]

\* At least once: the offset stored for a partition, from which the next
\* consumer of it starts, never passes an event that was not written to
\* Splunk, whatever the two threads, two incarnations or a dying process do
\* to the shared document.
CommittedIsIngested ==
    doc # NoDoc => \A p \in Partitions : Ingested(p, doc[p].offset)

\* The input as a whole implements the delivery specification.
Delivery ==
    INSTANCE EventHubDelivery WITH
        committed <- [p \in Partitions |->
                         IF doc = NoDoc THEN 0 ELSE doc[p].offset]
DeliverySpec == Delivery!Spec

\* Crashes, errors of the hub and the store, and lost updates delay events but
\* lose none: every event of every partition ends up in Splunk, unless a
\* process stays for good whose load balancer an error has ended.  An event the
\* handler raises on stops its own partition only, and only from there on,
\* although its consumer is closed, released, claimed and opened again for ever.
BlockedBy(p, i) == \E j \in 1..i : <<p, j>> \in Poison
StaysUnbalanced == <>[](\E q \in Live : lb[q].pc = "dead")
EveryEventIngested ==
    \A p \in Partitions, i \in 1..LastOffset :
       <>(i \in ingested[p] \/ BlockedBy(p, i)) \/ StaysUnbalanced

\* A partition that is being read without the store saying so (its claim was
\* overwritten by a stale document) is claimed again or given up, unless an
\* error has ended the load balancer.
ClaimsHeal ==
    \A q \in Procs, p \in Partitions :
       p \in consumers[q] ~>
          (p \notin consumers[q] \/ (doc # NoDoc /\ doc[p].owner = q)
             \/ lb[q].pc = "dead")

\* event_processor.py:297: a store error while balancing is swallowed "to
\* retry every self._load_balancing_interval seconds".
StoreErrorIsRetried ==
    \A q \in Procs : lb[q].pc = "dead" ~> lb[q].pc # "dead"

\* event_processor.py:406: a stopped processor will "release the ownership of
\* the partitions it is working on": once it has closed the consumer of one, it
\* does not end as its owner.
StopReleases ==
    \A q \in Procs, p \in Partitions :
       []((wk[q].lock /\ wk[q].pc = "closing" /\ wk[q].part = p)
             => [](status[q] = "down" /\ doc # NoDoc
                     => ~(doc[p].owner = q /\ doc[p].fresh)))

\* checkpoint_store.py:71: update_checkpoint stores the offset; it stays
\* stored until a later one replaces it.
CheckpointIsKept ==
    [][(doc # NoDoc /\ doc' # NoDoc)
          => \A p \in Partitions : doc'[p].offset >= doc[p].offset]_vars
=============================================================================
