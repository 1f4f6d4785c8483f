----------------------- MODULE EventHubConsumerProofs -----------------------
(***************************************************************************)
(* Proofs about EventHubConsumer, for every number of processes,           *)
(* partitions and events and every pattern of faults: type correctness,    *)
(* and delivery at least once.                                             *)
(***************************************************************************)
EXTENDS EventHubConsumer, TLAPS

-----------------------------------------------------------------------------
(* Inductive invariants *)

\* What the locals of a thread hold at the points where they are used.
WkOK(w) == /\ w \in WkLocals
           /\ w.pc \in {"write", "get", "put"} => w.part \in Partitions
           /\ w.pc = "write" => w.next \in 1..w.last
           /\ w.pc = "put" => w.snap \in Doc

CallOK(c) == /\ c \in Calls
             /\ c.pc = "put" => c.cur \in Partitions /\ c.snap \in Doc

TypeInv == /\ TypeOK
           /\ \A q \in Procs : WkOK(wk[q])
           /\ \A q \in Procs, t \in Threads : CallOK(claim[q][t])

\* A copy of the document, old or new, holds no offset that was not ingested.
Resumable(d) == d # NoDoc => \A p \in Partitions : Ingested(p, d[p].offset)

\* CommittedIsIngested is not inductive: any of the copies that the threads
\* hold may be written back.  So all of them have the property, and with them
\* every position that an offset is computed from.
WkSafe(w) == /\ Resumable(w.snap)
             /\ w.pc = "write" => Ingested(w.part, w.next - 1)
             /\ w.pc \in {"get", "put"} => Ingested(w.part, w.last)

WorkersSafe == \A q \in Procs : WkSafe(wk[q])
CallsSafe == \A q \in Procs, t \in Threads : Resumable(claim[q][t].snap)
BalancersSafe == \A q \in Procs, p \in Partitions : Ingested(p, lb[q].ckpt[p])
PositionsSafe == \A q \in Procs, p \in Partitions : Ingested(p, pos[q][p])

OffsetsIngested == /\ Resumable(doc)
                   /\ WorkersSafe /\ CallsSafe /\ BalancersSafe /\ PositionsSafe

IInv == TypeInv /\ OffsetsIngested

-----------------------------------------------------------------------------
(* Lemmas about the operators *)

USE OffsetAssumption, BoundAssumption, NamesAssumption, NoDocAssumption

\* The balancer asks for partitions of the hub only.
LEMMA BalanceParts ==
    ASSUME NEW list \in Doc, NEW q, NEW parts \in BalanceOwnership(list, q)
    PROVE  parts \subseteq Partitions
<1>1. DOMAIN list = Partitions
    BY DEF Doc
<1>2. Released(list) \subseteq Partitions
    BY <1>1 DEF Released
<1>3. \A o : ActiveOwnership(list, o) \subseteq Partitions
    BY <1>1 DEF ActiveOwnership
<1>4. QED
    BY <1>2, <1>3 DEF BalanceOwnership, kSubset

\* A new etag is a number.
LEMMA NewEtagType ==
    ASSUME NEW p, NEW except, UnusedTags(p, except) # {}
    PROVE  NewEtag(p, except) \in Nat
BY DEF NewEtag, UnusedTags

\* The empty locals have their types.
LEMMA IdleTypes ==
    /\ IdleLB \in LBLocals /\ NewLB \in LBLocals
    /\ IdleWk \in WkLocals /\ NoCall \in Calls
BY DEF IdleLB, NewLB, IdleWk, NoCall, LBLocals, WkLocals, Calls, Tags, Offsets,
       Parts, NoTags

LEMMA InitialDocType ==
    ASSUME \A p \in Partitions : UnusedTags(p, {}) # {}
    PROVE  InitialDoc \in Doc
BY NewEtagType DEF InitialDoc, Doc, Entry

LEMMA ClaimedDocType ==
    ASSUME TypeInv, NEW q \in Procs, NEW t \in Threads,
           claim[q][t].pc = "put",
           UnusedTags(claim[q][t].cur, {<<q, t>>}) # {}
    PROVE  ClaimedDoc(q, t) \in Doc
<1> DEFINE c == claim[q][t]
<1>1. c.snap \in Doc /\ c.cur \in Partitions
    BY DEF TypeInv, CallOK
<1>2. NewEtag(c.cur, {<<q, t>>}) \in Nat
    BY NewEtagType
<1>3. ClaimedBy(q, t) \in Procs \union {Nobody}
    BY DEF ClaimedBy
<1>4. QED
    BY <1>1, <1>2, <1>3 DEF ClaimedDoc, Doc, Entry

LEMMA CheckpointedDocType ==
    ASSUME TypeInv, NEW q \in Procs, wk[q].pc = "put"
    PROVE  CheckpointedDoc(q) \in Doc
<1>1. wk[q].snap \in Doc /\ wk[q].part \in Partitions
    BY DEF TypeInv, WkOK
<1>2. wk[q].last \in 0..LastOffset
    BY DEF TypeInv, TypeOK, WkLocals
<1>3. QED
    BY <1>1, <1>2 DEF CheckpointedDoc, Doc, Entry

\* Growing old changes neither what a copy of the document is nor its offsets.
LEMMA AgedType ==
    ASSUME NEW d \in Doc \union {NoDoc}, NEW p \in Partitions
    PROVE  /\ Aged(d, p) \in Doc \union {NoDoc}
           /\ Aged(d, p) = NoDoc <=> d = NoDoc
           /\ d # NoDoc => \A r \in Partitions : Aged(d, p)[r].offset = d[r].offset
<1>1. CASE Aged(d, p) = d
    BY <1>1
<1>2. CASE d \in Doc /\ Aged(d, p) = [d EXCEPT ![p] = [@ EXCEPT !.fresh = FALSE]]
    <2>1. Aged(d, p) \in Doc
        BY <1>2 DEF Doc, Entry
    <2>2. \A r \in Partitions : Aged(d, p)[r].offset = d[r].offset
        BY <1>2 DEF Doc, Entry
    <2>3. QED
        BY <1>2, <2>1, <2>2
<1>3. QED
    BY <1>1, <1>2 DEF Aged

-----------------------------------------------------------------------------
(* Type correctness *)

\* Storing locals that are in order keeps the locals of every thread in order.
LEMMA SetWkType ==
    ASSUME TypeInv, NEW q \in Procs, NEW w, WkOK(w), SetWk(q, w)
    PROVE  /\ wk' \in [Procs -> WkLocals]
           /\ \A r \in Procs : WkOK(wk'[r])
<1>1. wk \in [Procs -> WkLocals] /\ w \in WkLocals
    BY DEF TypeInv, TypeOK, WkOK
<1>2. wk' = [wk EXCEPT ![q] = w]
    BY DEF SetWk
<1>3. QED
    BY <1>1, <1>2 DEF TypeInv

LEMMA SetCallType ==
    ASSUME TypeInv, NEW q \in Procs, NEW t \in Threads, NEW c, CallOK(c),
           SetCall(q, t, c)
    PROVE  /\ claim' \in [Procs -> [Threads -> Calls]]
           /\ \A r \in Procs, u \in Threads : CallOK(claim'[r][u])
<1>1. claim \in [Procs -> [Threads -> Calls]] /\ c \in Calls
    BY DEF TypeInv, TypeOK, CallOK
<1>2. claim' = [claim EXCEPT ![q][t] = c]
    BY DEF SetCall
<1>3. QED
    BY <1>1, <1>2 DEF TypeInv

LEMMA SetLBType ==
    ASSUME TypeInv, NEW q \in Procs, NEW l \in LBLocals, SetLB(q, l)
    PROVE  lb' \in [Procs -> LBLocals]
BY DEF TypeInv, TypeOK, SetLB

LEMMA TypeInit == Init => TypeInv
<1> SUFFICES ASSUME Init PROVE TypeInv
    OBVIOUS
<1>1. TypeOK
    BY IdleTypes DEF Init, TypeOK, Offsets, Tags, NoTags, Parts
<1>2. WkOK(IdleWk) /\ CallOK(NoCall)
    BY IdleTypes DEF WkOK, CallOK, IdleWk, NoCall
<1>3. QED
    BY <1>1, <1>2 DEF Init, TypeInv

LEMMA ClosingType ==
    ASSUME TypeInv, NEW q \in Procs, NEW p \in Partitions \union {NoPart}
    PROVE  /\ WkOK(Closing(q, p)) /\ WkOK([Closing(q, p) EXCEPT !.lock = TRUE])
           /\ WkOK(NextRound(q))
<1>1. wk[q] \in WkLocals
    BY DEF TypeInv, TypeOK
<1>2. QED
    BY <1>1, IdleTypes DEF Closing, NextRound, WkOK, WkLocals, IdleWk

LEMMA IdleOK == WkOK(IdleWk) /\ CallOK(NoCall)
BY IdleTypes DEF WkOK, CallOK, IdleWk, NoCall

LEMMA CallType ==
    ASSUME NEW parts \in Parts, NEW tags \in Tags
    PROVE  CallOK(Call(parts, tags))
BY IdleTypes DEF CallOK, Call, Calls, NoCall, Tags

LEMMA TypeStep == TypeInv /\ [Next]_vars => TypeInv'
<1> SUFFICES ASSUME TypeInv, [Next]_vars PROVE TypeInv'
    OBVIOUS
<1> USE IdleTypes, IdleOK DEF localVars
<1>1. ASSUME NEW q \in Procs, StartGet(q) PROVE TypeInv'
    BY <1>1 DEF StartGet, SetStatus, TypeInv, TypeOK
<1>2. ASSUME NEW q \in Procs, StartPut(q) PROVE TypeInv'
    BY <1>2, InitialDocType DEF StartPut, SetStatus, TypeInv, TypeOK
<1>3. ASSUME NEW q \in Procs, StartFails(q) PROVE TypeInv'
    BY <1>3, InitialDocType
    DEF StartFails, SetStatus, Fault, WriteFails, TypeInv, TypeOK
<1>4. ASSUME NEW q \in Procs, Down(q), faults' \in 0..MaxFaults PROVE TypeInv'
    <2>1. NoTags \in Offsets /\ NoTags \in Tags /\ {} \in Parts
        BY DEF NoTags, Offsets, Tags, Parts
    <2>2. TypeOK'
        BY <1>4, <2>1 DEF Down, SetStatus, TypeInv, TypeOK
    <2>3. \A r \in Procs : wk'[r] \in {wk[r], IdleWk}
        BY <1>4 DEF Down, TypeInv, TypeOK
    <2>4. \A r \in Procs, t \in Threads : claim'[r][t] \in {claim[r][t], NoCall}
        BY <1>4 DEF Down, TypeInv, TypeOK
    <2>5. QED
        BY <2>2, <2>3, <2>4 DEF TypeInv
<1>5. ASSUME NEW q \in Procs, Crash(q) PROVE TypeInv'
    BY <1>4, <1>5 DEF Crash, Fault, TypeInv, TypeOK
<1>6. ASSUME NEW q \in Procs, Exit(q) PROVE TypeInv'
    BY <1>4, <1>6 DEF Exit, TypeInv, TypeOK
<1>7. ASSUME NEW q \in Procs, Stop(q) PROVE TypeInv'
    BY <1>7 DEF Stop, SetStatus, Fault, TypeInv, TypeOK
<1>8. ASSUME NEW p \in Partitions, Expire(p) PROVE TypeInv'
    <2>1. doc' \in Doc \union {NoDoc}
        BY <1>8, AgedType DEF Expire, TypeInv, TypeOK
    <2>2. owned' \in [Procs -> Parts]
        BY <1>8 DEF Expire, TypeInv, TypeOK, Parts
    <2>3. ASSUME NEW q \in Procs
          PROVE  WkOK([wk[q] EXCEPT !.snap = Aged(@, p)])
        BY AgedType DEF TypeInv, WkOK, WkLocals
    <2>4. wk' = [q \in Procs |-> [wk[q] EXCEPT !.snap = Aged(@, p)]]
        BY <1>8 DEF Expire
    <2>5. wk' \in [Procs -> WkLocals] /\ \A q \in Procs : WkOK(wk'[q])
        BY <2>3, <2>4 DEF WkOK
    <2>6. ASSUME NEW q \in Procs, NEW t \in Threads
          PROVE  CallOK([claim[q][t] EXCEPT !.snap = Aged(@, p)])
        BY AgedType DEF TypeInv, CallOK, Calls
    <2>7. claim' = [q \in Procs |-> [t \in Threads |->
                       [claim[q][t] EXCEPT !.snap = Aged(@, p)]]]
        BY <1>8 DEF Expire
    <2>8. /\ claim' \in [Procs -> [Threads -> Calls]]
          /\ \A q \in Procs, t \in Threads : CallOK(claim'[q][t])
        BY <2>6, <2>7 DEF CallOK
    <2>9. QED
        BY <1>8, <2>1, <2>2, <2>5, <2>8 DEF Expire, TypeInv, TypeOK
<1>9. CASE DeleteDoc
    BY <1>9 DEF DeleteDoc, Fault, TypeInv, TypeOK
<1>10. ASSUME NEW q \in Procs, NEW t \in Threads, ClaimOpen(q, t) PROVE TypeInv'
    <2> DEFINE c == claim[q][t]
               new == [c EXCEPT !.pc = "next",
                         !.todo = {p \in c.todo : doc[p].etag = c.tag[p]},
                         !.tag = [p \in Partitions |->
                                     IF doc[p].etag = c.tag[p] THEN c.tag[p] ELSE 0]]
    <2>1. c \in Calls
        BY DEF TypeInv, TypeOK
    <2>2. CallOK(new)
        BY <2>1 DEF CallOK, Calls, Tags, Parts
    <2>3. SetCall(q, t, new)
        BY <1>10 DEF ClaimOpen
    <2>4. QED
        BY <1>10, <2>2, <2>3, SetCallType DEF ClaimOpen, TypeInv, TypeOK
<1>11. ASSUME NEW q \in Procs, NEW t \in Threads, ClaimGet(q, t) PROVE TypeInv'
    <2> DEFINE c == claim[q][t]
    <2>1. PICK p \in c.todo :
              SetCall(q, t, [c EXCEPT !.pc = "put", !.cur = p, !.snap = doc])
        BY <1>11 DEF ClaimGet
    <2>2. c \in Calls /\ doc \in Doc
        BY <1>11 DEF ClaimGet, TypeInv, TypeOK
    <2>3. CallOK([c EXCEPT !.pc = "put", !.cur = p, !.snap = doc])
        BY <2>2 DEF CallOK, Calls, Parts
    <2>4. QED
        BY <1>11, <2>1, <2>3, SetCallType DEF ClaimGet, TypeInv, TypeOK
<1>12. ASSUME NEW q \in Procs, NEW t \in Threads, ClaimPut(q, t) PROVE TypeInv'
    <2> DEFINE c == claim[q][t]
               new == [c EXCEPT !.pc = "next", !.todo = @ \ {c.cur},
                         !.won = @ \union {c.cur},
                         !.tag[c.cur] = NewEtag(c.cur, {<<q, t>>}),
                         !.cur = NoPart, !.snap = NoDoc]
    <2>1. c \in Calls /\ c.cur \in Partitions
        BY <1>12 DEF ClaimPut, TypeInv, TypeOK, CallOK
    <2>2. NewEtag(c.cur, {<<q, t>>}) \in Nat
        BY <1>12, NewEtagType DEF ClaimPut
    <2>3. CallOK(new)
        BY <2>1, <2>2 DEF CallOK, Calls, Tags, Parts
    <2>4. SetCall(q, t, new)
        BY <1>12 DEF ClaimPut
    <2>5. doc' \in Doc
        BY <1>12, ClaimedDocType DEF ClaimPut
    <2>6. QED
        BY <1>12, <2>3, <2>4, <2>5, SetCallType DEF ClaimPut, TypeInv, TypeOK
<1>12a. ASSUME NEW q \in Procs, LBIds(q) PROVE TypeInv'
    <2>1. [IdleLB EXCEPT !.pc = "first"] \in LBLocals
        BY DEF LBLocals
    <2>2. QED
        BY <1>12a, <2>1, SetLBType DEF LBIds, TypeInv, TypeOK
<1>13. ASSUME NEW q \in Procs, LBList(q) PROVE TypeInv'
    <2>1. doc \in Doc
        BY <1>13 DEF LBList, TypeInv, TypeOK
    <2>2. PICK parts \in BalanceOwnership(doc, q) :
              \/ /\ SetLB(q, [IdleLB EXCEPT !.pc = "claim"])
                 /\ SetCall(q, "lb", Call(parts, [p \in Partitions |-> doc[p].etag]))
                 /\ UNCHANGED owned
              \/ /\ SetLB(q, [IdleLB EXCEPT !.pc = "cancel",
                                            !.cancel = consumers[q]])
                 /\ owned' = [owned EXCEPT ![q] = {}]
                 /\ UNCHANGED claim
        BY <1>13 DEF LBList
    <2>3. parts \in Parts /\ {} \in Parts /\ consumers[q] \in Parts
        BY <2>1, <2>2, BalanceParts DEF Parts, TypeInv, TypeOK
    <2>4. [p \in Partitions |-> doc[p].etag] \in Tags
        BY <2>1 DEF Doc, Entry, Tags
    <2>5. [IdleLB EXCEPT !.pc = "claim"] \in LBLocals
        BY DEF LBLocals
    <2>6. [IdleLB EXCEPT !.pc = "cancel", !.cancel = consumers[q]] \in LBLocals
        BY <2>3 DEF LBLocals
    <2>7. lb' \in [Procs -> LBLocals]
        BY <2>2, <2>5, <2>6, SetLBType
    <2>8. owned' \in [Procs -> Parts]
        BY <2>2, <2>3 DEF TypeInv, TypeOK
    <2>9. /\ claim' \in [Procs -> [Threads -> Calls]]
          /\ \A r \in Procs, u \in Threads : CallOK(claim'[r][u])
        <3>1. CASE UNCHANGED claim
            BY <3>1 DEF TypeInv, TypeOK
        <3>2. CASE SetCall(q, "lb", Call(parts, [p \in Partitions |-> doc[p].etag]))
            BY <3>2, <2>3, <2>4, CallType, SetCallType DEF Threads
        <3>3. QED
            BY <2>2, <3>1, <3>2
    <2>10. QED
        BY <1>13, <2>7, <2>8, <2>9 DEF LBList, TypeInv, TypeOK
<1>14. ASSUME NEW q \in Procs, LBClaimed(q) PROVE TypeInv'
    <2> DEFINE won == claim[q]["lb"].won
               new == won \ consumers[q]
               pc == IF new # {} THEN "checkpoints"
                     ELSE IF consumers[q] \subseteq won THEN "list"
                     ELSE "cancel"
               l == [IdleLB EXCEPT !.pc = pc, !.newly = new,
                                   !.cancel = consumers[q] \ won]
    <2>1. claim[q]["lb"] \in Calls /\ consumers[q] \in Parts
        BY DEF TypeInv, TypeOK, Threads
    <2>2. won \in Parts /\ claim[q]["lb"].tag \in Tags
        BY <2>1 DEF Calls
    <2>3. l \in LBLocals
        BY <2>1, <2>2 DEF LBLocals, Parts
    <2>4. lb' \in [Procs -> LBLocals]
        BY <1>14, <2>3, SetLBType DEF LBClaimed
    <2>5. owned' \in [Procs -> Parts] /\ ownTag' \in [Procs -> Tags]
        BY <1>14, <2>2 DEF LBClaimed, TypeInv, TypeOK
    <2>6. SetCall(q, "lb", NoCall)
        BY <1>14 DEF LBClaimed
    <2>7. QED
        BY <1>14, <2>4, <2>5, <2>6, SetCallType
        DEF LBClaimed, TypeInv, TypeOK, Threads
<1>15. ASSUME NEW q \in Procs, LBCheckpoints(q) PROVE TypeInv'
    <2> DEFINE ckpt == [p \in Partitions |->
                           IF p \in lb[q].newly THEN doc[p].offset ELSE 0]
    <2>1. doc \in Doc /\ lb[q] \in LBLocals
        BY <1>15 DEF LBCheckpoints, TypeInv, TypeOK
    <2>2. ckpt \in Offsets
        BY <2>1 DEF Doc, Entry, Offsets
    <2>3. [lb[q] EXCEPT !.pc = "create", !.ckpt = ckpt] \in LBLocals
        BY <2>1, <2>2 DEF LBLocals
    <2>4. lb' \in [Procs -> LBLocals]
        BY <1>15, <2>3, SetLBType DEF LBCheckpoints
    <2>5. QED
        BY <1>15, <2>4 DEF LBCheckpoints, TypeInv, TypeOK
<1>16. ASSUME NEW q \in Procs, LBCreate(q) PROVE TypeInv'
    <2> DEFINE l == [IdleLB EXCEPT
                        !.pc = IF lb[q].cancel = {} THEN "list" ELSE "cancel",
                        !.cancel = lb[q].cancel]
    <2>1. lb[q] \in LBLocals
        BY DEF TypeInv, TypeOK
    <2>2. l \in LBLocals /\ lb[q].newly \in Parts /\ lb[q].ckpt \in Offsets
        BY <2>1 DEF LBLocals
    <2>3. lb' \in [Procs -> LBLocals]
        BY <1>16, <2>2, SetLBType DEF LBCreate
    <2>4. consumers' \in [Procs -> Parts] /\ cancelled' \in [Procs -> Parts]
        BY <1>16, <2>2 DEF LBCreate, TypeInv, TypeOK, Parts
    <2>5. pos' \in [Procs -> Offsets]
        BY <1>16, <2>2 DEF LBCreate, TypeInv, TypeOK, Offsets
    <2>6. QED
        BY <1>16, <2>3, <2>4, <2>5 DEF LBCreate, TypeInv, TypeOK
<1>17. ASSUME NEW q \in Procs, LBCancel(q) PROVE TypeInv'
    <2>1. lb' \in [Procs -> LBLocals]
        BY <1>17, SetLBType DEF LBCancel
    <2>2. cancelled' \in [Procs -> Parts]
        BY <1>17 DEF LBCancel, TypeInv, TypeOK, Parts
    <2>3. QED
        BY <1>17, <2>1, <2>2 DEF LBCancel, TypeInv, TypeOK
<1>18. ASSUME NEW q \in Procs, NEW t \in Threads, ClaimRaises(q, t)
       PROVE  doc' \in Doc \union {NoDoc} /\ faults' \in 0..MaxFaults
    <2>1. doc \in Doc \union {NoDoc} /\ faults \in 0..MaxFaults
        BY DEF TypeInv, TypeOK
    <2>2. CASE ReadFails /\ UNCHANGED doc
        BY <2>1, <2>2 DEF ReadFails, Fault
    <2>3. CASE /\ claim[q][t].pc = "put"
               /\ UnusedTags(claim[q][t].cur, {<<q, t>>}) # {}
               /\ WriteFails(ClaimedDoc(q, t))
        <3>1. ClaimedDoc(q, t) \in Doc
            BY <2>3, ClaimedDocType
        <3>2. QED
            BY <2>1, <2>3, <3>1 DEF WriteFails, Fault
    <2>4. QED
        BY <1>18, <2>2, <2>3 DEF ClaimRaises
<1>19. ASSUME NEW q \in Procs, LBFails(q) PROVE TypeInv'
    <2>1. [IdleLB EXCEPT !.pc = "dead"] \in LBLocals
        BY DEF LBLocals
    <2>2. lb' \in [Procs -> LBLocals]
        BY <1>19, <2>1, SetLBType DEF LBFails
    <2>3. doc' \in Doc \union {NoDoc} /\ faults' \in 0..MaxFaults
        BY <1>18, <1>19 DEF LBFails, ReadFails, Fault, TypeInv, TypeOK, Threads
    <2>4. SetCall(q, "lb", NoCall)
        BY <1>19 DEF LBFails
    <2>5. QED
        BY <1>19, <2>2, <2>3, <2>4, SetCallType
        DEF LBFails, TypeInv, TypeOK, Threads
<1>20. ASSUME NEW q \in Procs, NEW p \in Partitions, WkReceive(q, p)
       PROVE  TypeInv'
    <2>1. PICK k \in pos[q][p] + 1 .. LastOffset :
              SetWk(q, [IdleWk EXCEPT !.pc = "write", !.part = p,
                                      !.next = pos[q][p] + 1, !.last = k])
        BY <1>20 DEF WkReceive
    <2>2. pos[q][p] \in 0..LastOffset
        BY DEF TypeInv, TypeOK, Offsets
    <2>3. /\ k \in 0..LastOffset
          /\ pos[q][p] + 1 \in Nat /\ pos[q][p] + 1 \in 1..k
        BY <2>1, <2>2
    <2>4. WkOK([IdleWk EXCEPT !.pc = "write", !.part = p,
                              !.next = pos[q][p] + 1, !.last = k])
        BY <2>3 DEF WkOK, WkLocals, IdleWk
    <2>5. QED
        BY <1>20, <2>1, <2>4, SetWkType DEF WkReceive, TypeInv, TypeOK
<1>21. ASSUME NEW q \in Procs, WkWrite(q) PROVE TypeInv'
    <2> DEFINE w == wk[q]
               new == IF w.next = w.last THEN [w EXCEPT !.pc = "get"]
                                         ELSE [w EXCEPT !.next = @ + 1]
    <2>1. WkOK(w) /\ w.pc = "write"
        BY <1>21 DEF WkWrite, TypeInv
    <2>2. /\ w.part \in Partitions /\ w.last \in 0..LastOffset
          /\ w.next \in 1..w.last /\ w.next \in 1..LastOffset
        BY <2>1 DEF WkOK, WkLocals
    <2>3. WkOK(new)
        BY <2>1, <2>2 DEF WkOK, WkLocals
    <2>4. SetWk(q, new)
        BY <1>21 DEF WkWrite
    <2>5. ingested' \in [Partitions -> SUBSET (1..LastOffset)]
        BY <1>21, <2>2 DEF WkWrite, TypeInv, TypeOK
    <2>6. QED
        BY <1>21, <2>3, <2>4, <2>5, SetWkType DEF WkWrite, TypeInv, TypeOK
<1>22. ASSUME NEW q \in Procs
       PROVE  wk[q].part \in Partitions \union {NoPart}
    BY DEF TypeInv, TypeOK, WkLocals
<1>23. ASSUME NEW q \in Procs, WkPoison(q) PROVE TypeInv'
    BY <1>22, <1>23, ClosingType, SetWkType DEF WkPoison, TypeInv, TypeOK
<1>24. ASSUME NEW q \in Procs, WkCkptGet(q) PROVE TypeInv'
    <2>1. WkOK(wk[q]) /\ doc \in Doc
        BY <1>24 DEF WkCkptGet, TypeInv, TypeOK
    <2>2. WkOK([wk[q] EXCEPT !.pc = "put", !.snap = doc])
        BY <1>24, <2>1 DEF WkCkptGet, WkOK, WkLocals
    <2>3. QED
        BY <1>24, <2>2, SetWkType DEF WkCkptGet, TypeInv, TypeOK
<1>25. ASSUME NEW q \in Procs, WkCkptPut(q) PROVE TypeInv'
    <2>1. doc' \in Doc
        BY <1>25, CheckpointedDocType DEF WkCkptPut
    <2>2. wk[q].last \in 0..LastOffset
        BY DEF TypeInv, TypeOK, WkLocals
    <2>3. pos' \in [Procs -> Offsets]
        BY <1>25, <2>2 DEF WkCkptPut, TypeInv, TypeOK, Offsets
    <2>4. QED
        BY <1>25, <2>1, <2>3, ClosingType, SetWkType
        DEF WkCkptPut, TypeInv, TypeOK
<1>26. ASSUME NEW q \in Procs, WkCkptFails(q) PROVE TypeInv'
    <2>1. doc' \in Doc \union {NoDoc} /\ faults' \in 0..MaxFaults
        BY <1>26, CheckpointedDocType
        DEF WkCkptFails, ReadFails, WriteFails, Fault, TypeInv, TypeOK
    <2>2. QED
        BY <1>22, <1>26, <2>1, ClosingType, SetWkType
        DEF WkCkptFails, TypeInv, TypeOK
<1>27. ASSUME NEW q \in Procs, NEW p \in Partitions, WkReceiveFails(q, p)
       PROVE  TypeInv'
    <2>1. faults' \in 0..MaxFaults
        BY <1>27 DEF WkReceiveFails, Fault, TypeInv, TypeOK
    <2>2. QED
        BY <1>27, <2>1, ClosingType, SetWkType DEF WkReceiveFails, TypeInv, TypeOK
<1>28. ASSUME NEW q \in Procs, NEW p \in Partitions, WkStopped(q, p)
       PROVE  TypeInv'
    BY <1>28, ClosingType, SetWkType DEF WkStopped, TypeInv, TypeOK
<1>29. ASSUME NEW q \in Procs, WkDrain(q) PROVE TypeInv'
    <2>1. WkOK([IdleWk EXCEPT !.pc = "done"])
        BY DEF WkOK, WkLocals
    <2>2. consumers[q] \subseteq Partitions
        BY DEF TypeInv, TypeOK, Parts
    <2>3. PICK w : WkOK(w) /\ SetWk(q, w)
        BY <1>29, <2>1, <2>2, ClosingType DEF WkDrain
    <2>4. QED
        BY <1>29, <2>3, SetWkType DEF WkDrain, TypeInv, TypeOK
<1>30. ASSUME NEW q \in Procs, WkClose(q) PROVE TypeInv'
    <2> DEFINE p == wk[q].part
    <2>1. /\ consumers' \in [Procs -> Parts] /\ cancelled' \in [Procs -> Parts]
          /\ owned' \in [Procs -> Parts]
        BY <1>30 DEF WkClose, TypeInv, TypeOK, Parts
    <2>2. pos' \in [Procs -> Offsets]
        <3>1. 0 \in 0..LastOffset
            OBVIOUS
        <3>2. \A f \in Offsets : \A r : [f EXCEPT ![r] = 0] \in Offsets
            BY <3>1, Zenon DEF Offsets
        <3>3. pos \in [Procs -> Offsets]
            BY DEF TypeInv, TypeOK
        <3>4. pos' = [pos EXCEPT ![q] = [pos[q] EXCEPT ![p] = 0]]
            BY <1>30, <3>3 DEF WkClose
        <3>5. QED
            BY <3>2, <3>3, <3>4
    <2>3. CASE p \in owned[q]
        <3>1. {p} \in Parts /\ ownTag[q] \in Tags
            BY <2>3 DEF TypeInv, TypeOK, Parts
        <3>2. WkOK([wk[q] EXCEPT !.pc = "release"])
            BY DEF TypeInv, WkOK, WkLocals
        <3>3. /\ SetCall(q, "wk", Call({p}, ownTag[q]))
              /\ SetWk(q, [wk[q] EXCEPT !.pc = "release"])
            BY <1>30, <2>3 DEF WkClose
        <3>4. CallOK(Call({p}, ownTag[q]))
            BY <3>1, CallType
        <3>5. QED
            BY <1>30, <2>1, <2>2, <3>2, <3>3, <3>4, SetWkType, SetCallType
            DEF WkClose, TypeInv, TypeOK, Threads
    <2>4. CASE p \notin owned[q]
        BY <1>30, <2>1, <2>2, <2>4, ClosingType, SetWkType
        DEF WkClose, TypeInv, TypeOK
    <2>5. QED
        BY <2>3, <2>4
<1>31. ASSUME NEW q \in Procs, WkReleased(q) PROVE TypeInv'
    BY <1>31, ClosingType, SetWkType, SetCallType
    DEF WkReleased, TypeInv, TypeOK, Threads
<1>32. ASSUME NEW q \in Procs, WkReleaseFails(q) PROVE TypeInv'
    <2>1. WkOK([IdleWk EXCEPT !.pc = "dead"])
        BY DEF WkOK, WkLocals
    <2>2. doc' \in Doc \union {NoDoc} /\ faults' \in 0..MaxFaults
        BY <1>18, <1>32 DEF WkReleaseFails, Threads
    <2>3. QED
        BY <1>32, <2>1, <2>2, SetWkType, SetCallType
        DEF WkReleaseFails, TypeInv, TypeOK, Threads
<1>33. ASSUME NEW q \in Procs, StartResized(q) PROVE TypeInv'
    BY <1>33 DEF StartResized, SetStatus, Fault, TypeInv, TypeOK
<1>34. CASE UNCHANGED vars
    BY <1>34 DEF vars, TypeInv, TypeOK
<1>35. QED
    BY <1>1, <1>2, <1>3, <1>5, <1>6, <1>7, <1>8, <1>9, <1>10, <1>11, <1>12,
       <1>12a, <1>13, <1>14, <1>15, <1>16, <1>17, <1>19, <1>20, <1>21, <1>23, <1>24,
       <1>25, <1>26, <1>27, <1>28, <1>29, <1>30, <1>31, <1>32, <1>33, <1>34
    DEF Next, ProcessStep, LBStep, WkStep, Failure, Threads

\* Every variable keeps its type, whatever the number of processes,
\* partitions, events and faults.
THEOREM TypeCorrect == Spec => []TypeOK
<1>1. TypeInv => TypeOK
    BY DEF TypeInv
<1>2. QED
    BY <1>1, TypeInit, TypeStep, PTL DEF Spec

-----------------------------------------------------------------------------
(* Delivery at least once *)

\* Nothing is behind position 0.
LEMMA NothingBefore == \A p : Ingested(p, 0)
BY DEF Ingested

\* While nothing is ingested, what a variable holds stays as good as it was.
LEMMA PartsKept ==
    ASSUME OffsetsIngested, UNCHANGED ingested
    PROVE  /\ UNCHANGED doc => Resumable(doc)'
           /\ UNCHANGED wk => WorkersSafe'
           /\ UNCHANGED claim => CallsSafe'
           /\ UNCHANGED lb => BalancersSafe'
           /\ UNCHANGED pos => PositionsSafe'
BY DEF OffsetsIngested, Resumable, Ingested, WorkersSafe, WkSafe, CallsSafe,
       BalancersSafe, PositionsSafe

LEMMA SetDocSafe ==
    ASSUME UNCHANGED ingested, NEW d, Resumable(d), doc' = d
    PROVE  Resumable(doc)'
BY DEF Resumable, Ingested

LEMMA SetWkSafe ==
    ASSUME TypeInv, OffsetsIngested, UNCHANGED ingested, NEW q \in Procs,
           NEW w, WkSafe(w), SetWk(q, w)
    PROVE  WorkersSafe'
<1>1. \A r \in Procs : wk'[r] = IF r = q THEN w ELSE wk[r]
    BY DEF SetWk, TypeInv, TypeOK
<1>2. \A r \in Procs : WkSafe(wk'[r])
    BY <1>1 DEF OffsetsIngested, WorkersSafe
<1>3. QED
    BY <1>2 DEF WorkersSafe, WkSafe, Resumable, Ingested

LEMMA SetCallSafe ==
    ASSUME TypeInv, OffsetsIngested, UNCHANGED ingested, NEW q \in Procs,
           NEW t \in Threads, NEW c, Resumable(c.snap), SetCall(q, t, c)
    PROVE  CallsSafe'
<1>1. \A r \in Procs, u \in Threads :
          claim'[r][u] = IF r = q /\ u = t THEN c ELSE claim[r][u]
    BY DEF SetCall, TypeInv, TypeOK
<1>2. \A r \in Procs, u \in Threads : Resumable(claim'[r][u].snap)
    BY <1>1 DEF OffsetsIngested, CallsSafe
<1>3. QED
    BY <1>2 DEF CallsSafe, Resumable, Ingested

LEMMA SetLBSafe ==
    ASSUME TypeInv, OffsetsIngested, UNCHANGED ingested, NEW q \in Procs,
           NEW l, \A p \in Partitions : Ingested(p, l.ckpt[p]), SetLB(q, l)
    PROVE  BalancersSafe'
<1>1. \A r \in Procs : lb'[r] = IF r = q THEN l ELSE lb[r]
    BY DEF SetLB, TypeInv, TypeOK
<1>2. \A r \in Procs, p \in Partitions : Ingested(p, lb'[r].ckpt[p])
    BY <1>1 DEF OffsetsIngested, BalancersSafe
<1>3. QED
    BY <1>2 DEF BalancersSafe, Ingested

LEMMA SetPosSafe ==
    ASSUME UNCHANGED ingested,
           \A r \in Procs, p \in Partitions : Ingested(p, pos'[r][p])
    PROVE  PositionsSafe'
BY DEF PositionsSafe, Ingested

\* Locals that hold no document and no position.
LEMMA IdleSafe ==
    ASSUME NEW q, NEW p
    PROVE  /\ WkSafe(IdleWk) /\ WkSafe([IdleWk EXCEPT !.pc = "done"])
           /\ WkSafe([IdleWk EXCEPT !.pc = "dead"])
           /\ WkSafe(NextRound(q))
           /\ Resumable(NoCall.snap)
<1>1. Resumable(NoDoc)
    BY DEF Resumable
<1>2. QED
    BY <1>1 DEF WkSafe, IdleWk, NextRound, NoCall

LEMMA ClosingSafe ==
    ASSUME TypeInv, NEW q \in Procs, NEW p
    PROVE  /\ WkSafe(Closing(q, p))
           /\ WkSafe([Closing(q, p) EXCEPT !.lock = TRUE])
<1>1. Resumable(NoDoc) /\ wk[q] \in WkLocals
    BY DEF Resumable, TypeInv, TypeOK
<1>2. QED
    BY <1>1 DEF WkSafe, Closing, WkLocals

LEMMA IdleLBSafe ==
    \A p \in Partitions : Ingested(p, IdleLB.ckpt[p]) /\ Ingested(p, NewLB.ckpt[p])
BY NothingBefore DEF IdleLB, NewLB, NoTags

\* The documents the program stores.
LEMMA StoredSafe ==
    ASSUME TypeInv, OffsetsIngested, NEW q \in Procs
    PROVE  /\ Resumable(InitialDoc)
           /\ \A t \in Threads :
                 claim[q][t].pc = "put" => Resumable(ClaimedDoc(q, t))
           /\ wk[q].pc = "put" => Resumable(CheckpointedDoc(q))
<1>1. Resumable(InitialDoc)
    BY NothingBefore DEF Resumable, InitialDoc
<1>2. ASSUME NEW t \in Threads, claim[q][t].pc = "put"
      PROVE  Resumable(ClaimedDoc(q, t))
    <2> DEFINE c == claim[q][t]
    <2>1. c.snap \in Doc /\ c.cur \in Partitions /\ Resumable(c.snap)
        BY <1>2 DEF TypeInv, CallOK, OffsetsIngested, CallsSafe
    <2>2. \A p \in Partitions : ClaimedDoc(q, t)[p].offset = c.snap[p].offset
        BY <2>1 DEF ClaimedDoc, Doc, Entry
    <2>3. QED
        BY <2>1, <2>2 DEF Resumable
<1>3. ASSUME wk[q].pc = "put" PROVE Resumable(CheckpointedDoc(q))
    <2>1. /\ wk[q].snap \in Doc /\ wk[q].part \in Partitions
          /\ Resumable(wk[q].snap) /\ Ingested(wk[q].part, wk[q].last)
        BY <1>3 DEF TypeInv, WkOK, OffsetsIngested, WorkersSafe, WkSafe
    <2>2. \A p \in Partitions : CheckpointedDoc(q)[p].offset =
              IF p = wk[q].part THEN wk[q].last ELSE wk[q].snap[p].offset
        BY <2>1 DEF CheckpointedDoc, Doc, Entry
    <2>3. QED
        BY <2>1, <2>2 DEF Resumable
<1>4. QED
    BY <1>1, <1>2, <1>3

LEMMA OffsetsInit == Init => OffsetsIngested
<1> SUFFICES ASSUME Init PROVE OffsetsIngested
    OBVIOUS
<1>1. Resumable(doc)
    BY DEF Init, Resumable
<1>2. WorkersSafe /\ CallsSafe
    BY IdleSafe DEF Init, WorkersSafe, CallsSafe
<1>3. BalancersSafe /\ PositionsSafe
    BY NothingBefore, IdleLBSafe DEF Init, BalancersSafe, PositionsSafe, NoTags
<1>4. QED
    BY <1>1, <1>2, <1>3 DEF OffsetsIngested

LEMMA OffsetsStep == IInv /\ [Next]_vars => OffsetsIngested'
<1> SUFFICES ASSUME TypeInv, OffsetsIngested, [Next]_vars
             PROVE  OffsetsIngested'
    BY DEF IInv
<1> USE PartsKept DEF localVars
<1>1. ASSUME UNCHANGED ingested, UNCHANGED <<wk, claim, lb, pos>>, Resumable(doc)'
      PROVE  OffsetsIngested'
    BY <1>1 DEF OffsetsIngested
<1>2. ASSUME NEW q \in Procs, StartGet(q) PROVE OffsetsIngested'
    BY <1>1, <1>2 DEF StartGet
<1>3. ASSUME NEW q \in Procs, StartPut(q) PROVE OffsetsIngested'
    BY <1>1, <1>3, StoredSafe, SetDocSafe DEF StartPut
<1>4. ASSUME NEW q \in Procs, StartFails(q) PROVE OffsetsIngested'
    <2>1. CASE UNCHANGED doc
        BY <1>1, <1>4, <2>1 DEF StartFails
    <2>2. CASE doc' = InitialDoc
        BY <1>1, <1>4, <2>2, StoredSafe, SetDocSafe DEF StartFails
    <2>3. QED
        BY <1>4, <2>1, <2>2 DEF StartFails, WriteFails
<1>5. ASSUME NEW q \in Procs, Down(q) PROVE OffsetsIngested'
    <2>1. \A r \in Procs : /\ wk'[r] \in {wk[r], IdleWk}
                           /\ lb'[r] \in {lb[r], NewLB}
                           /\ pos'[r] \in {pos[r], NoTags}
        BY <1>5 DEF Down, TypeInv, TypeOK
    <2>2. \A r \in Procs, t \in Threads : claim'[r][t] \in {claim[r][t], NoCall}
        BY <1>5 DEF Down, TypeInv, TypeOK
    <2>3. UNCHANGED <<doc, ingested>>
        BY <1>5 DEF Down
    <2>4. WorkersSafe'
        <3>1. \A r \in Procs : WkSafe(wk'[r])
            BY <2>1, IdleSafe DEF OffsetsIngested, WorkersSafe
        <3>2. QED
            BY <2>3, <3>1 DEF WorkersSafe, WkSafe, Resumable, Ingested
    <2>5. CallsSafe'
        <3>1. \A r \in Procs, t \in Threads : Resumable(claim'[r][t].snap)
            BY <2>2, IdleSafe DEF OffsetsIngested, CallsSafe
        <3>2. QED
            BY <2>3, <3>1 DEF CallsSafe, Resumable, Ingested
    <2>6. BalancersSafe'
        <3>1. \A r \in Procs, p \in Partitions : Ingested(p, lb'[r].ckpt[p])
            BY <2>1, IdleLBSafe DEF OffsetsIngested, BalancersSafe
        <3>2. QED
            BY <2>3, <3>1 DEF BalancersSafe, Ingested
    <2>7. PositionsSafe'
        <3>1. \A r \in Procs, p \in Partitions : Ingested(p, pos'[r][p])
            BY <2>1, NothingBefore DEF OffsetsIngested, PositionsSafe, NoTags
        <3>2. QED
            BY <2>3, <3>1, SetPosSafe
    <2>8. QED
        BY <2>3, <2>4, <2>5, <2>6, <2>7 DEF OffsetsIngested
<1>6. ASSUME NEW q \in Procs, Crash(q) \/ Exit(q) PROVE OffsetsIngested'
    BY <1>5, <1>6 DEF Crash, Exit
<1>7. ASSUME NEW q \in Procs, Stop(q) PROVE OffsetsIngested'
    BY <1>1, <1>7 DEF Stop
<1>8. ASSUME NEW p \in Partitions, Expire(p) PROVE OffsetsIngested'
    <2>1. UNCHANGED <<ingested, lb, pos>>
        BY <1>8 DEF Expire
    <2>2. ASSUME NEW d \in Doc \union {NoDoc}, Resumable(d)
          PROVE  Resumable(Aged(d, p))
        BY <2>2, AgedType DEF Resumable
    <2>3. Resumable(doc)'
        <3>1. doc' = Aged(doc, p) /\ doc \in Doc \union {NoDoc}
            BY <1>8 DEF Expire, TypeInv, TypeOK
        <3>2. QED
            BY <2>1, <2>2, <3>1, SetDocSafe DEF OffsetsIngested
    <2>4. WorkersSafe'
        <3>1. \A q \in Procs : WkSafe(wk'[q])
            <4>1. SUFFICES ASSUME NEW q \in Procs PROVE WkSafe(wk'[q])
                OBVIOUS
            <4>2. wk'[q] = [wk[q] EXCEPT !.snap = Aged(@, p)]
                BY <1>8 DEF Expire
            <4>3. wk[q] \in WkLocals /\ WkSafe(wk[q])
                BY DEF TypeInv, TypeOK, OffsetsIngested, WorkersSafe
            <4>4. QED
                BY <2>2, <4>2, <4>3 DEF WkSafe, WkLocals
        <3>2. QED
            BY <2>1, <3>1 DEF WorkersSafe, WkSafe, Resumable, Ingested
    <2>5. CallsSafe'
        <3>1. \A q \in Procs, t \in Threads : Resumable(claim'[q][t].snap)
            <4>1. SUFFICES ASSUME NEW q \in Procs, NEW t \in Threads
                           PROVE  Resumable(claim'[q][t].snap)
                OBVIOUS
            <4>2. claim'[q][t] = [claim[q][t] EXCEPT !.snap = Aged(@, p)]
                BY <1>8 DEF Expire
            <4>3. claim[q][t] \in Calls /\ Resumable(claim[q][t].snap)
                BY DEF TypeInv, TypeOK, OffsetsIngested, CallsSafe
            <4>4. QED
                BY <2>2, <4>2, <4>3 DEF Calls
        <3>2. QED
            BY <2>1, <3>1 DEF CallsSafe, Resumable, Ingested
    <2>6. QED
        BY <2>1, <2>3, <2>4, <2>5 DEF OffsetsIngested
<1>9. CASE DeleteDoc
    <2>1. Resumable(NoDoc)
        BY DEF Resumable
    <2>2. QED
        BY <1>1, <1>9, <2>1, SetDocSafe DEF DeleteDoc
<1>10. ASSUME NEW q \in Procs, NEW t \in Threads, ClaimOpen(q, t)
       PROVE  OffsetsIngested'
    <2> DEFINE c == claim[q][t]
    <2>1. PICK todo, tag :
              SetCall(q, t, [c EXCEPT !.pc = "next", !.todo = todo, !.tag = tag])
        BY <1>10 DEF ClaimOpen
    <2>2. c \in Calls /\ Resumable(c.snap)
        BY DEF TypeInv, TypeOK, OffsetsIngested, CallsSafe
    <2>3. Resumable([c EXCEPT !.pc = "next", !.todo = todo, !.tag = tag].snap)
        BY <2>2 DEF Calls
    <2>4. CallsSafe'
        BY <1>10, <2>1, <2>3, SetCallSafe DEF ClaimOpen
    <2>5. QED
        BY <1>10, <2>4 DEF ClaimOpen, OffsetsIngested
<1>11. ASSUME NEW q \in Procs, NEW t \in Threads, ClaimGet(q, t)
       PROVE  OffsetsIngested'
    <2> DEFINE c == claim[q][t]
    <2>1. PICK p : SetCall(q, t, [c EXCEPT !.pc = "put", !.cur = p, !.snap = doc])
        BY <1>11 DEF ClaimGet
    <2>2. c \in Calls /\ Resumable(doc)
        BY DEF TypeInv, TypeOK, OffsetsIngested
    <2>3. Resumable([c EXCEPT !.pc = "put", !.cur = p, !.snap = doc].snap)
        BY <2>2 DEF Calls
    <2>4. CallsSafe'
        BY <1>11, <2>1, <2>3, SetCallSafe DEF ClaimGet
    <2>5. QED
        BY <1>11, <2>4 DEF ClaimGet, OffsetsIngested
<1>12. ASSUME NEW q \in Procs, NEW t \in Threads, ClaimPut(q, t)
       PROVE  OffsetsIngested'
    <2> DEFINE c == claim[q][t]
               new(tag) == [c EXCEPT !.pc = "next", !.todo = @ \ {c.cur},
                               !.won = @ \union {c.cur}, !.tag[c.cur] = tag,
                               !.cur = NoPart, !.snap = NoDoc]
    <2>1. SetCall(q, t, new(NewEtag(c.cur, {<<q, t>>})))
        BY <1>12 DEF ClaimPut
    <2>2. c \in Calls /\ Resumable(NoDoc)
        BY DEF TypeInv, TypeOK, Resumable
    <2>3. Resumable(new(NewEtag(c.cur, {<<q, t>>})).snap)
        BY <2>2 DEF Calls
    <2>4. CallsSafe'
        BY <1>12, <2>1, <2>3, SetCallSafe DEF ClaimPut
    <2>5. Resumable(doc)'
        BY <1>12, StoredSafe, SetDocSafe DEF ClaimPut
    <2>6. QED
        BY <1>12, <2>4, <2>5 DEF ClaimPut, OffsetsIngested
<1>13. ASSUME NEW q \in Procs, NEW parts, NEW tags
       PROVE  Resumable(Call(parts, tags).snap)
    BY DEF Call, NoCall, Resumable
<1>13a. ASSUME NEW q \in Procs, LBIds(q) PROVE OffsetsIngested'
    <2>1. SetLB(q, [IdleLB EXCEPT !.pc = "first"])
        BY <1>13a DEF LBIds
    <2>2. [IdleLB EXCEPT !.pc = "first"].ckpt = IdleLB.ckpt
        BY DEF IdleLB
    <2>3. BalancersSafe'
        BY <1>13a, <2>1, <2>2, IdleLBSafe, SetLBSafe DEF LBIds
    <2>4. QED
        BY <1>13a, <2>3 DEF LBIds, OffsetsIngested
<1>14. ASSUME NEW q \in Procs, LBList(q) PROVE OffsetsIngested'
    <2>1. PICK parts, tags, l :
              /\ SetLB(q, l) /\ l.ckpt = IdleLB.ckpt
              /\ SetCall(q, "lb", Call(parts, tags)) \/ UNCHANGED claim
        BY <1>14 DEF LBList, IdleLB
    <2>2. BalancersSafe'
        BY <1>14, <2>1, IdleLBSafe, SetLBSafe DEF LBList
    <2>3. CallsSafe'
        BY <1>13, <1>14, <2>1, SetCallSafe DEF LBList, Threads
    <2>4. QED
        BY <1>14, <2>2, <2>3 DEF LBList, OffsetsIngested
<1>15. ASSUME NEW q \in Procs, LBClaimed(q) PROVE OffsetsIngested'
    <2> DEFINE won == claim[q]["lb"].won
               new == won \ consumers[q]
               pc == IF new # {} THEN "checkpoints"
                     ELSE IF consumers[q] \subseteq won THEN "list"
                     ELSE "cancel"
               l == [IdleLB EXCEPT !.pc = pc, !.newly = new,
                                   !.cancel = consumers[q] \ won]
    <2>1. SetLB(q, l) /\ l.ckpt = IdleLB.ckpt
        BY <1>15 DEF LBClaimed, IdleLB
    <2>2. BalancersSafe'
        BY <1>15, <2>1, IdleLBSafe, SetLBSafe DEF LBClaimed
    <2>3. CallsSafe'
        BY <1>15, IdleSafe, SetCallSafe DEF LBClaimed, Threads
    <2>4. QED
        BY <1>15, <2>2, <2>3 DEF LBClaimed, OffsetsIngested
<1>16. ASSUME NEW q \in Procs, LBCheckpoints(q) PROVE OffsetsIngested'
    <2> DEFINE ckpt == [p \in Partitions |->
                           IF p \in lb[q].newly THEN doc[p].offset ELSE 0]
               l == [lb[q] EXCEPT !.pc = "create", !.ckpt = ckpt]
    <2>1. l.ckpt = ckpt
        BY DEF TypeInv, TypeOK, LBLocals
    <2>2. \A p \in Partitions : Ingested(p, ckpt[p])
        BY <1>16, NothingBefore DEF LBCheckpoints, OffsetsIngested, Resumable
    <2>3. BalancersSafe'
        BY <1>16, <2>1, <2>2, SetLBSafe DEF LBCheckpoints
    <2>4. QED
        BY <1>16, <2>3 DEF LBCheckpoints, OffsetsIngested
<1>17. ASSUME NEW q \in Procs, LBCreate(q) PROVE OffsetsIngested'
    <2> DEFINE l == [IdleLB EXCEPT
                        !.pc = IF lb[q].cancel = {} THEN "list" ELSE "cancel",
                        !.cancel = lb[q].cancel]
    <2>1. SetLB(q, l) /\ l.ckpt = IdleLB.ckpt
        BY <1>17 DEF LBCreate, IdleLB
    <2>2. BalancersSafe'
        BY <1>17, <2>1, IdleLBSafe, SetLBSafe DEF LBCreate
    <2>3. \A r \in Procs, p \in Partitions :
              pos'[r][p] \in {pos[r][p], lb[q].ckpt[p]}
        BY <1>17 DEF LBCreate, TypeInv, TypeOK
    <2>4. \A r \in Procs, p \in Partitions : Ingested(p, pos'[r][p])
        BY <2>3 DEF OffsetsIngested, PositionsSafe, BalancersSafe
    <2>5. PositionsSafe'
        BY <1>17, <2>4, SetPosSafe DEF LBCreate
    <2>6. QED
        BY <1>17, <2>2, <2>5 DEF LBCreate, OffsetsIngested
<1>18. ASSUME NEW q \in Procs, LBCancel(q) PROVE OffsetsIngested'
    <2>1. BalancersSafe'
        BY <1>18, IdleLBSafe, SetLBSafe DEF LBCancel
    <2>2. QED
        BY <1>18, <2>1 DEF LBCancel, OffsetsIngested
<1>19. ASSUME NEW q \in Procs, NEW t \in Threads, ClaimRaises(q, t),
              UNCHANGED ingested
       PROVE  Resumable(doc)'
    BY <1>19, StoredSafe, SetDocSafe DEF ClaimRaises, WriteFails, OffsetsIngested
<1>20. ASSUME NEW q \in Procs, LBFails(q) PROVE OffsetsIngested'
    <2>1. [IdleLB EXCEPT !.pc = "dead"].ckpt = IdleLB.ckpt
        BY DEF IdleLB
    <2>2. BalancersSafe'
        BY <1>20, <2>1, IdleLBSafe, SetLBSafe DEF LBFails
    <2>3. CallsSafe'
        BY <1>20, IdleSafe, SetCallSafe DEF LBFails, Threads
    <2>4. Resumable(doc)'
        BY <1>19, <1>20 DEF LBFails, Threads
    <2>5. QED
        BY <1>20, <2>2, <2>3, <2>4 DEF LBFails, OffsetsIngested
<1>21. ASSUME NEW q \in Procs, NEW p \in Partitions, WkReceive(q, p)
       PROVE  OffsetsIngested'
    <2>1. PICK k : SetWk(q, [IdleWk EXCEPT !.pc = "write", !.part = p,
                                           !.next = pos[q][p] + 1, !.last = k])
        BY <1>21 DEF WkReceive
    <2>2. Ingested(p, pos[q][p]) /\ pos[q][p] \in 0..LastOffset
        BY DEF OffsetsIngested, PositionsSafe, TypeInv, TypeOK, Offsets
    <2>3. (pos[q][p] + 1) - 1 = pos[q][p]
        BY <2>2
    <2>4. WkSafe([IdleWk EXCEPT !.pc = "write", !.part = p,
                                !.next = pos[q][p] + 1, !.last = k])
        BY <2>2, <2>3 DEF WkSafe, IdleWk, Resumable
    <2>5. WorkersSafe'
        BY <1>21, <2>1, <2>4, SetWkSafe DEF WkReceive
    <2>6. QED
        BY <1>21, <2>5 DEF WkReceive, OffsetsIngested
<1>22. ASSUME NEW q \in Procs, WkWrite(q) PROVE OffsetsIngested'
    <2> DEFINE w == wk[q]
               new == IF w.next = w.last THEN [w EXCEPT !.pc = "get"]
                                         ELSE [w EXCEPT !.next = @ + 1]
    <2>1. /\ w \in WkLocals /\ w.part \in Partitions /\ w.pc = "write"
          /\ w.next \in 1..w.last /\ w.last \in Nat
          /\ Resumable(w.snap) /\ Ingested(w.part, w.next - 1)
        BY <1>22 DEF WkWrite, TypeInv, WkOK, WkLocals, OffsetsIngested,
                     WorkersSafe, WkSafe
    <2>2. ingested' = [ingested EXCEPT ![w.part] = @ \union {w.next}]
        BY <1>22 DEF WkWrite
    <2>3. ingested \in [Partitions -> SUBSET (1..LastOffset)]
        BY DEF TypeInv, TypeOK
    <2>4. \A p \in Partitions : ingested[p] \subseteq ingested'[p]
        BY <2>2, <2>3
    <2>5. ASSUME NEW p \in Partitions, NEW o, Ingested(p, o)
          PROVE  \A i \in 1..o : i \in ingested'[p]
        BY <2>4, <2>5 DEF Ingested
    <2>6. \A i \in 1..w.next : i \in ingested'[w.part]
        <3>1. \A i \in 1..w.next : i = w.next \/ i \in 1..(w.next - 1)
            BY <2>1
        <3>2. w.next \in ingested'[w.part]
            BY <2>1, <2>2, <2>3
        <3>3. QED
            BY <2>1, <2>5, <3>1, <3>2
    <2>7. ASSUME NEW d, Resumable(d)
          PROVE  d # NoDoc =>
                    \A p \in Partitions : \A i \in 1..d[p].offset : i \in ingested'[p]
        BY <2>5, <2>7 DEF Resumable
    <2>8. /\ new.snap = w.snap /\ new.part = w.part
          /\ new.pc = "write" => new.next - 1 = w.next
          /\ new.pc \in {"get", "put"} => w.next = w.last /\ new.last = w.last
        BY <2>1 DEF WkLocals
    <2>9. \A r \in Procs : wk'[r] = IF r = q THEN new ELSE wk[r]
        BY <1>22 DEF WkWrite, SetWk, TypeInv, TypeOK
    <2>10. WorkersSafe'
        <3>1. ASSUME NEW r \in Procs, r # q PROVE WkSafe(wk[r])'
            <4>1. wk'[r] = wk[r] /\ WkSafe(wk[r]) /\ WkOK(wk[r])
                BY <2>9, <3>1 DEF OffsetsIngested, WorkersSafe, TypeInv
            <4>2. QED
                BY <2>5, <2>7, <4>1 DEF WkSafe, WkOK, Resumable, Ingested
        <3>2. WkSafe(wk[q])'
            <4>1. wk'[q] = new
                BY <2>9
            <4>2. QED
                BY <2>1, <2>6, <2>7, <2>8, <4>1 DEF WkSafe, Resumable, Ingested
        <3>3. QED
            BY <3>1, <3>2 DEF WorkersSafe
    <2>11. UNCHANGED <<doc, claim, lb, pos>>
        BY <1>22 DEF WkWrite
    <2>12. Resumable(doc)' /\ CallsSafe'
        BY <2>7, <2>11 DEF OffsetsIngested, CallsSafe, Resumable, Ingested
    <2>13. BalancersSafe' /\ PositionsSafe'
        BY <2>5, <2>11 DEF OffsetsIngested, BalancersSafe, PositionsSafe, Ingested
    <2>14. QED
        BY <2>10, <2>12, <2>13 DEF OffsetsIngested
<1>23. ASSUME NEW q \in Procs, WkPoison(q) PROVE OffsetsIngested'
    <2>1. WorkersSafe'
        BY <1>23, ClosingSafe, SetWkSafe DEF WkPoison
    <2>2. QED
        BY <1>23, <2>1 DEF WkPoison, OffsetsIngested
<1>24. ASSUME NEW q \in Procs, WkCkptGet(q) PROVE OffsetsIngested'
    <2>1. WkSafe([wk[q] EXCEPT !.pc = "put", !.snap = doc])
        BY <1>24 DEF WkCkptGet, WkSafe, WkLocals, TypeInv, TypeOK,
                     OffsetsIngested, WorkersSafe
    <2>2. WorkersSafe'
        BY <1>24, <2>1, SetWkSafe DEF WkCkptGet
    <2>3. QED
        BY <1>24, <2>2 DEF WkCkptGet, OffsetsIngested
<1>25. ASSUME NEW q \in Procs, WkCkptPut(q) PROVE OffsetsIngested'
    <2>1. Resumable(doc)'
        BY <1>25, StoredSafe, SetDocSafe DEF WkCkptPut
    <2>2. WorkersSafe'
        BY <1>25, IdleSafe, SetWkSafe DEF WkCkptPut
    <2>3. \A r \in Procs, p \in Partitions : Ingested(p, pos'[r][p])
        <3>1. Ingested(wk[q].part, wk[q].last)
            BY <1>25 DEF WkCkptPut, OffsetsIngested, WorkersSafe, WkSafe
        <3>2. \A r \in Procs, p \in Partitions :
                  \/ pos'[r][p] = pos[r][p]
                  \/ p = wk[q].part /\ pos'[r][p] = wk[q].last
            BY <1>25 DEF WkCkptPut, TypeInv, TypeOK, Offsets
        <3>3. QED
            BY <3>1, <3>2 DEF OffsetsIngested, PositionsSafe
    <2>4. PositionsSafe'
        BY <1>25, <2>3, SetPosSafe DEF WkCkptPut
    <2>5. QED
        BY <1>25, <2>1, <2>2, <2>4 DEF WkCkptPut, OffsetsIngested
<1>26. ASSUME NEW q \in Procs, WkCkptFails(q) PROVE OffsetsIngested'
    <2>1. Resumable(doc)'
        BY <1>26, StoredSafe, SetDocSafe DEF WkCkptFails, WriteFails, OffsetsIngested
    <2>2. WorkersSafe'
        BY <1>26, ClosingSafe, SetWkSafe DEF WkCkptFails
    <2>3. QED
        BY <1>26, <2>1, <2>2 DEF WkCkptFails, OffsetsIngested
<1>27. ASSUME NEW q \in Procs, NEW p \in Partitions,
              WkReceiveFails(q, p) \/ WkStopped(q, p)
       PROVE  OffsetsIngested'
    <2>1. WorkersSafe'
        BY <1>27, ClosingSafe, SetWkSafe DEF WkReceiveFails, WkStopped
    <2>2. QED
        BY <1>27, <2>1 DEF WkReceiveFails, WkStopped, OffsetsIngested
<1>28. ASSUME NEW q \in Procs, WkDrain(q) PROVE OffsetsIngested'
    <2>1. WorkersSafe'
        BY <1>28, IdleSafe, ClosingSafe, SetWkSafe DEF WkDrain
    <2>2. QED
        BY <1>28, <2>1 DEF WkDrain, OffsetsIngested
<1>29. ASSUME NEW q \in Procs, WkClose(q) PROVE OffsetsIngested'
    <2>1. WkSafe([wk[q] EXCEPT !.pc = "release"])
        BY DEF WkSafe, WkLocals, TypeInv, TypeOK, OffsetsIngested, WorkersSafe
    <2>2. WorkersSafe'
        BY <1>29, <2>1, IdleSafe, SetWkSafe DEF WkClose
    <2>3. CallsSafe'
        BY <1>13, <1>29, SetCallSafe DEF WkClose, Threads
    <2>4. \A r \in Procs, p \in Partitions : pos'[r][p] \in {pos[r][p], 0}
        BY <1>29 DEF WkClose, TypeInv, TypeOK, Offsets
    <2>5. \A r \in Procs, p \in Partitions : Ingested(p, pos'[r][p])
        BY <2>4, NothingBefore DEF OffsetsIngested, PositionsSafe
    <2>6. PositionsSafe'
        BY <1>29, <2>5, SetPosSafe DEF WkClose
    <2>7. QED
        BY <1>29, <2>2, <2>3, <2>6 DEF WkClose, OffsetsIngested
<1>30. ASSUME NEW q \in Procs, WkReleased(q) PROVE OffsetsIngested'
    <2>1. WorkersSafe' /\ CallsSafe'
        BY <1>30, IdleSafe, SetWkSafe, SetCallSafe DEF WkReleased, Threads
    <2>2. QED
        BY <1>30, <2>1 DEF WkReleased, OffsetsIngested
<1>31. ASSUME NEW q \in Procs, WkReleaseFails(q) PROVE OffsetsIngested'
    <2>1. WorkersSafe' /\ CallsSafe'
        BY <1>31, IdleSafe, SetWkSafe, SetCallSafe DEF WkReleaseFails, Threads
    <2>2. Resumable(doc)'
        BY <1>19, <1>31 DEF WkReleaseFails, Threads
    <2>3. QED
        BY <1>31, <2>1, <2>2 DEF WkReleaseFails, OffsetsIngested
<1>32. ASSUME NEW q \in Procs, StartResized(q) PROVE OffsetsIngested'
    <2>1. Resumable(NoDoc)
        BY DEF Resumable
    <2>2. QED
        BY <1>1, <1>32, <2>1, SetDocSafe DEF StartResized
<1>33. CASE UNCHANGED vars
    BY <1>33 DEF vars, OffsetsIngested
<1>34. QED
    BY <1>2, <1>3, <1>4, <1>6, <1>7, <1>8, <1>9, <1>10, <1>11, <1>12, <1>13a, <1>14,
       <1>15, <1>16, <1>17, <1>18, <1>20, <1>21, <1>22, <1>23, <1>24, <1>25,
       <1>26, <1>27, <1>28, <1>29, <1>30, <1>31, <1>32, <1>33
    DEF Next, ProcessStep, LBStep, WkStep, Failure, Threads

\* No copy of the document that any thread may still write back, and no
\* position a consumer starts from, is past an event that was not ingested.
THEOREM Inductive == Spec => []IInv
<1>1. Init => IInv
    BY TypeInit, OffsetsInit DEF IInv
<1>2. IInv /\ [Next]_vars => IInv'
    BY TypeStep, OffsetsStep DEF IInv
<1>3. QED
    BY <1>1, <1>2, PTL DEF Spec

\* At least once, for every number of processes, partitions and events and
\* every pattern of faults.
THEOREM AtLeastOnce == Spec => []CommittedIsIngested
<1>1. IInv => CommittedIsIngested
    BY DEF IInv, OffsetsIngested, Resumable, CommittedIsIngested
<1>2. QED
    BY <1>1, Inductive, PTL

-----------------------------------------------------------------------------
(* The input implements EventHubDelivery *)

\* Only the worker writes to Splunk.
LEMMA OnlyWorkerIngests ==
    [Next]_vars => UNCHANGED ingested \/ \E q \in Procs : WkWrite(q)
<1> SUFFICES ASSUME [Next]_vars
             PROVE  UNCHANGED ingested \/ \E q \in Procs : WkWrite(q)
    OBVIOUS
<1>1. ASSUME NEW q \in Procs, ProcessStep(q) PROVE UNCHANGED ingested
    BY <1>1 DEF ProcessStep, StartGet, StartPut, Exit, Down
<1>2. ASSUME NEW q \in Procs, NEW t \in Threads,
             ClaimOpen(q, t) \/ ClaimGet(q, t) \/ ClaimPut(q, t)
      PROVE  UNCHANGED ingested
    BY <1>2 DEF ClaimOpen, ClaimGet, ClaimPut
<1>3. ASSUME NEW q \in Procs, LBStep(q) PROVE UNCHANGED ingested
    BY <1>2, <1>3 DEF LBStep, LBIds, LBList, LBClaimed, LBCheckpoints, LBCreate,
                      LBCancel, Threads
<1>4. ASSUME NEW q \in Procs, WkStep(q)
      PROVE  UNCHANGED ingested \/ WkWrite(q)
    BY <1>2, <1>4 DEF WkStep, WkPoison, WkCkptGet, WkCkptPut, WkStopped,
                      WkDrain, WkClose, WkReleased, Threads
<1>5. ASSUME NEW q \in Procs, Failure(q) PROVE UNCHANGED ingested
    BY <1>5 DEF Failure, StartResized, StartFails, Crash, Down, Stop, LBFails,
                WkCkptFails,
                WkReleaseFails, WkReceiveFails
<1>6. ASSUME NEW q \in Procs, NEW p \in Partitions, WkReceive(q, p)
      PROVE  UNCHANGED ingested
    BY <1>6 DEF WkReceive
<1>7. ASSUME DeleteDoc \/ \E p \in Partitions : Expire(p)
      PROVE  UNCHANGED ingested
    BY <1>7 DEF DeleteDoc, Expire
<1>8. CASE UNCHANGED vars
    BY <1>8 DEF vars
<1>9. QED
    BY <1>1, <1>3, <1>4, <1>5, <1>6, <1>7, <1>8 DEF Next

\* A step of the worker that writes an event delivers it after those before
\* it; any other step moves the resume positions within what was delivered.
LEMMA DeliveryStep ==
    IInv /\ IInv' /\ [Next]_vars => [Delivery!Next]_(Delivery!vars)
<1> SUFFICES ASSUME IInv, IInv', [Next]_vars PROVE Delivery!Next
    BY DEF Delivery!vars
<1> DEFINE committed == [p \in Partitions |->
                            IF doc = NoDoc THEN 0 ELSE doc[p].offset]
<1>1. CASE UNCHANGED ingested
    <2>1. doc' \in Doc \union {NoDoc} /\ Resumable(doc)'
        BY DEF IInv, TypeInv, TypeOK, OffsetsIngested
    <2>2. committed' \in [Partitions -> 0..LastOffset]
        BY <2>1 DEF Doc, Entry
    <2>3. \A p \in Partitions : 1 .. committed'[p] \subseteq ingested[p]
        BY <1>1, <2>1, <2>2 DEF Resumable, Ingested
    <2>4. Delivery!Commit
        BY <1>1, <2>2, <2>3 DEF Delivery!Commit
    <2>5. QED
        BY <2>4 DEF Delivery!Next
<1>2. ASSUME NEW q \in Procs, WkWrite(q) PROVE Delivery!Next
    <2> DEFINE p == wk[q].part
               i == wk[q].next
    <2>1. p \in Partitions /\ i \in 1..LastOffset /\ Ingested(p, i - 1)
        BY <1>2 DEF WkWrite, IInv, TypeInv, WkOK, WkLocals, OffsetsIngested,
                    WorkersSafe, WkSafe
    <2>2. 1 .. i - 1 \subseteq ingested[p]
        BY <2>1 DEF Ingested
    <2>3. ingested' = [ingested EXCEPT ![p] = @ \union {i}] /\ UNCHANGED doc
        BY <1>2 DEF WkWrite
    <2>4. Delivery!Ingest(p, i)
        BY <2>2, <2>3 DEF Delivery!Ingest
    <2>5. QED
        BY <2>1, <2>4 DEF Delivery!Next
<1>3. QED
    BY <1>1, <1>2, OnlyWorkerIngests

\* Whatever happens to processes and store, what reaches Splunk and what the
\* store says of it is a behaviour of the delivery specification.
THEOREM ImplementsDelivery == Spec => DeliverySpec
<1>1. Init => Delivery!Init
    BY DEF Init, Delivery!Init
<1>2. IInv /\ IInv' /\ [Next]_vars => [Delivery!Next]_(Delivery!vars)
    BY DeliveryStep
<1>3. QED
    BY <1>1, <1>2, Inductive, PTL DEF Spec, DeliverySpec, Delivery!Spec
=============================================================================
