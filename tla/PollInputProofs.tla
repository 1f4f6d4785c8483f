--------------------------- MODULE PollInputProofs ---------------------------
(***************************************************************************)
(* Proofs about PollInput, for all items, dates, types of input and        *)
(* failures: type correctness; the checkpoint goes forward; what it covers *)
(* was written, or thrown away with the further pages of an answer.        *)
(***************************************************************************)
EXTENDS PollInput, FiniteSetTheorems, TLAPS

-----------------------------------------------------------------------------
(* Inductive invariants *)

\* A poll knows no date that is yet to come.
PollOK(p) ==
    /\ p \in PollType /\ p.left \subseteq p.page
    /\ p.start <= clock /\ p.query <= clock /\ p.max <= clock
    /\ \A v \in p.page : v[2] <= clock

ClockInv ==
    /\ clock >= Window + 2
    /\ ckpt <= clock /\ start <= clock
    /\ \A i \in Items : item[i] <= clock

TypeInv == TypeOK /\ PollOK(poll) /\ ClockInv

\* The poll has found the date to ask from.
HasQuery ==
    \/ poll.pc \in {"request", "more", "item", "get", "put"}
    \/ poll.pc = "token" /\ ~TokenFirst

\* No one else moves the checkpoint past the date a poll asks from.
QueryInv ==
    /\ HasQuery => /\ ckpt = NoDate \/ ckpt <= poll.query
                   /\ poll.query <= poll.max
    /\ poll.pc = "persist" => ckpt = NoDate
    /\ HasQuery /\ poll.pc \notin {"item", "get", "put"} => poll.max = poll.query

\* It was answered with later items only.
Answered == poll.pc \in {"more", "item", "get", "put"}
PageInv ==
    IF Answered
    THEN \A v \in poll.page : poll.query < v[2]
    ELSE poll.page = {}

AdvanceInv == TypeInv /\ QueryInv /\ PageInv

\* The first date belongs to the stanza, and to the poll that runs if one does.
BeforeQuery == poll.pc \in {"token", "date", "persist"} /\ ~HasQuery
LifeInv ==
    /\ poll.life <= life
    /\ since # NoDate => /\ stanza = "input"
                         /\ poll.pc # "idle" => poll.life = life
                         /\ poll.pc # "persist"
                         /\ ckpt = NoDate => since = start
    /\ BeforeQuery /\ poll.life = life /\ stanza = "input" => poll.start = start

\* Every update after the first date and up to d was written or thrown away.
WrittenUpTo(d) ==
    \A i \in Items :
        since < item[i] /\ item[i] <= d => <<i, item[i]>> \in written \union dropped

\* The answer leaves out nothing that is older than something in it, but for
\* what was thrown away; what is not left to do was written.
AnswerInv ==
    Answered =>
      /\ \A i \in Items, v \in poll.page :
            poll.query < item[i] /\ item[i] <= v[2] =>
                <<i, item[i]>> \in poll.page \union dropped
      /\ poll.page \ poll.left \subseteq written
      /\ poll.pc \in {"get", "put"} => poll.left = {}
      /\ poll.max = poll.query \/ \E v \in poll.page : poll.max = v[2]

\* CoveredIsWritten speaks of the checkpoint; it is inductive with the same
\* of the date the next checkpoint is computed from.
CoverInv ==
    /\ AdvanceInv /\ LifeInv /\ AnswerInv
    /\ since # NoDate => WrittenUpTo(ckpt) /\ (HasQuery => WrittenUpTo(poll.query))

\* Unless a poll ran during a removal, a poll belongs to the stanza, which has
\* the date it was asked from first, and the checkpoint goes with both.
RaceInv ==
    ~raced =>
      /\ poll.pc # "idle" => poll.life = life /\ stanza = "input"
      /\ HasQuery \/ ckpt # NoDate => since # NoDate
      /\ since # NoDate => since = start
      /\ rm = "conf" => ckpt = NoDate

\* No version that was written has a date in a later second than the latest.
LatestInv ==
    Answered =>
      /\ \A v \in poll.page \ poll.left : v[2] \div 2 <= poll.max \div 2
      /\ poll.pc \in {"get", "put"} => poll.left = {}

\* As long as nothing disturbs the input, all that was written is covered by
\* the checkpoint, in the order of the text, or belongs to the running poll.
NoneLater(d) == ~TextLater(d, poll.max)
QuietSoFar ==
    /\ Undated = {} /\ faults = 0 /\ life = 1
    /\ stanza = "input" /\ rm = "idle"
OnceInv ==
    QuietSoFar =>
      /\ HasQuery => /\ poll.query # NoDate /\ NoneLater(poll.query)
                     /\ ckpt # NoDate => poll.query = ckpt
      /\ Answered => \A v \in poll.page \ poll.left : NoneLater(v[2])
      /\ poll.pc \in {"get", "put"} => poll.left = {}
      /\ \A v \in written :
            \/ v \in poll.page \ poll.left
            \/ ckpt # NoDate /\ ~TextLater(v[2], ckpt)

\* An answer fits in a page.
OnePage == Cardinality(Items) <= PageSize

-----------------------------------------------------------------------------
(* Lemmas about dates *)

USE DatesAssumption, ItemsAssumption, PollBoundAssumption DEF NoDate, Dates

\* The default start date is a date, and not in the future.
LEMMA DefaultStartDate ==
    ASSUME clock \in Dates, clock >= Window + 2
    PROVE  DefaultStart \in Dates /\ DefaultStart <= clock
<1>1. Window \in Nat
    OBVIOUS
<1>2. clock - Window \in Nat /\ clock - Window <= clock
    BY <1>1
<1>3. \A n \in Nat : 2 * (n \div 2) \in Nat /\ 2 * (n \div 2) <= n
    OBVIOUS
<1>4. QED
    BY <1>2, <1>3 DEF DefaultStart, Formatted

\* The later of two dates as text is one of them.
LEMMA TextMaxChooses ==
    ASSUME NEW a, NEW b
    PROVE  TextMax(a, b) \in {a, b}
BY DEF TextMax

\* Within its second, the later of two dates as text is not before either.
LEMMA TextMaxSecond ==
    ASSUME NEW a \in Nat, NEW b \in Nat
    PROVE  /\ a \div 2 <= TextMax(a, b) \div 2
           /\ b \div 2 <= TextMax(a, b) \div 2
<1>1. a \div 2 \in Nat /\ b \div 2 \in Nat
    OBVIOUS
<1>2. CASE TextLater(a, b)
    BY <1>1, <1>2 DEF TextMax, TextLater
<1>3. CASE ~TextLater(a, b)
    BY <1>1, <1>3 DEF TextMax, TextLater
<1>4. QED
    BY <1>2, <1>3

\* The order of dates as text is total.
LEMMA TextOrder ==
    ASSUME NEW a \in Nat, NEW b \in Nat, NEW c \in Nat
    PROVE  /\ ~TextLater(a, a)
           /\ ~TextLater(a, b) /\ ~TextLater(b, c) => ~TextLater(a, c)
           /\ a # b => TextLater(a, b) \/ TextLater(b, a)
           /\ ~TextLater(a, TextMax(a, b)) /\ ~TextLater(b, TextMax(a, b))
<1>1. a \div 2 \in Nat /\ b \div 2 \in Nat /\ c \div 2 \in Nat
    OBVIOUS
<1>2. ~TextLater(a, a)
    BY <1>1 DEF TextLater
<1>3. ASSUME ~TextLater(a, b), ~TextLater(b, c) PROVE ~TextLater(a, c)
    BY <1>1, <1>3 DEF TextLater
<1>4. ASSUME a # b PROVE TextLater(a, b) \/ TextLater(b, a)
  <2>1. a \div 2 = b \div 2 => (Whole(a) <=> ~Whole(b))
      BY <1>4 DEF Whole
  <2>2. QED
      BY <1>1, <2>1 DEF TextLater
<1>5. ~TextLater(a, TextMax(a, b)) /\ ~TextLater(b, TextMax(a, b))
  <2>1. ~TextLater(b, b) /\ (TextLater(a, b) => ~TextLater(b, a))
      BY <1>1 DEF TextLater
  <2>2. QED
      BY <1>2, <2>1 DEF TextMax
<1>6. QED
    BY <1>2, <1>3, <1>4, <1>5

\* The locals of a poll that is not running.
LEMMA IdleOK ==
    ASSUME clock \in Dates
    PROVE  PollOK(Idle)
BY DEF PollOK, Idle, PollType

\* Time only makes the dates of a poll older.
LEMMA PollOKLater ==
    ASSUME PollOK(poll), clock \in Dates, clock' \in Dates, clock <= clock',
           poll' = poll
    PROVE  PollOK(poll)'
<1>1. poll.start \in Nat /\ poll.query \in Nat /\ poll.max \in Nat
    BY DEF PollOK, PollType
<1>2. \A v \in poll.page : v[2] \in Nat
    BY DEF PollOK, PollType
<1>3. QED
    BY <1>1, <1>2 DEF PollOK

-----------------------------------------------------------------------------
(* Type correctness *)

LEMMA TypeInit == Init => TypeInv
<1> SUFFICES ASSUME Init PROVE TypeInv
    OBVIOUS
<1>1. clock \in Dates /\ clock >= Window + 2
    BY DEF Init
<1>2. PollOK(poll)
    BY <1>1, IdleOK DEF Init
<1>3. TypeOK
  <2>1. start \in Dates
    BY DEF Init
  <2>2. item \in [Items -> Dates]
    BY DEF Init
  <2>3. poll \in PollType
    BY <1>2 DEF PollOK
  <2>4. ckpt \in Dates /\ since \in Dates /\ life \in Nat /\ faults \in 0..MaxFaults
    BY DEF Init
  <2>5. written \subseteq Items \X Dates /\ dropped \subseteq Items \X Dates
        /\ raced \in BOOLEAN
    BY DEF Init
  <2>6. QED
    BY <1>1, <2>1, <2>2, <2>3, <2>4, <2>5 DEF Init, TypeOK
<1>4. ClockInv
    BY <1>1 DEF Init, ClockInv
<1>5. QED
    BY <1>2, <1>3, <1>4 DEF TypeInv

LEMMA TypeStep == TypeInv /\ [Next]_vars => TypeInv'
<1> SUFFICES ASSUME TypeInv, [Next]_vars PROVE TypeInv'
    OBVIOUS
<1> USE DEF TypeInv
<1>d. DefaultStart \in Dates /\ DefaultStart <= clock
    BY DefaultStartDate DEF ClockInv, TypeOK
<1>i. clock \in Dates /\ PollOK(Idle)
    BY IdleOK DEF TypeOK
<1>1. CASE Tick
  <2>1. clock' \in Dates /\ clock <= clock'
    BY <1>1, <1>i DEF Tick
  <2>2. PollOK(poll)'
    BY <1>1, <1>i, <2>1, PollOKLater DEF Tick
  <2>3. QED
    BY <1>1, <2>1, <2>2 DEF Tick, TypeOK, ClockInv, conf
<1>2. ASSUME NEW i \in Items, Update(i) PROVE TypeInv'
  <2>1. clock' \in Dates /\ clock <= clock'
    BY <1>2, <1>i DEF Update
  <2>2. PollOK(poll)'
    BY <1>2, <1>i, <2>1, PollOKLater DEF Update
  <2>3. item' \in [Items -> Dates] /\ \A j \in Items : item'[j] <= clock'
    BY <1>2, <2>1 DEF Update, TypeOK, ClockInv
  <2>4. QED
    BY <1>2, <2>1, <2>2, <2>3 DEF Update, TypeOK, ClockInv, conf
<1>3. CASE StartPoll
  <2>1. poll' \in PollType
    <3>1. Idle \in PollType
      BY <1>i DEF PollOK
    <3>2. life \in Nat /\ start \in Dates
      BY DEF TypeOK
    <3>3. QED
      BY <1>3, <3>1, <3>2 DEF StartPoll, PollType
  <2>2. poll'.start = start /\ poll'.query = 0 /\ poll'.max = 0
        /\ poll'.page = {} /\ poll'.left = {}
    BY <1>3 DEF StartPoll, Idle
  <2>3. PollOK(poll)'
    BY <1>3, <1>i, <2>1, <2>2 DEF StartPoll, PollOK, ClockInv, service
  <2>4. QED
    BY <1>3, <2>3 DEF StartPoll, TypeOK, ClockInv, service, conf, PollOK
<1>4. CASE GetToken
  <2>1. PollOK(poll)'
    BY <1>4 DEF GetToken, PollOK, PollType, service
  <2>2. QED
    BY <1>4, <2>1 DEF GetToken, TypeOK, ClockInv, service, conf, PollOK
<1>5. CASE ReadDate
  <2>1. PollOK(poll)'
    BY <1>5 DEF ReadDate, Ask, PollOK, PollType, service, TypeOK, ClockInv
  <2>2. since' \in Dates
    BY <1>5 DEF ReadDate, FirstDate, TypeOK, PollOK, PollType
  <2>3. QED
    BY <1>5, <2>1, <2>2 DEF ReadDate, TypeOK, ClockInv, service, conf, PollOK
<1>6. CASE PersistDefault
  <2>1. PollOK(poll)'
    BY <1>6, <1>d DEF PersistDefault, Ask, PollOK, PollType, service
  <2>2. since' \in Dates
    BY <1>6, <1>d DEF PersistDefault, FirstDate, TypeOK
  <2>3. QED
    BY <1>6, <1>d, <2>1, <2>2
    DEF PersistDefault, StoreStart, TypeOK, ClockInv, service, PollOK
<1>7. CASE Request
  <2>1. PICK p \in FirstPages(Fresh(poll.query)) :
          /\ poll' = [poll EXCEPT !.page = Versions(p), !.left = Versions(p),
                      !.pc = IF p = Fresh(poll.query) THEN "item" ELSE "more"]
          /\ dropped' = dropped \union Versions(Fresh(poll.query) \ p)
    BY <1>7 DEF Request
  <2>2. p \subseteq Items
    BY <2>1 DEF FirstPages, Fresh
  <2>3. /\ Versions(p) \subseteq Items \X Dates
        /\ Versions(Fresh(poll.query) \ p) \subseteq Items \X Dates
        /\ \A v \in Versions(p) : v[2] <= clock
    BY <2>2 DEF TypeOK, ClockInv, Versions, Fresh
  <2>4. PollOK(poll)'
    BY <1>7, <2>1, <2>3 DEF Request, PollOK, PollType, service
  <2>5. QED
    BY <1>7, <2>1, <2>3, <2>4 DEF Request, TypeOK, ClockInv, service, conf, PollOK
<1>8. CASE RequestMore
  <2>1. PollOK(poll)'
    BY <1>8 DEF RequestMore, PollOK, PollType, service
  <2>2. QED
    BY <1>8, <2>1 DEF RequestMore, TypeOK, ClockInv, service, conf, PollOK
<1>9. CASE AllWritten
  <2>1. PollOK(poll)'
    BY <1>9 DEF AllWritten, PollOK, PollType, service
  <2>2. QED
    BY <1>9, <2>1 DEF AllWritten, TypeOK, ClockInv, service, conf, PollOK
<1>10. CASE GetCheckpoint
  <2>1. PollOK(poll)'
    BY <1>10 DEF GetCheckpoint, PollOK, PollType, service
  <2>2. QED
    BY <1>10, <2>1 DEF GetCheckpoint, TypeOK, ClockInv, service, conf, PollOK
<1>11. CASE PutCheckpoint
    BY <1>11, <1>i DEF PutCheckpoint, StoreCheckpoint, TypeOK, ClockInv, service,
       conf, PollOK, PollType
<1>12. ASSUME NEW v \in poll.left, WriteItem(v) PROVE TypeInv'
  <2>1. v \in Items \X Dates
    BY DEF PollOK, PollType
  <2>2. v[2] <= clock
    BY DEF PollOK
  <2>3. PollOK(poll)'
    BY <1>12, <2>1, <2>2, TextMaxChooses DEF WriteItem, PollOK, PollType, service
  <2>4. QED
    BY <1>12, <2>1, <2>3 DEF WriteItem, TypeOK, ClockInv, service, conf, PollOK
<1>13. ASSUME NEW v \in poll.left, RaiseOnItem(v) PROVE TypeInv'
    BY <1>13, <1>i DEF RaiseOnItem, TypeOK, ClockInv, service, conf, PollOK, PollType
<1>14. CASE PollFails
    BY <1>14, <1>i DEF PollFails, Fault, TypeOK, ClockInv, service, conf, PollOK
<1>15. CASE PutFailsLate
    BY <1>15, <1>i DEF PutFailsLate, StoreCheckpoint, Fault, TypeOK, ClockInv,
       service, conf, PollOK, PollType
<1>16. CASE PersistFailsLate
    BY <1>16, <1>i, <1>d DEF PersistFailsLate, StoreStart, Fault, TypeOK, ClockInv,
       service, PollOK
<1>17. CASE Removal
  <2> USE DEF TypeOK, ClockInv, PollOK, service, conf
  <2>1. CASE StartRemove BY <2>1 DEF StartRemove
  <2>2. CASE RemoveGet BY <2>2 DEF RemoveGet
  <2>3. CASE RemoveCheckpoint BY <2>3 DEF RemoveCheckpoint, DeleteCheckpoint
  <2>4. CASE RemoveStanza BY <2>4 DEF RemoveStanza
  <2>5. CASE RemoveFails
    <3>1. /\ ckpt' \in {ckpt, NoDate} /\ since' \in {since, NoDate}
          /\ raced' \in {raced, raced \/ ~At("idle")}
          /\ rm' = "idle" /\ faults' \in 0..MaxFaults
          /\ UNCHANGED <<kind, dropped, clock, item, written, stanza, start, life, poll>>
      BY <2>5 DEF RemoveFails, DeleteCheckpoint, Fault
    <3>2. raced' \in BOOLEAN
      BY <3>1 DEF At
    <3>3. ckpt' \in Dates /\ since' \in Dates /\ ckpt' <= clock
      BY <3>1
    <3>4. QED BY <3>1, <3>2, <3>3
  <2>6. CASE CreateInput BY <2>6 DEF CreateInput
  <2>7. QED BY <1>17, <2>1, <2>2, <2>3, <2>4, <2>5, <2>6 DEF Removal
<1>18. CASE UNCHANGED vars
    BY <1>18 DEF vars, TypeOK, ClockInv, PollOK, service, conf
<1>19. QED
    BY <1>1, <1>2, <1>3, <1>4, <1>5, <1>6, <1>7, <1>8, <1>9, <1>10, <1>11, <1>12,
       <1>13, <1>14, <1>15, <1>16, <1>17, <1>18 DEF Next, PollStep, PollFault

\* Every variable has its type (the code's values, of any type of input).
THEOREM TypeCorrect == Spec => []TypeOK
<1>1. TypeInv => TypeOK
    BY DEF TypeInv
<1>2. QED
    BY TypeInit, TypeStep, <1>1, PTL DEF Spec

-----------------------------------------------------------------------------
(* The checkpoint goes forward *)

LEMMA AdvanceInit == Init => AdvanceInv
BY TypeInit DEF Init, AdvanceInv, QueryInv, PageInv, HasQuery, Answered, Idle

LEMMA AdvanceStep == AdvanceInv /\ [Next]_vars => AdvanceInv'
<1> SUFFICES ASSUME AdvanceInv, [Next]_vars PROVE (QueryInv /\ PageInv)'
    BY TypeStep DEF AdvanceInv
<1> USE DEF AdvanceInv
<1>t. /\ poll.query \in Nat /\ poll.max \in Nat /\ poll.start \in Nat
      /\ ckpt \in Nat /\ poll.left \subseteq poll.page
      /\ \A v \in poll.page : v[2] \in Nat
    BY DEF TypeInv, TypeOK, PollOK, PollType
<1>d. DefaultStart \in Nat
    BY DefaultStartDate DEF TypeInv, TypeOK, ClockInv
<1>k. kind' = kind
    BY DEF Next, Tick, Update, PollStep, StartPoll, GetToken, ReadDate,
       PersistDefault, Request, RequestMore, AllWritten, GetCheckpoint,
       PutCheckpoint, WriteItem, RaiseOnItem, PollFault, PollFails, PutFailsLate,
       PersistFailsLate, Removal, StartRemove, RemoveGet, RemoveCheckpoint,
       RemoveStanza, RemoveFails, CreateInput, vars
<1>h. TokenFirst' = TokenFirst
    BY <1>k DEF TokenFirst
<1>i. ASSUME poll' = Idle PROVE (QueryInv /\ PageInv)'
    BY <1>i DEF QueryInv, PageInv, HasQuery, Answered, Idle
<1>s. ASSUME poll' = poll, ckpt' \in {ckpt, NoDate} PROVE (QueryInv /\ PageInv)'
    BY <1>s, <1>h DEF QueryInv, PageInv, HasQuery, Answered
\* A step within the poll that keeps its dates.
<1>p. ASSUME poll'.query = poll.query, poll'.max = poll.max, poll'.page = poll.page,
             ckpt' = ckpt, Answered, poll'.pc \in {"item", "get", "put"}
      PROVE  (QueryInv /\ PageInv)'
    BY <1>p DEF QueryInv, PageInv, HasQuery, Answered
<1>1. CASE Tick
    BY <1>1, <1>s DEF Tick
<1>2. ASSUME NEW i \in Items, Update(i) PROVE (QueryInv /\ PageInv)'
    BY <1>2, <1>s DEF Update
<1>3. CASE StartPoll
  <2>1. poll'.pc = IF TokenFirst THEN "token" ELSE "date"
    BY <1>3 DEF StartPoll, Idle
  <2>2. poll'.page = {}
    BY <1>3 DEF StartPoll, Idle
  <2>3. QED
    BY <1>h, <2>1, <2>2 DEF QueryInv, PageInv, HasQuery, Answered
<1>4. CASE GetToken
  <2>1. poll' = [poll EXCEPT !.pc = IF TokenFirst THEN "date" ELSE "request"]
    BY <1>4 DEF GetToken
  <2>2. /\ poll'.pc = IF TokenFirst THEN "date" ELSE "request"
        /\ poll'.query = poll.query /\ poll'.max = poll.max
        /\ poll'.page = poll.page /\ ckpt' = ckpt
    BY <2>1, <1>4 DEF GetToken, TypeInv, PollOK, PollType
  <2>3. ~Answered /\ ~Answered' /\ HasQuery' = HasQuery
    BY <2>2, <1>4, <1>h DEF GetToken, At, Answered, HasQuery
  <2>4. QED
    BY <2>2, <2>3, <1>4 DEF QueryInv, PageInv, Answered, GetToken, At
<1>5. CASE ReadDate
  <2>1. poll.page = {} /\ poll'.page = poll.page
    BY <1>5 DEF ReadDate, Ask, At, PageInv, Answered, TypeInv, PollOK, PollType
  <2>2. /\ poll'.pc \in {"request", "token", "persist"} /\ ckpt' = ckpt
        /\ IF poll'.pc = "persist" THEN ckpt = NoDate
           ELSE /\ poll'.query = poll'.max /\ poll'.query \in Nat
                /\ ckpt = NoDate \/ ckpt = poll'.query
    BY <1>5, <1>t DEF ReadDate, Ask, TypeInv, PollOK, PollType
  <2>3. QED
    BY <1>t, <2>1, <2>2 DEF QueryInv, PageInv, HasQuery, Answered
<1>6. CASE PersistDefault
  <2>1. poll.page = {} /\ poll'.page = poll.page
    BY <1>6 DEF PersistDefault, Ask, At, PageInv, Answered, TypeInv, PollOK, PollType
  <2>2. /\ poll'.pc \in {"request", "token"}
        /\ poll'.query = DefaultStart /\ poll'.max = DefaultStart
    BY <1>6 DEF PersistDefault, Ask, TypeInv, PollOK, PollType
  <2>3. ckpt' = NoDate
    BY <1>6 DEF PersistDefault, At, QueryInv
  <2>4. QED
    BY <1>d, <2>1, <2>2, <2>3 DEF QueryInv, PageInv, HasQuery, Answered
<1>7. CASE Request
  <2>1. PICK p \in FirstPages(Fresh(poll.query)) :
          /\ poll' = [poll EXCEPT !.page = Versions(p), !.left = Versions(p),
                      !.pc = IF p = Fresh(poll.query) THEN "item" ELSE "more"]
          /\ dropped' = dropped \union Versions(Fresh(poll.query) \ p)
    BY <1>7 DEF Request
  <2>2. \A v \in Versions(p) : poll.query < v[2]
    BY <2>1, <1>t DEF FirstPages, Fresh, Versions, TypeInv, TypeOK
  <2>3. poll'.query = poll.query /\ poll'.max = poll.max /\ poll'.page = Versions(p)
    BY <2>1 DEF TypeInv, PollOK, PollType
  <2>4. HasQuery /\ poll.pc = "request" /\ ckpt' = ckpt
    BY <1>7 DEF Request, At, HasQuery
  <2>5. Answered'
    BY <2>1 DEF Answered, TypeInv, PollOK, PollType
  <2>6. QED
    BY <2>2, <2>3, <2>4, <2>5 DEF QueryInv, PageInv, Answered
<1>8. CASE RequestMore
    BY <1>8, <1>p DEF RequestMore, At, Answered, TypeInv, PollOK, PollType
<1>9. CASE AllWritten
    BY <1>9, <1>p DEF AllWritten, At, Answered, TypeInv, PollOK, PollType
<1>10. CASE GetCheckpoint
    BY <1>10, <1>p DEF GetCheckpoint, At, Answered, TypeInv, PollOK, PollType
<1>11. CASE PutCheckpoint
    BY <1>11, <1>i DEF PutCheckpoint
<1>12. ASSUME NEW v \in poll.left, WriteItem(v) PROVE (QueryInv /\ PageInv)'
  <2>1. HasQuery /\ ckpt' = ckpt
    BY <1>12 DEF WriteItem, At, HasQuery
  <2>2. /\ poll'.query = poll.query /\ poll'.page = poll.page
        /\ poll'.max = TextMax(v[2], poll.max)
    BY <1>12 DEF WriteItem, TypeInv, PollOK, PollType
  <2>3. poll.query <= poll'.max
    BY <2>1, <2>2, <1>t, TextMaxChooses DEF QueryInv, PageInv
  <2>4. Answered /\ poll'.pc = "item"
    BY <1>12 DEF WriteItem, At, Answered, TypeInv, PollOK, PollType
  <2>5. QED
    BY <2>1, <2>2, <2>3, <2>4 DEF QueryInv, PageInv, Answered
<1>13. ASSUME NEW v \in poll.left, RaiseOnItem(v) PROVE (QueryInv /\ PageInv)'
    BY <1>13, <1>i DEF RaiseOnItem
<1>14. CASE PollFault
    BY <1>14, <1>i DEF PollFault, PollFails, PutFailsLate, PersistFailsLate
<1>15. CASE Removal
    BY <1>15, <1>s DEF Removal, StartRemove, RemoveGet, RemoveCheckpoint,
       RemoveStanza, RemoveFails, DeleteCheckpoint, CreateInput
<1>16. CASE UNCHANGED vars
    BY <1>16, <1>s DEF vars
<1>17. QED
    BY <1>1, <1>2, <1>3, <1>4, <1>5, <1>6, <1>7, <1>8, <1>9, <1>10, <1>11, <1>12,
       <1>13, <1>14, <1>15, <1>16 DEF Next, PollStep

\* The checkpoint goes back only by being deleted (checkpoint_handler,
\* delete_checkpoint), for every page size and every failure.
THEOREM CheckpointGoesForward == Spec => CheckpointAdvances
<1>1. ASSUME AdvanceInv, [Next]_vars
      PROVE  [ckpt' = NoDate \/ ckpt' >= ckpt]_vars
  <2>1. ckpt \in Nat /\ poll.query \in Nat /\ poll.max \in Nat
    BY <1>1 DEF AdvanceInv, TypeInv, TypeOK, PollOK, PollType
  <2>2. ASSUME At("put"), StoreCheckpoint PROVE ckpt' = NoDate \/ ckpt' >= ckpt
    BY <1>1, <2>1, <2>2 DEF At, StoreCheckpoint, AdvanceInv, QueryInv, HasQuery
  <2>3. CASE PollFault
    BY <2>1, <2>2, <2>3 DEF PollFault, PollFails, PutFailsLate, PersistFailsLate
  <2>4. CASE PutCheckpoint
    BY <2>2, <2>4 DEF PutCheckpoint
  <2>5. CASE Removal
    BY <2>1, <2>5 DEF Removal, StartRemove, RemoveGet, RemoveCheckpoint,
       RemoveStanza, RemoveFails, DeleteCheckpoint, CreateInput
  <2>6. CASE PollStep /\ ~PutCheckpoint
    <3>1. ASSUME StartPoll \/ GetToken \/ ReadDate \/ PersistDefault \/ Request
                   \/ RequestMore \/ AllWritten \/ GetCheckpoint
          PROVE  ckpt' = ckpt
      BY <3>1 DEF StartPoll, GetToken, ReadDate, PersistDefault, Request, RequestMore,
         AllWritten, GetCheckpoint
    <3>2. \A v \in poll.left : WriteItem(v) \/ RaiseOnItem(v) => ckpt' = ckpt
      BY DEF WriteItem, RaiseOnItem
    <3>3. ckpt' = ckpt
      BY <2>6, <3>1, <3>2 DEF PollStep
    <3>4. QED
      BY <2>1, <3>3
  <2>7. CASE Tick \/ \E i \in Items : Update(i)
    BY <2>1, <2>7 DEF Tick, Update
  <2>8. QED
    BY <1>1, <2>3, <2>4, <2>5, <2>6, <2>7 DEF Next
<1>2. QED
  BY AdvanceInit, AdvanceStep, <1>1, PTL DEF Spec, CheckpointAdvances

-----------------------------------------------------------------------------
(* What the checkpoint covers was written *)

LEMMA LifeStep == AdvanceInv /\ LifeInv /\ [Next]_vars => LifeInv'
<1> SUFFICES ASSUME AdvanceInv, LifeInv, [Next]_vars PROVE LifeInv'
    OBVIOUS
<1>t. /\ poll.life \in Nat /\ life \in Nat /\ poll.start \in Nat /\ start \in Nat
      /\ ckpt \in Nat /\ since \in Nat /\ poll \in PollType
    BY DEF AdvanceInv, TypeInv, TypeOK, PollOK, PollType
<1>d. DefaultStart \in Nat
    BY DefaultStartDate DEF AdvanceInv, TypeInv, TypeOK, ClockInv
<1>s. ASSUME UNCHANGED <<kind, ckpt, start, stanza, life, since, poll>> PROVE LifeInv'
    BY <1>s DEF LifeInv, BeforeQuery, HasQuery, TokenFirst
\* The end of a poll.
<1>i. ASSUME poll' = Idle, UNCHANGED <<start, stanza, life, since>>,
             since # NoDate /\ ckpt' = NoDate => since = start
      PROVE  LifeInv'
    BY <1>i, <1>t DEF LifeInv, BeforeQuery, Idle
\* A step of a poll that has a date to ask from.
<1>p. ASSUME UNCHANGED <<kind, ckpt, start, stanza, life, since>>, ~BeforeQuery',
             poll'.life = poll.life, poll.pc # "idle", poll'.pc # "persist"
      PROVE  LifeInv'
    BY <1>p DEF LifeInv
<1>1. CASE Tick \/ \E i \in Items : Update(i)
    BY <1>1, <1>s DEF Tick, Update, conf
<1>2. CASE StartPoll
    BY <1>2, <1>t DEF StartPoll, Idle, LifeInv, BeforeQuery, conf
<1>3. CASE GetToken
    BY <1>3, <1>t DEF GetToken, At, LifeInv, BeforeQuery, HasQuery, TokenFirst,
       conf, PollType
<1>4. CASE ReadDate
  <2> DEFINE q == IF ckpt # NoDate THEN ckpt ELSE poll.start
  <2>1. BeforeQuery /\ UNCHANGED <<kind, ckpt, start, stanza, life>>
    BY <1>4 DEF ReadDate, At, BeforeQuery, HasQuery, conf
  <2>2. CASE q = NoDate
    <3>1. ckpt = NoDate /\ poll.start = NoDate
      BY <2>2, <1>t
    <3>2. since = NoDate
      BY <1>4, <2>1, <3>1 DEF LifeInv, ReadDate, At
    <3>3. poll' = [poll EXCEPT !.pc = "persist"] /\ since' = since
      BY <1>4, <2>2 DEF ReadDate
    <3>4. QED
      BY <1>t, <2>1, <3>2, <3>3 DEF LifeInv, BeforeQuery, HasQuery, PollType
  <2>3. CASE q # NoDate
    <3>1. poll' = Ask(q) /\ FirstDate(q)
      BY <1>4, <2>3 DEF ReadDate
    <3>2. ~BeforeQuery' /\ poll'.pc \notin {"idle", "persist"} /\ poll'.life = poll.life
      BY <1>t, <2>1, <3>1 DEF Ask, BeforeQuery, HasQuery, TokenFirst, PollType
    <3>3. ASSUME since = NoDate, since' # NoDate
          PROVE  stanza = "input" /\ poll.life = life /\ since' = q
      BY <3>1, <3>3 DEF FirstDate
    <3>4. ASSUME since # NoDate PROVE since' = since /\ poll.life = life
      BY <1>4, <3>1, <3>4 DEF FirstDate, LifeInv, ReadDate, At
    <3>5. QED
      BY <2>1, <3>2, <3>3, <3>4 DEF LifeInv
  <2>4. QED
    BY <2>2, <2>3
<1>5. CASE PersistDefault
  <2>1. since = NoDate /\ UNCHANGED <<kind, ckpt, life>> /\ start' = DefaultStart
    BY <1>5 DEF PersistDefault, At, LifeInv, StoreStart
  <2>2. poll' = Ask(DefaultStart) /\ FirstDate(DefaultStart)
    BY <1>5 DEF PersistDefault
  <2>3. ~BeforeQuery' /\ poll'.pc \notin {"idle", "persist"} /\ poll'.life = poll.life
    BY <1>t, <2>1, <2>2 DEF Ask, BeforeQuery, HasQuery, TokenFirst, PollType
  <2>4. since' # NoDate => /\ stanza = "input" /\ poll.life = life
                           /\ since' = DefaultStart
    BY <2>1, <2>2 DEF FirstDate
  <2>5. stanza = "input" => stanza' = "input"
    BY <1>5 DEF PersistDefault, StoreStart
  <2>6. QED
    BY <2>1, <2>3, <2>4, <2>5 DEF LifeInv
<1>6. CASE Request
    BY <1>6, <1>t, <1>p DEF Request, At, BeforeQuery, PollType, conf
<1>7. CASE RequestMore \/ AllWritten \/ GetCheckpoint
    BY <1>7, <1>t, <1>p DEF RequestMore, AllWritten, GetCheckpoint, At, BeforeQuery,
       PollType, conf
<1>8. ASSUME NEW v \in poll.left, WriteItem(v) PROVE LifeInv'
    BY <1>8, <1>t, <1>p DEF WriteItem, At, BeforeQuery, PollType, conf
<1>9. ASSUME NEW v \in poll.left, RaiseOnItem(v) PROVE LifeInv'
    BY <1>9, <1>i DEF RaiseOnItem, LifeInv, conf
<1>10. ASSUME At("put"), StoreCheckpoint, poll' = Idle,
              UNCHANGED <<start, stanza, life, since>>
       PROVE  LifeInv'
  <2>1. since # NoDate /\ poll.max = NoDate => since = start
    BY <1>10, <1>t DEF At, LifeInv, AdvanceInv, QueryInv, HasQuery, TypeInv, PollOK,
       PollType
  <2>2. QED
    BY <1>10, <1>i, <2>1 DEF StoreCheckpoint
<1>11. CASE PutCheckpoint
    BY <1>11, <1>10 DEF PutCheckpoint, conf
<1>12. CASE PollFails
    BY <1>12, <1>i DEF PollFails, LifeInv, conf
<1>13. CASE PutFailsLate
    BY <1>13, <1>10 DEF PutFailsLate, conf
<1>14. CASE PersistFailsLate
  <2>1. since' = NoDate /\ poll' = Idle /\ life' = life
    BY <1>14 DEF PersistFailsLate, At, LifeInv, StoreStart
  <2>2. QED
    BY <1>t, <2>1 DEF LifeInv, BeforeQuery, Idle
<1>15. CASE StartRemove \/ RemoveGet
    BY <1>15, <1>s DEF StartRemove, RemoveGet, conf
<1>16. ASSUME UNCHANGED <<kind, poll, conf>>, since' = NoDate PROVE LifeInv'
    BY <1>16 DEF LifeInv, BeforeQuery, HasQuery, TokenFirst, conf
<1>17. CASE RemoveCheckpoint
    BY <1>17, <1>16 DEF RemoveCheckpoint, DeleteCheckpoint
<1>18. CASE RemoveStanza
    BY <1>18 DEF RemoveStanza, LifeInv, BeforeQuery, HasQuery
<1>19. CASE RemoveFails
    BY <1>19, <1>s, <1>16 DEF RemoveFails, DeleteCheckpoint, conf
<1>20. CASE CreateInput
    BY <1>20, <1>t DEF CreateInput, LifeInv, BeforeQuery, HasQuery
<1>21. CASE UNCHANGED vars
    BY <1>21, <1>s DEF vars, conf
<1>22. QED
    BY <1>1, <1>2, <1>3, <1>4, <1>5, <1>6, <1>7, <1>8, <1>9, <1>11, <1>12, <1>13,
       <1>14, <1>15, <1>17, <1>18, <1>19, <1>20, <1>21
    DEF Next, PollStep, PollFault, Removal

LEMMA CoverInit == Init => CoverInv
<1> SUFFICES ASSUME Init PROVE CoverInv
    OBVIOUS
<1>1. LifeInv
    BY DEF Init, LifeInv, BeforeQuery, Idle
<1>2. AnswerInv
    BY DEF Init, AnswerInv, Answered, Idle
<1>3. QED
    BY AdvanceInit, <1>1, <1>2 DEF CoverInv, Init

LEMMA CoverStep == CoverInv /\ [Next]_vars => CoverInv'
<1> SUFFICES ASSUME CoverInv, [Next]_vars
             PROVE  /\ AnswerInv'
                    /\ since' # NoDate => /\ WrittenUpTo(ckpt)'
                                          /\ HasQuery' => WrittenUpTo(poll.query)'
    BY AdvanceStep, LifeStep DEF CoverInv
<1> DEFINE Upheld == since # NoDate =>
                        WrittenUpTo(ckpt) /\ (HasQuery => WrittenUpTo(poll.query))
           Goal == AnswerInv' /\ Upheld'
<1> HIDE DEF Upheld
<1>g. SUFFICES Goal
    BY DEF Upheld
<1>c. AdvanceInv /\ LifeInv /\ AnswerInv /\ Upheld
    BY DEF CoverInv, Upheld
<1>t. /\ poll \in PollType /\ ckpt \in Nat /\ since \in Nat /\ clock \in Nat
      /\ poll.query \in Nat /\ poll.max \in Nat
      /\ \A i \in Items : item[i] \in Nat
      /\ poll.left \subseteq poll.page
      /\ \A v \in poll.page : v[2] \in Nat /\ v[2] <= clock
      /\ ckpt <= clock /\ poll.query <= clock
    BY <1>c DEF AdvanceInv, TypeInv, TypeOK, ClockInv, PollOK, PollType
\* Nothing but the checkpoint and the first date changes, or they are dropped.
<1>s. ASSUME UNCHANGED <<kind, dropped, item, written, poll>>,
             \/ UNCHANGED <<ckpt, since>>
             \/ since' = NoDate
      PROVE  Goal
  <2>1. AnswerInv'
    BY <1>s, <1>c DEF AnswerInv, Answered
  <2>2. Upheld'
    BY <1>s, <1>c DEF Upheld, WrittenUpTo, HasQuery, TokenFirst
  <2>3. QED
    BY <1>s, <1>c, <2>1, <2>2
\* A poll ends, and leaves the checkpoint as it is.
<1>i. ASSUME poll' = Idle, UNCHANGED <<dropped, item, ckpt, since>>, written \subseteq written'
      PROVE  Goal
  <2>1. AnswerInv' /\ ~HasQuery'
    BY <1>i DEF AnswerInv, Answered, Idle, HasQuery
  <2>2. Upheld'
    BY <1>i, <1>c, <2>1 DEF Upheld, WrittenUpTo
  <2>3. QED
    BY <2>1, <2>2
<1>1. CASE Tick
    BY <1>1, <1>s DEF Tick
<1>2. ASSUME NEW i \in Items, Update(i) PROVE Goal
  <2>1. /\ \A j \in Items : item'[j] = item[j] \/ item'[j] > clock
        /\ \A j \in Items : item'[j] \in Nat
        /\ UNCHANGED <<kind, dropped, written, ckpt, since, poll>>
    BY <1>2, <1>t, <1>c DEF Update, AdvanceInv, TypeInv, TypeOK
  <2>2. AnswerInv'
    BY <2>1, <1>t, <1>c DEF AnswerInv, Answered
  <2>3. Upheld'
    BY <2>1, <1>t, <1>c DEF Upheld, WrittenUpTo, HasQuery, TokenFirst
  <2>4. QED
    BY <2>1, <2>2, <2>3, <1>c
\* A step of a poll without an answer, which leaves the checkpoint as it is.
<1>q. ASSUME UNCHANGED <<kind, dropped, item, written, ckpt>>,
             poll'.pc \notin {"more", "item", "get", "put"},
             since # NoDate => since' = since,
             HasQuery' /\ since' # NoDate =>
               \/ poll'.query \in {ckpt, since'}
               \/ HasQuery /\ poll'.query = poll.query,
             since' \in Nat,
             since = NoDate /\ since' # NoDate => HasQuery' /\ poll'.query = since',
             since = NoDate /\ since' # NoDate /\ ckpt # NoDate => since' = ckpt
      PROVE  Goal
  <2>1. AnswerInv'
    BY <1>q DEF AnswerInv, Answered
  <2>2. ASSUME since' # NoDate, since = NoDate PROVE Upheld'
    BY <1>q, <1>t, <2>2 DEF Upheld, WrittenUpTo
  <2>3. ASSUME since' # NoDate, since # NoDate PROVE Upheld'
    BY <1>q, <1>c, <1>t, <2>3 DEF Upheld, WrittenUpTo
  <2>4. QED
    BY <2>1, <2>2, <2>3 DEF Upheld
<1>3. CASE StartPoll
  <2>1. poll'.pc = (IF TokenFirst THEN "token" ELSE "date") /\ ~HasQuery'
    BY <1>3 DEF StartPoll, Idle, HasQuery, TokenFirst
  <2>2. QED
    BY <1>3, <1>q, <1>t, <2>1 DEF StartPoll, service
<1>4. CASE GetToken
  <2>1. /\ poll'.pc = (IF TokenFirst THEN "date" ELSE "request")
        /\ poll'.query = poll.query /\ kind' = kind
    BY <1>4, <1>t DEF GetToken, PollType
  <2>2. HasQuery' => HasQuery
    BY <1>4, <2>1 DEF GetToken, At, HasQuery, TokenFirst
  <2>3. QED
    BY <1>4, <1>q, <1>t, <2>1, <2>2 DEF GetToken, service
<1>5. CASE ReadDate
  <2> DEFINE q == IF ckpt # NoDate THEN ckpt ELSE poll.start
  <2>1. UNCHANGED <<kind, dropped, item, written, ckpt>>
    BY <1>5 DEF ReadDate, service
  <2>2. CASE q = NoDate
    <3>1. poll'.pc = "persist" /\ ~HasQuery' /\ since' = since
      BY <1>5, <1>t, <2>2 DEF ReadDate, HasQuery, PollType
    <3>2. QED
      BY <1>q, <1>t, <2>1, <3>1
  <2>3. CASE q # NoDate
    <3>1. poll' = Ask(q) /\ FirstDate(q)
      BY <1>5, <2>3 DEF ReadDate
    <3>2. poll'.query = q /\ poll'.pc \in {"request", "token"} /\ HasQuery'
      BY <1>t, <2>1, <3>1 DEF Ask, HasQuery, TokenFirst, PollType
    <3>3. since' = since \/ (since = NoDate /\ since' = q)
      BY <3>1 DEF FirstDate
    <3>4. q \in Nat
      BY <1>t DEF PollType
    <3>5. ASSUME since # NoDate, ckpt = NoDate PROVE q = since
      BY <1>5, <1>c, <3>5 DEF ReadDate, At, LifeInv, BeforeQuery, HasQuery
    <3>6. QED
      BY <1>q, <1>t, <2>1, <3>2, <3>3, <3>4, <3>5
  <2>4. QED
    BY <2>2, <2>3
<1>6. CASE PersistDefault
  <2>1. DefaultStart \in Nat
    BY DefaultStartDate, <1>c DEF AdvanceInv, TypeInv, TypeOK, ClockInv
  <2>2. poll' = Ask(DefaultStart) /\ FirstDate(DefaultStart)
        /\ UNCHANGED <<kind, dropped, item, written, ckpt>>
    BY <1>6 DEF PersistDefault, service
  <2>3. since = NoDate /\ ckpt = NoDate
    BY <1>6, <1>c DEF PersistDefault, At, LifeInv, AdvanceInv, QueryInv
  <2>4. /\ poll'.query = DefaultStart /\ poll'.pc \in {"request", "token"} /\ HasQuery'
        /\ since' \in {NoDate, DefaultStart}
    BY <1>t, <2>2, <2>3 DEF Ask, HasQuery, TokenFirst, PollType, FirstDate
  <2>5. QED
    BY <1>q, <1>t, <2>1, <2>2, <2>3, <2>4
<1>7. CASE Request
  <2> DEFINE fresh == Fresh(poll.query)
  <2>1. PICK p \in FirstPages(fresh) :
          /\ poll' = [poll EXCEPT !.page = Versions(p), !.left = Versions(p),
                      !.pc = IF p = fresh THEN "item" ELSE "more"]
          /\ dropped' = dropped \union Versions(fresh \ p)
    BY <1>7 DEF Request
  <2>2. /\ poll'.page = Versions(p) /\ poll'.left = Versions(p)
        /\ poll'.pc \in {"item", "more"}
        /\ poll'.query = poll.query /\ poll'.max = poll.max
    BY <1>t, <2>1 DEF PollType
  <2>3. UNCHANGED <<kind, item, written, ckpt, since>> /\ HasQuery
    BY <1>7 DEF Request, service, At, HasQuery
  <2>4. ASSUME NEW i \in Items, NEW v \in Versions(p), poll.query < item[i],
               item[i] <= v[2]
        PROVE  <<i, item[i]>> \in Versions(p) \union dropped'
    <3>1. PICK j \in p : v = <<j, item[j]>>
      BY DEF Versions
    <3>2. j \in fresh
      BY DEF FirstPages
    <3>3. kind = "simulations" => item[j] < Formatted(clock)
      BY <3>2 DEF Fresh
    <3>4. clock \in Nat => Formatted(clock) \in Nat
      BY DEF Formatted
    <3>5. item[i] \in Nat /\ item[j] \in Nat /\ item[i] <= item[j]
      BY <1>t, <2>4, <3>1, <3>2 DEF Fresh
    <3>6. i \in fresh
      BY <1>t, <2>4, <3>3, <3>4, <3>5 DEF Fresh
    <3>7. QED
      BY <2>1, <3>6 DEF Versions
  <2>5. poll.max = poll.query
    BY <1>7, <1>c DEF Request, At, AdvanceInv, QueryInv, HasQuery
  <2>6. AnswerInv'
    BY <2>2, <2>3, <2>4, <2>5 DEF AnswerInv, Answered
  <2>7. Upheld'
    BY <1>c, <2>1, <2>2, <2>3 DEF Upheld, WrittenUpTo
  <2>8. QED
    BY <2>6, <2>7
<1>9. CASE RequestMore \/ AllWritten \/ GetCheckpoint
  <2>1. /\ poll.pc \in {"more", "item", "get"} /\ poll'.pc \in {"item", "get", "put"}
        /\ poll'.pc \in {"get", "put"} => poll.left = {}
        /\ poll'.page = poll.page /\ poll'.left = poll.left
        /\ poll'.query = poll.query /\ poll'.max = poll.max
        /\ UNCHANGED <<kind, dropped, item, written, ckpt, since>>
    BY <1>9, <1>t, <1>c DEF RequestMore, AllWritten, GetCheckpoint, At, PollType,
       service, AnswerInv, Answered
  <2>2. AnswerInv'
    BY <2>1, <1>c DEF AnswerInv, Answered
  <2>3. Upheld'
    BY <2>1, <1>c DEF Upheld, WrittenUpTo, HasQuery
  <2>4. QED
    BY <2>2, <2>3
<1>10. ASSUME NEW v \in poll.left, WriteItem(v) PROVE Goal
  <2>1. /\ poll.pc = "item" /\ poll'.pc = "item" /\ poll'.page = poll.page
        /\ poll'.left = poll.left \ {v} /\ poll'.query = poll.query
        /\ poll'.max = TextMax(v[2], poll.max) /\ written' = written \union {v}
        /\ UNCHANGED <<kind, dropped, item, ckpt, since>>
    BY <1>10, <1>t DEF WriteItem, At, PollType, service
  <2>2. v \in poll.page
    BY <1>t
  <2>3. poll'.max = v[2] \/ poll'.max = poll.max
    BY <2>1, TextMaxChooses
  <2>4. AnswerInv'
    BY <2>1, <2>2, <2>3, <1>c DEF AnswerInv, Answered
  <2>5. Upheld'
    BY <2>1, <1>c DEF Upheld, WrittenUpTo, HasQuery
  <2>6. QED
    BY <2>1, <2>4, <2>5
<1>11. ASSUME NEW v \in poll.left, RaiseOnItem(v) PROVE Goal
    BY <1>11, <1>i DEF RaiseOnItem, service
<1>12. ASSUME At("put"), StoreCheckpoint, poll' = Idle, UNCHANGED <<dropped, item, written, since>>
       PROVE  Goal
  <2>1. AnswerInv' /\ ~HasQuery'
    BY <1>12 DEF AnswerInv, Answered, Idle, HasQuery
  <2>2. ASSUME since # NoDate, NEW i \in Items, since < item[i], item[i] <= poll.max
        PROVE  <<i, item[i]>> \in written \union dropped
    <3>1. CASE item[i] <= poll.query
      BY <1>12, <1>c, <2>2, <3>1 DEF At, HasQuery, Upheld, WrittenUpTo
    <3>2. CASE poll.query < item[i]
      <4>1. poll.page \subseteq written
        BY <1>12, <1>c DEF At, AnswerInv, Answered
      <4>2. PICK v \in poll.page : poll.max = v[2]
        BY <1>12, <1>c, <1>t, <2>2, <3>2 DEF At, AnswerInv, Answered
      <4>3. QED
        BY <1>12, <1>c, <2>2, <3>2, <4>1, <4>2 DEF At, AnswerInv, Answered
    <3>3. QED
      BY <1>t, <3>1, <3>2
  <2>3. Upheld'
    BY <1>12, <2>1, <2>2 DEF Upheld, WrittenUpTo, StoreCheckpoint
  <2>4. QED
    BY <2>1, <2>3
<1>13. CASE PutCheckpoint
    BY <1>13, <1>12 DEF PutCheckpoint, service
<1>14. CASE PollFault
    BY <1>14, <1>i, <1>12 DEF PollFault, PollFails, PutFailsLate, PersistFailsLate,
       service
<1>15. CASE StartRemove \/ RemoveGet \/ CreateInput
    BY <1>15, <1>s DEF StartRemove, RemoveGet, CreateInput, service
<1>16. CASE RemoveCheckpoint \/ RemoveStanza \/ RemoveFails
    BY <1>16, <1>s DEF RemoveCheckpoint, RemoveStanza, RemoveFails, DeleteCheckpoint,
       service
<1>17. CASE UNCHANGED vars
    BY <1>17, <1>s DEF vars, service
<1>18. QED
    BY <1>1, <1>2, <1>3, <1>4, <1>5, <1>6, <1>7, <1>9, <1>10, <1>11, <1>13,
       <1>14, <1>15, <1>16, <1>17
    DEF Next, PollStep, Removal

\* What the checkpoint covers was written, or was on a page that was thrown
\* away, whatever fails and whenever the input is removed (stream_events,
\* checkpoint_handler).
THEOREM NothingSkipped == Spec => []CoveredIsWritten
<1>1. CoverInv => CoveredIsWritten
    BY DEF CoverInv, CoveredIsWritten, Covered, WrittenUpTo
<1>2. QED
    BY CoverInit, CoverStep, <1>1, PTL DEF Spec

\* A page that is large enough holds all that is fresh.
LEMMA WholeAnswer ==
    ASSUME OnePage, NEW q
    PROVE  FirstPages(Fresh(q)) = {Fresh(q)}
<1>1. Fresh(q) \subseteq Items
    BY DEF Fresh
<1>2. IsFiniteSet(Fresh(q)) /\ Cardinality(Fresh(q)) <= Cardinality(Items)
    BY <1>1, FS_Subset
<1>3. Cardinality(Items) \in Nat /\ Cardinality(Fresh(q)) \in Nat
    BY <1>2, FS_CardinalityType
<1>4. QED
    BY <1>2, <1>3 DEF OnePage, FirstPages

\* No answer of several pages, nothing thrown away.
OnePageInv == OnePage /\ dropped = {}
LEMMA NothingDropped == OnePage /\ Spec => []OnePageInv
<1>1. OnePage /\ Init => OnePageInv
    BY DEF Init, OnePageInv
<1>2. OnePageInv /\ [Next]_vars => OnePageInv'
  <2> SUFFICES ASSUME OnePage, dropped = {}, [Next]_vars PROVE dropped' = {}
    BY DEF OnePageInv, OnePage
  <2>1. CASE Request
    <3>1. PICK p \in FirstPages(Fresh(poll.query)) :
            dropped' = dropped \union Versions(Fresh(poll.query) \ p)
      BY <2>1 DEF Request
    <3>2. Fresh(poll.query) \ p = {}
      BY <3>1, WholeAnswer
    <3>3. QED
      BY <3>1, <3>2 DEF Versions
  <2>2. CASE PollStep /\ ~Request
    BY <2>2 DEF PollStep, StartPoll, GetToken, ReadDate, PersistDefault,
       RequestMore, AllWritten, GetCheckpoint, PutCheckpoint, WriteItem, RaiseOnItem
  <2>3. CASE PollFault \/ Removal \/ Tick \/ \E i \in Items : Update(i)
    BY <2>3 DEF PollFault, PollFails, PutFailsLate, PersistFailsLate, Tick, Update,
       Removal, StartRemove, RemoveGet, RemoveCheckpoint, RemoveStanza, RemoveFails,
       CreateInput
  <2>4. CASE UNCHANGED vars
    BY <2>4 DEF vars
  <2>5. QED
    BY <2>1, <2>2, <2>3, <2>4 DEF Next
<1>3. QED
    BY <1>1, <1>2, PTL DEF Spec

\* If an answer always fits in a page, what the checkpoint covers was written.
THEOREM OnePageIsEnough == OnePage /\ Spec => []EveryPageIsWritten
<1>1. CoveredIsWritten /\ OnePageInv => EveryPageIsWritten
    BY DEF OnePageInv, CoveredIsWritten, EveryPageIsWritten
<1>2. QED
    BY NothingSkipped, NothingDropped, <1>1, PTL
-----------------------------------------------------------------------------
(* Removal and creation *)

LEMMA RaceStep == AdvanceInv /\ LifeInv /\ RaceInv /\ [Next]_vars => RaceInv'
<1> SUFFICES ASSUME AdvanceInv, LifeInv, RaceInv, [Next]_vars, ~raced'
             PROVE  /\ poll'.pc # "idle" => poll'.life = life' /\ stanza' = "input"
                    /\ HasQuery' \/ ckpt' # NoDate => since' # NoDate
                    /\ since' # NoDate => since' = start'
                    /\ rm' = "conf" => ckpt' = NoDate
    BY DEF RaceInv
<1> DEFINE Goal == /\ poll'.pc # "idle" => poll'.life = life' /\ stanza' = "input"
                   /\ HasQuery' \/ ckpt' # NoDate => since' # NoDate
                   /\ since' # NoDate => since' = start'
                   /\ rm' = "conf" => ckpt' = NoDate
<1>t. /\ poll.start \in Nat /\ start \in Nat /\ ckpt \in Nat /\ since \in Nat
      /\ poll \in PollType
    BY DEF AdvanceInv, TypeInv, TypeOK, PollOK, PollType
<1>d. DefaultStart # NoDate
  <2>1. clock \in Nat /\ Window \in Nat /\ clock >= Window + 2
      BY DEF AdvanceInv, TypeInv, TypeOK, ClockInv
  <2>2. clock - Window \in Nat /\ clock - Window >= 2
      BY <2>1
  <2>3. \A n \in Nat : n >= 2 => 2 * (n \div 2) # 0
      OBVIOUS
  <2>4. QED
      BY <2>2, <2>3 DEF DefaultStart, Formatted
\* What holds as long as no poll ran during a removal, if this step is not one.
<1>n. ASSUME ~raced
      PROVE  /\ poll.pc # "idle" => poll.life = life /\ stanza = "input"
             /\ HasQuery \/ ckpt # NoDate => since # NoDate
             /\ since # NoDate => since = start
             /\ rm = "conf" => ckpt = NoDate
    BY <1>n DEF RaceInv
\* A step of a poll, or outside it, that leaves the input alone.
<1>s. ASSUME UNCHANGED <<ckpt, start, stanza, life, since, rm, raced>>,
             \/ poll' = poll
             \/ poll'.pc = "idle"
             \/ poll.pc # "idle" /\ poll'.life = poll.life,
             HasQuery' => HasQuery
      PROVE  Goal
    BY <1>s, <1>n
<1>i. ~(Idle.pc \in {"request", "more", "item", "get", "put"}) /\ Idle.pc = "idle"
    BY DEF Idle
<1>1. CASE Tick \/ \E i \in Items : Update(i)
    BY <1>1, <1>s DEF Tick, Update, conf, HasQuery, TokenFirst
<1>2. CASE StartPoll
  <2>1. poll'.life = life /\ ~HasQuery' /\ poll'.pc \in {"token", "date"}
      BY <1>2 DEF StartPoll, Idle, HasQuery, TokenFirst
  <2>2. QED
      BY <1>2, <1>n, <2>1 DEF StartPoll, conf
<1>3. CASE GetToken
  <2>1. poll'.life = poll.life /\ (HasQuery' => HasQuery)
      BY <1>3, <1>t DEF GetToken, PollType, HasQuery, TokenFirst, At
  <2>2. QED
      BY <1>3, <1>s, <2>1 DEF GetToken, At, conf
<1>4. CASE ReadDate
  <2>1. ~raced /\ poll.life = life /\ stanza = "input" /\ UNCHANGED <<conf, rm, ckpt>>
      BY <1>4, <1>n DEF ReadDate, At
  <2>2. poll'.life = poll.life
      BY <1>4, <1>t DEF ReadDate, Ask, PollType
  <2>3. poll.start = start
      BY <1>4, <2>1 DEF ReadDate, At, LifeInv, BeforeQuery, HasQuery
  <2>4. CASE ckpt = NoDate /\ poll.start = NoDate
    <3>1. since' = since /\ poll'.pc = "persist"
        BY <1>4, <1>t, <2>4 DEF ReadDate, PollType
    <3>2. QED
        BY <1>n, <2>1, <2>2, <3>1 DEF conf, HasQuery
  <2>5. CASE ckpt # NoDate
      BY <1>4, <1>n, <2>1, <2>2, <2>5 DEF ReadDate, FirstDate, conf
  <2>6. CASE ckpt = NoDate /\ poll.start # NoDate
    <3>1. since' = IF since = NoDate THEN start ELSE since
        BY <1>4, <2>1, <2>3, <2>6 DEF ReadDate, FirstDate
    <3>2. QED
        BY <1>n, <2>1, <2>2, <2>3, <2>6, <3>1 DEF conf
  <2>7. QED
      BY <2>4, <2>5, <2>6
<1>5. CASE PersistDefault
  <2>1. ~raced /\ poll.life = life /\ stanza = "input" /\ since = NoDate
      BY <1>5, <1>n DEF PersistDefault, At, LifeInv
  <2>2. since' = DefaultStart /\ start' = DefaultStart /\ UNCHANGED <<stanza, life, rm, ckpt>>
      BY <1>5, <2>1 DEF PersistDefault, FirstDate, StoreStart
  <2>3. poll'.life = poll.life
      BY <1>5, <1>t DEF PersistDefault, Ask, PollType
  <2>4. QED
      BY <1>d, <1>n, <2>1, <2>2, <2>3
<1>6. CASE Request
  <2>1. poll'.life = poll.life /\ HasQuery
      BY <1>6, <1>t DEF Request, PollType, HasQuery, At
  <2>2. QED
      BY <1>6, <1>s, <2>1 DEF Request, At, conf
<1>7. CASE RequestMore \/ AllWritten \/ GetCheckpoint
  <2>1. poll'.life = poll.life /\ HasQuery
      BY <1>7, <1>t DEF RequestMore, AllWritten, GetCheckpoint, PollType, HasQuery, At
  <2>2. QED
      BY <1>7, <1>s, <2>1 DEF RequestMore, AllWritten, GetCheckpoint, At, conf
<1>8. CASE PutCheckpoint \/ PutFailsLate
  <2>1. /\ ~raced /\ rm = "idle" /\ stanza = "input" /\ HasQuery
        /\ poll' = Idle /\ UNCHANGED <<conf, since, rm>>
      BY <1>8 DEF PutCheckpoint, PutFailsLate, StoreCheckpoint, At, HasQuery
  <2>2. QED
      BY <1>i, <1>n, <2>1 DEF conf
<1>9. ASSUME NEW v \in poll.left, WriteItem(v) PROVE Goal
  <2>1. poll'.life = poll.life /\ HasQuery
      BY <1>9, <1>t DEF WriteItem, PollType, HasQuery, At
  <2>2. QED
      BY <1>9, <1>s, <2>1 DEF WriteItem, At, conf
<1>10. ASSUME NEW v \in poll.left, RaiseOnItem(v) PROVE Goal
    BY <1>10, <1>s, <1>i DEF RaiseOnItem, conf, HasQuery
<1>11. CASE PollFails
    BY <1>11, <1>s, <1>i DEF PollFails, conf, HasQuery
<1>12. CASE PersistFailsLate
  <2>1. ~raced /\ stanza = "input" /\ since = NoDate
      BY <1>12, <1>n DEF PersistFailsLate, At, LifeInv
  <2>2. poll' = Idle /\ UNCHANGED <<stanza, life, since, rm, ckpt>>
      BY <1>12, <2>1 DEF PersistFailsLate, StoreStart
  <2>3. QED
      BY <1>i, <1>n, <2>1, <2>2 DEF HasQuery
<1>13. CASE StartRemove \/ RemoveGet
  <2>1. /\ UNCHANGED <<kind, ckpt, stanza, start, life, since, poll, raced>>
        /\ rm' = "conf" => ckpt = NoDate
      BY <1>13 DEF StartRemove, RemoveGet, conf
  <2>2. QED
      BY <1>n, <2>1 DEF HasQuery, TokenFirst
<1>14. ASSUME DeleteCheckpoint, UNCHANGED <<kind, conf, poll>> PROVE Goal
  <2>1. poll.pc = "idle" /\ ckpt' = NoDate /\ since' = NoDate
      BY <1>14 DEF DeleteCheckpoint, At
  <2>2. QED
      BY <1>14, <2>1 DEF HasQuery
<1>15. CASE RemoveCheckpoint
    BY <1>14, <1>15 DEF RemoveCheckpoint
<1>16. CASE RemoveStanza
  <2>1. /\ ~raced /\ poll.pc = "idle" /\ rm = "conf" /\ since' = NoDate
        /\ UNCHANGED <<kind, ckpt, poll>> /\ rm' = "idle"
      BY <1>16 DEF RemoveStanza, At
  <2>2. QED
      BY <1>n, <2>1 DEF HasQuery
<1>17. CASE RemoveFails
  <2>1. CASE DeleteCheckpoint
      BY <1>14, <1>17, <2>1 DEF RemoveFails
  <2>2. CASE UNCHANGED <<ckpt, since, raced>>
      BY <1>17, <1>n, <2>2 DEF RemoveFails, conf, HasQuery, TokenFirst
  <2>3. QED
      BY <1>17, <2>1, <2>2 DEF RemoveFails
<1>18. CASE CreateInput
  <2>1. /\ ~raced /\ stanza = "none" /\ rm' = rm /\ stanza' = "input"
        /\ UNCHANGED <<kind, ckpt, since, poll>>
      BY <1>18 DEF CreateInput
  <2>2. since = NoDate /\ poll.pc = "idle"
      BY <1>n, <2>1 DEF LifeInv
  <2>3. QED
      BY <1>n, <2>1, <2>2 DEF HasQuery
<1>19. CASE UNCHANGED vars
    BY <1>19, <1>s DEF vars, conf, HasQuery, TokenFirst
<1>20. QED
    BY <1>1, <1>2, <1>3, <1>4, <1>5, <1>6, <1>7, <1>8, <1>9, <1>10, <1>11, <1>12,
       <1>13, <1>15, <1>16, <1>17, <1>18, <1>19
    DEF Next, PollStep, PollFault, Removal

\* The three invariants of the life of an input, together.
LEMMA RaceHolds == Spec => [](AdvanceInv /\ LifeInv /\ RaceInv)
<1>1. Init => AdvanceInv /\ LifeInv /\ RaceInv
    BY AdvanceInit DEF Init, LifeInv, RaceInv, BeforeQuery, HasQuery, Idle
<1>2. AdvanceInv /\ LifeInv /\ RaceInv /\ [Next]_vars
        => (AdvanceInv /\ LifeInv /\ RaceInv)'
    BY AdvanceStep, LifeStep, RaceStep
<1>3. QED
    BY <1>1, <1>2, PTL DEF Spec

\* A checkpoint survives its input only if a poll ran during the removal
\* (delete_checkpoint, and RemoveStanza after it, whatever fails).
THEOREM RemovalDeletes == Spec => []RemovalDeletesCheckpoint
<1>1. LifeInv /\ RaceInv => RemovalDeletesCheckpoint
    BY DEF LifeInv, RaceInv, RemovalDeletesCheckpoint
<1>2. QED
    BY RaceHolds, <1>1, PTL

\* An input, also one of the name of a removed one, first asks from its own
\* start date, unless a poll ran during the removal (get_start_date).
THEOREM AsksFromStart == Spec => []CreatedAsksFromStart
<1>1. RaceInv => CreatedAsksFromStart
    BY DEF RaceInv, CreatedAsksFromStart
<1>2. QED
    BY RaceHolds, <1>1, PTL

-----------------------------------------------------------------------------
(* The checkpoint is the latest date *)

LEMMA LatestStep == TypeInv /\ LatestInv /\ [Next]_vars => LatestInv'
<1> SUFFICES ASSUME TypeInv, LatestInv, [Next]_vars PROVE LatestInv'
    OBVIOUS
<1>t. poll \in PollType /\ poll.max \in Nat /\ \A v \in poll.page : v[2] \in Nat
    BY DEF TypeInv, TypeOK, PollOK, PollType
<1>l. poll.left \subseteq poll.page
    BY DEF TypeInv, PollOK
<1>s. ASSUME poll' = poll PROVE LatestInv'
    BY <1>s DEF LatestInv, Answered
<1>a. ASSUME poll'.pc \in {"idle", "token", "date", "persist", "request"}
      PROVE  LatestInv'
    BY <1>a DEF LatestInv, Answered
<1>1. CASE Tick \/ (\E i \in Items : Update(i)) \/ Removal \/ UNCHANGED vars
    BY <1>1, <1>s DEF Tick, Update, Removal, StartRemove, RemoveGet, RemoveCheckpoint,
       RemoveStanza, RemoveFails, CreateInput, vars
<1>2. CASE PollFault
    BY <1>2, <1>a DEF PollFault, PollFails, PutFailsLate, PersistFailsLate, Idle
<1>3. CASE PutCheckpoint \/ \E v \in poll.left : RaiseOnItem(v)
    BY <1>3, <1>a DEF PutCheckpoint, RaiseOnItem, Idle
<1>4. CASE StartPoll \/ GetToken
  <2>1. poll'.pc \in {"token", "date", "request"}
      BY <1>4, <1>t DEF StartPoll, GetToken, Idle, PollType
  <2>2. QED
      BY <1>a, <2>1
<1>5. CASE ReadDate \/ PersistDefault
  <2>1. poll'.pc \in {"token", "persist", "request"}
      BY <1>5, <1>t DEF ReadDate, PersistDefault, Ask, PollType
  <2>2. QED
      BY <1>a, <2>1
<1>6. CASE Request
  <2>1. poll'.page = poll'.left /\ poll'.pc \in {"item", "more"}
      BY <1>6, <1>t DEF Request, PollType
  <2>2. QED
      BY <2>1 DEF LatestInv
<1>7. CASE RequestMore
  <2>1. /\ poll'.page = poll.page /\ poll'.left = poll.left /\ poll'.max = poll.max
        /\ poll.pc = "more" /\ poll'.pc = "item"
      BY <1>7, <1>t DEF RequestMore, At, PollType
  <2>2. QED
      BY <2>1 DEF LatestInv, Answered
<1>8. CASE AllWritten \/ GetCheckpoint
  <2>1. /\ poll'.page = poll.page /\ poll'.left = poll.left /\ poll'.max = poll.max
        /\ poll.pc \in {"item", "get"}
        /\ poll.left = {} \/ poll.pc = "get"
      BY <1>8, <1>t DEF AllWritten, GetCheckpoint, At, PollType
  <2>2. QED
      BY <2>1 DEF LatestInv, Answered
<1>9. ASSUME NEW v \in poll.left, WriteItem(v) PROVE LatestInv'
  <2>1. /\ poll'.page = poll.page /\ poll'.left = poll.left \ {v}
        /\ poll'.max = TextMax(v[2], poll.max)
        /\ poll.pc = "item" /\ poll'.pc = "item"
      BY <1>9, <1>t DEF WriteItem, At, PollType
  <2>2. v[2] \div 2 <= poll'.max \div 2 /\ poll.max \div 2 <= poll'.max \div 2
      BY <1>t, <1>l, <2>1, TextMaxSecond
  <2>3. poll'.max \in Nat
      BY <1>t, <1>l, <2>1, TextMaxChooses
  <2>4. ASSUME NEW w \in poll.page, w \notin poll.left \/ w = v
        PROVE  w[2] \div 2 <= poll'.max \div 2
    <3>1. CASE w = v
        BY <2>2, <3>1
    <3>2. CASE w \notin poll.left
      <4>1. w[2] \div 2 <= poll.max \div 2
          BY <2>1, <3>2 DEF LatestInv, Answered
      <4>2. w[2] \div 2 \in Int /\ poll.max \div 2 \in Int /\ poll'.max \div 2 \in Int
          BY <1>t, <2>3
      <4>3. QED
          BY <2>2, <4>1, <4>2
    <3>3. QED
        BY <2>4, <3>1, <3>2
  <2>5. QED
      BY <2>1, <2>4 DEF LatestInv
<1>10. QED
    BY <1>1, <1>2, <1>3, <1>4, <1>5, <1>6, <1>7, <1>8, <1>9 DEF Next, PollStep

\* The checkpoint a poll stores lies in the second of the latest date it
\* wrote, although dates are compared as text (checkpoint_handler).
THEOREM StoresTheLatest == Spec => []CheckpointIsLatest
<1>1. Init => LatestInv
    BY DEF Init, LatestInv, Answered, Idle
<1>2. LatestInv => CheckpointIsLatest
    BY DEF LatestInv, Answered, CheckpointIsLatest, At
<1>3. QED
    BY TypeInit, TypeStep, LatestStep, <1>1, <1>2, PTL DEF Spec
-----------------------------------------------------------------------------
(* Nothing is written twice *)

\* The input has been created.
LEMMA LifeCounts == TypeInv /\ life # 0 /\ [Next]_vars => life' # 0
<1> SUFFICES ASSUME TypeInv, life # 0, [Next]_vars, life' # life PROVE life' # 0
    OBVIOUS
<1>1. life \in Nat
    BY DEF TypeInv, TypeOK
<1>2. CreateInput
    BY DEF Next, PollStep, PollFault, Removal, Tick, Update, StartPoll, GetToken, ReadDate,
       PersistDefault, StoreStart, Request, RequestMore, AllWritten, GetCheckpoint,
       PutCheckpoint, WriteItem, RaiseOnItem, PollFails, PutFailsLate, PersistFailsLate,
       StartRemove, RemoveGet, RemoveCheckpoint, RemoveStanza, RemoveFails, conf, vars
<1>3. QED
    BY <1>1, <1>2 DEF CreateInput

LEMMA OnceStep == AdvanceInv /\ life # 0 /\ OnceInv /\ [Next]_vars => OnceInv'
<1> SUFFICES ASSUME AdvanceInv, life # 0, OnceInv, [Next]_vars, QuietSoFar'
             PROVE  OnceInv'
    BY DEF OnceInv
<1>t. /\ poll \in PollType /\ poll.query \in Nat /\ poll.max \in Nat
      /\ ckpt \in Nat /\ poll.start \in Nat /\ poll.left \subseteq poll.page
      /\ life \in Nat /\ faults \in Nat
      /\ \A v \in poll.page : v[2] \in Nat
    BY DEF AdvanceInv, TypeInv, TypeOK, PollOK, PollType
<1>w. \A v \in written : v[2] \in Nat
    BY DEF AdvanceInv, TypeInv, TypeOK
<1>d. DefaultStart \in Nat /\ DefaultStart # NoDate
  <2>1. clock \in Dates /\ clock \in Nat /\ Window \in Nat /\ clock >= Window + 2
      BY DEF AdvanceInv, TypeInv, TypeOK, ClockInv
  <2>2. clock - Window \in Nat /\ clock - Window >= 2
      BY <2>1
  <2>3. \A n \in Nat : n >= 2 => 2 * (n \div 2) # 0 /\ 2 * (n \div 2) \in Nat
      OBVIOUS
  <2>4. QED
      BY <2>2, <2>3 DEF DefaultStart, Formatted
\* What OnceInv says if the input was quiet before the step.
<1>n. ASSUME QuietSoFar
      PROVE  /\ HasQuery => /\ poll.query # NoDate /\ NoneLater(poll.query)
                            /\ ckpt # NoDate => poll.query = ckpt
             /\ Answered => \A v \in poll.page \ poll.left : NoneLater(v[2])
             /\ poll.pc \in {"get", "put"} => poll.left = {}
             /\ \A v \in written :
                   \/ v \in poll.page \ poll.left
                   \/ ckpt # NoDate /\ ~TextLater(v[2], ckpt)
    BY <1>n DEF OnceInv
\* A step that changes nothing the invariant is about.
<1>s. ASSUME QuietSoFar, UNCHANGED <<kind, ckpt, poll, written>> PROVE OnceInv'
    BY <1>n, <1>s DEF OnceInv, HasQuery, TokenFirst, Answered, NoneLater
\* A step of a poll that keeps its dates and its answer.
<1>k. ASSUME QuietSoFar, UNCHANGED <<ckpt, written>>,
             poll'.query = poll.query, poll'.max = poll.max,
             poll'.page = poll.page, poll'.left = poll.left,
             HasQuery' => HasQuery, Answered' => Answered,
             poll'.pc \in {"get", "put"} => poll.left = {}
      PROVE  OnceInv'
    BY <1>n, <1>k DEF OnceInv, NoneLater
\* A poll without an answer has no part in what was written.
<1>e. ASSUME QuietSoFar, ~Answered
      PROVE  \A v \in written : ckpt # NoDate /\ ~TextLater(v[2], ckpt)
    BY <1>n, <1>e DEF AdvanceInv, PageInv
<1>1. CASE Tick \/ \E i \in Items : Update(i)
    BY <1>1, <1>s DEF Tick, Update, QuietSoFar, conf
<1>2. CASE StartPoll
  <2>1. /\ QuietSoFar /\ ~Answered /\ ~HasQuery' /\ ~Answered'
        /\ poll'.pc \in {"token", "date"} /\ UNCHANGED <<ckpt, written>>
      BY <1>2 DEF StartPoll, At, Idle, HasQuery, TokenFirst, Answered, QuietSoFar, conf
  <2>2. QED
      BY <1>e, <2>1 DEF OnceInv
<1>3. CASE GetToken
  <2>1. /\ QuietSoFar /\ UNCHANGED <<ckpt, written>>
        /\ poll'.query = poll.query /\ poll'.max = poll.max
        /\ poll'.page = poll.page /\ poll'.left = poll.left
        /\ poll'.pc \in {"date", "request"} /\ (HasQuery' => HasQuery)
      BY <1>3, <1>t DEF GetToken, At, QuietSoFar, conf, PollType, HasQuery, TokenFirst
  <2>2. QED
      BY <1>k, <2>1 DEF Answered
\* The poll has found its date.
<1>q. ASSUME NEW q \in Nat, poll' = Ask(q), q # NoDate, ckpt # NoDate => q = ckpt,
             QuietSoFar, ~Answered, UNCHANGED <<kind, ckpt, written>>
      PROVE  OnceInv'
  <2>1. /\ poll'.query = q /\ poll'.max = q /\ poll'.pc \in {"token", "request"}
      BY <1>q, <1>t DEF Ask, PollType
  <2>2. ~TextLater(q, q)
      BY TextOrder
  <2>3. QED
      BY <1>e, <1>q, <2>1, <2>2 DEF OnceInv, Answered, NoneLater
<1>4. CASE ReadDate
  <2>1. QuietSoFar /\ ~Answered /\ UNCHANGED <<kind, ckpt, written>>
      BY <1>4 DEF ReadDate, At, Answered, QuietSoFar, conf
  <2>2. CASE ckpt = NoDate /\ poll.start = NoDate
    <3>1. poll'.pc = "persist"
        BY <1>4, <1>t, <2>2 DEF ReadDate, PollType
    <3>2. QED
        BY <1>e, <2>1, <3>1 DEF OnceInv, HasQuery, Answered
  <2>3. CASE ckpt # NoDate
      BY <1>4, <1>q, <1>t, <2>1, <2>3 DEF ReadDate
  <2>4. CASE ckpt = NoDate /\ poll.start # NoDate
      BY <1>4, <1>q, <1>t, <2>1, <2>4 DEF ReadDate
  <2>5. QED
      BY <2>2, <2>3, <2>4
<1>5. CASE PersistDefault
  <2>1. stanza = "input"
      BY <1>5 DEF PersistDefault, StoreStart, QuietSoFar
  <2>2. QuietSoFar /\ ~Answered /\ UNCHANGED <<kind, ckpt, written>>
      BY <1>5, <2>1 DEF PersistDefault, StoreStart, At, Answered, QuietSoFar
  <2>3. ckpt = NoDate
      BY <1>5 DEF PersistDefault, At, AdvanceInv, QueryInv
  <2>4. QED
      BY <1>5, <1>d, <1>q, <2>2, <2>3 DEF PersistDefault
<1>6. CASE Request
  <2>1. /\ QuietSoFar /\ HasQuery /\ ~Answered /\ UNCHANGED <<ckpt, written>>
        /\ poll'.query = poll.query /\ poll'.max = poll.max
        /\ poll'.page = poll'.left /\ poll'.pc \in {"item", "more"}
      BY <1>6, <1>t DEF Request, At, HasQuery, Answered, QuietSoFar, conf, PollType
  <2>2. QED
      BY <1>e, <1>n, <2>1 DEF OnceInv, NoneLater
<1>7. CASE RequestMore \/ AllWritten \/ GetCheckpoint
  <2>1. /\ QuietSoFar /\ HasQuery /\ Answered /\ UNCHANGED <<ckpt, written>>
        /\ poll'.query = poll.query /\ poll'.max = poll.max
        /\ poll'.page = poll.page /\ poll'.left = poll.left
        /\ poll'.pc = "item" \/ poll.left = {} \/ poll.pc = "get"
      BY <1>7, <1>t DEF RequestMore, AllWritten, GetCheckpoint, At, HasQuery, Answered,
         QuietSoFar, conf, PollType
  <2>2. poll'.pc \in {"get", "put"} => poll.left = {}
      BY <1>n, <2>1
  <2>3. QED
      BY <1>k, <2>1, <2>2
<1>8. CASE PutCheckpoint
  <2>1. /\ QuietSoFar /\ poll.pc = "put" /\ HasQuery /\ Answered
        /\ poll' = Idle /\ ckpt' = poll.max /\ UNCHANGED written
      BY <1>8 DEF PutCheckpoint, StoreCheckpoint, At, HasQuery, Answered, QuietSoFar, conf
  <2>2. poll.query # NoDate /\ poll.query <= poll.max
      BY <1>n, <2>1 DEF AdvanceInv, QueryInv
  <2>3. ckpt' # NoDate
      BY <1>t, <2>1, <2>2
  <2>4. ASSUME NEW v \in written PROVE ~TextLater(v[2], poll.max)
    <3>1. CASE v \in poll.page \ poll.left
        BY <1>n, <2>1, <3>1 DEF NoneLater
    <3>2. CASE ckpt # NoDate /\ ~TextLater(v[2], ckpt)
      <4>1. ~TextLater(v[2], poll.query) /\ ~TextLater(poll.query, poll.max)
          BY <1>n, <2>1, <3>2 DEF NoneLater
      <4>2. QED
          BY <1>t, <1>w, <4>1, TextOrder
    <3>3. QED
        BY <1>n, <2>1, <3>1, <3>2
  <2>5. ~HasQuery' /\ ~Answered' /\ poll'.pc = "idle"
      BY <2>1 DEF HasQuery, Answered, Idle
  <2>6. QED
      BY <2>1, <2>3, <2>4, <2>5 DEF OnceInv
<1>9. ASSUME NEW v \in poll.left, WriteItem(v) PROVE OnceInv'
  <2>1. /\ QuietSoFar /\ poll.pc = "item" /\ HasQuery /\ Answered
        /\ poll'.query = poll.query /\ poll'.max = TextMax(v[2], poll.max)
        /\ poll'.page = poll.page /\ poll'.left = poll.left \ {v}
        /\ poll'.pc = "item" /\ ckpt' = ckpt /\ written' = written \union {v}
      BY <1>9, <1>t DEF WriteItem, At, HasQuery, Answered, QuietSoFar, conf, PollType
  <2>2. v[2] \in Nat /\ poll'.max \in Nat
      BY <1>t, <2>1, TextMaxChooses
  <2>3. ~TextLater(v[2], poll'.max) /\ ~TextLater(poll.max, poll'.max)
      BY <1>t, <2>1, <2>2, TextOrder
  <2>4. ASSUME NEW d \in Nat, NoneLater(d) PROVE ~TextLater(d, poll'.max)
      BY <1>t, <2>2, <2>3, <2>4, TextOrder DEF NoneLater
  <2>5. ~TextLater(poll.query, poll'.max)
      BY <1>n, <1>t, <2>1, <2>4
  <2>6. ASSUME NEW w \in poll'.page \ poll'.left PROVE ~TextLater(w[2], poll'.max)
    <3>1. CASE w = v
        BY <2>3, <3>1
    <3>2. CASE w \in poll.page \ poll.left
        BY <1>n, <1>t, <2>1, <2>4, <3>2
    <3>3. QED
        BY <2>1, <3>1, <3>2
  <2>7. ASSUME NEW w \in written'
        PROVE  \/ w \in poll'.page \ poll'.left
               \/ ckpt' # NoDate /\ ~TextLater(w[2], ckpt')
      BY <1>n, <1>t, <2>1
  <2>8. QED
      BY <1>n, <2>1, <2>5, <2>6, <2>7 DEF OnceInv, NoneLater
<1>10. ASSUME NEW v \in poll.left, RaiseOnItem(v) PROVE OnceInv'
    BY <1>10 DEF RaiseOnItem, QuietSoFar
<1>11. CASE PollFault \/ RemoveFails
  <2>1. faults' = faults + 1
      BY <1>11 DEF PollFault, PollFails, PutFailsLate, PersistFailsLate, RemoveFails, Fault
  <2>2. QED
      BY <1>t, <2>1 DEF QuietSoFar
<1>12. CASE StartRemove \/ RemoveGet \/ RemoveCheckpoint
    BY <1>12 DEF StartRemove, RemoveGet, RemoveCheckpoint, QuietSoFar
<1>13. CASE RemoveStanza
    BY <1>13 DEF RemoveStanza, QuietSoFar
<1>14. CASE CreateInput
  <2>1. life' = life + 1 /\ rm = "idle" /\ stanza = "none"
      BY <1>14 DEF CreateInput
  <2>2. life = 0
      BY <1>t, <2>1 DEF QuietSoFar
  <2>3. QED
      BY <2>2
<1>15. CASE UNCHANGED vars
    BY <1>15, <1>s DEF vars, conf, QuietSoFar
<1>16. QED
    BY <1>1, <1>2, <1>3, <1>4, <1>5, <1>6, <1>7, <1>8, <1>9, <1>10, <1>11, <1>12,
       <1>13, <1>14, <1>15
    DEF Next, PollStep, Removal

\* If every item has its date and nothing disturbs the input, no version is
\* written twice (the filters ask for dates strictly after the checkpoint).
THEOREM WritesOnce == Undated = {} /\ Spec => WrittenOnce
<1>1. Init => AdvanceInv /\ life # 0 /\ OnceInv
    BY AdvanceInit DEF Init, OnceInv, HasQuery, Answered, Idle
<1>2. AdvanceInv /\ life # 0 /\ OnceInv /\ [Next]_vars
        => (AdvanceInv /\ life # 0 /\ OnceInv)'
    BY AdvanceStep, LifeCounts, OnceStep DEF AdvanceInv
<1>3. ASSUME Undated = {}, AdvanceInv, OnceInv, Undisturbed,
             NEW v \in poll.left, WriteItem(v)
      PROVE  v \notin written
  <2>1. /\ v \in poll.page /\ v[2] \in Nat /\ ckpt \in Nat /\ Answered
        /\ poll.query < v[2] /\ poll.pc = "item" /\ HasQuery
      BY <1>3 DEF AdvanceInv, TypeInv, TypeOK, PollOK, PollType, PageInv, WriteItem, At,
         Answered, HasQuery
  <2>2. QuietSoFar
      BY <1>3 DEF Undisturbed, QuietSoFar
  <2>3. SUFFICES ASSUME ckpt # NoDate, ~TextLater(v[2], ckpt) PROVE FALSE
      BY <1>3, <2>2 DEF OnceInv
  <2>4. poll.query = ckpt
      BY <1>3, <2>1, <2>2, <2>3 DEF OnceInv
  <2>5. TextLater(ckpt, v[2])
      BY <2>1, <2>3, <2>4, TextOrder
  <2>6. ckpt > v[2]
      BY <1>3, <2>1, <2>5 DEF Undisturbed
  <2>7. QED
      BY <2>1, <2>4, <2>6
<1>4. Undated = {} /\ AdvanceInv /\ life # 0 /\ OnceInv
        => [Undisturbed => \A v \in poll.left : WriteItem(v) => v \notin written]_vars
    BY <1>3
<1>5. QED
  <2>1. CASE Undated = {}
    <3>1. AdvanceInv /\ life # 0 /\ OnceInv
        => [Undisturbed => \A v \in poll.left : WriteItem(v) => v \notin written]_vars
        BY <1>4, <2>1
    <3>2. QED
        BY <1>1, <1>2, <3>1, PTL DEF Spec, WrittenOnce
  <2>2. QED
      BY <2>1
=============================================================================
