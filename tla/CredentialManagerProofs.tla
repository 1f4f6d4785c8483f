---------------------- MODULE CredentialManagerProofs ----------------------
(***************************************************************************)
(* Proofs about CredentialManager, for every number of callers and every   *)
(* length of the texts: type correctness, and that the entries implement   *)
(* SafeRegister.                                                           *)
(***************************************************************************)
EXTENDS CredentialManager, TLAPS

USE PiecesAssumption, MarksAssumption, TextAssumption

-----------------------------------------------------------------------------
(* The inductive invariant *)

SetPcs == {"create", "find", "update"}
DeletePcs == {"look", "delete"}

\* A running call stores a text, entry after entry, or deletes.
CallOK(k) ==
    /\ k.pc \in SetPcs =>
          /\ k.text \in Texts
          /\ \A i \in Indices : i < k.next => i \in DOMAIN k.text
    /\ k.pc \in DeletePcs => k.text = NoText
CallsOK == \A c \in Callers : CallOK(call[c])

\* What the history variables say of the calls.
HistoryOK ==
    /\ mixed \subseteq WritersNow
    /\ \A c \in WritersNow \ mixed : WritersNow = {c}
    /\ WritersNow # {} => stored = Unknown

\* The entries hold text t and its mark, or no text at all.
Holds(e, t) ==
    IF t = NoText THEN Present(e) = {}
    ELSE \A i \in Indices :
            /\ i \in DOMAIN t => e[i] = t[i]
            /\ (i \notin DOMAIN t /\ \A j \in Indices : j < i => j \in DOMAIN t)
                  => e[i] = EndMark

\* How far the call of a caller is that nobody has interfered with.
Progress(c) ==
    /\ call[c].pc \in SetPcs =>
          \A i \in Indices : i < call[c].next => entries[i] = call[c].text[i]
    /\ call[c].pc = "delete" => Present(entries) \subseteq call[c].todo

ContentOK ==
    /\ \A c \in WritersNow \ mixed : Progress(c)
    /\ WritersNow = {} /\ stored # Unknown => Holds(entries, stored)

IInv == CredTypeOK /\ CallsOK /\ HistoryOK /\ ContentOK

-----------------------------------------------------------------------------
(* Lemmas about the operators *)

LEMMA TextShape ==
    ASSUME NEW t \in Texts
    PROVE  \E n \in 1 .. MaxPieces : t \in [1 .. n -> Pieces]
BY DEF Texts

\* What get_password reads from entries that hold a text is that text, whatever
\* the entries after the mark are.
LEMMA ClearHolds ==
    ASSUME NEW e \in [Indices -> Pieces \union {EndMark, NoEntry}],
           NEW t \in Texts \union {NoText}, Holds(e, t)
    PROVE  Clear(e) = t
<1>1. CASE t = NoText
    BY <1>1 DEF Holds, Clear
<1>2. CASE t \in Texts
    <2>1. PICK n \in 1 .. MaxPieces : t \in [1 .. n -> Pieces]
        BY <1>2, TextShape
    <2>2. \A i \in 1 .. n : i \in Indices /\ e[i] = t[i] /\ t[i] \in Pieces
        BY <1>2, <2>1 DEF Holds, Indices
    <2>3. n + 1 \in Indices /\ e[n + 1] = EndMark
        BY <1>2, <2>1 DEF Holds, Indices
    <2> DEFINE pieces == {i \in Present(e) : \A j \in 1..i : e[j] # EndMark}
    <2>4. pieces = 1 .. n
        <3>1. \A i \in 1 .. n : i \in pieces
            BY <2>1, <2>2 DEF Present
        <3>2. \A i \in Indices : i \notin 1 .. n => n + 1 \in 1 .. i
            BY <2>1 DEF Indices
        <3>3. \A i \in pieces : i \in 1 .. n
            BY <2>3, <3>2 DEF Present
        <3>4. QED
            BY <3>1, <3>3
    <2>5. Present(e) # {}
        BY <2>2, <2>4 DEF Present
    <2>6. Clear(e) = [i \in 1 .. n |-> e[i]]
        BY <2>4, <2>5 DEF Clear
    <2>7. QED
        BY <2>1, <2>2, <2>6
<1>3. QED
    BY <1>1, <1>2

LEMMA RestOK ==
    ASSUME NEW pc \in {"done", "raised", "look"}
    PROVE  Rest(pc) \in CallTypes /\ CallOK(Rest(pc))
BY DEF Rest, CallTypes, CallOK, SetPcs, DeletePcs, Indices

LEMMA RestWrites == \A c \in Callers : Writing(c) <=> c \in WritersNow
BY DEF WritersNow

LEMMA TypeOfEntries ==
    ASSUME CredTypeOK, CallsOK, NEW c \in Callers
    PROVE  /\ call[c].pc \in SetPcs =>
                 WithEntry(c) \in [Indices -> Pieces \union {EndMark, NoEntry}]
           /\ \A i \in Indices : [entries EXCEPT ![i] = NoEntry]
                 \in [Indices -> Pieces \union {EndMark, NoEntry}]
<1>1. call[c] \in CallTypes
    BY DEF CredTypeOK
<1>2. ASSUME call[c].pc \in SetPcs
      PROVE  WithEntry(c) \in [Indices -> Pieces \union {EndMark, NoEntry}]
    <2>1. call[c].text \in Texts
        BY <1>2 DEF CallsOK, CallOK
    <2>2. PICK n \in 1 .. MaxPieces : call[c].text \in [1 .. n -> Pieces]
        BY <2>1, TextShape
    <2>3. Content(c) \in Pieces \union {EndMark}
        BY <2>2 DEF Content, IsLast
    <2>4. QED
        BY <1>1, <2>3 DEF WithEntry, CredTypeOK
<1>3. QED
    BY <1>2 DEF CredTypeOK

LEMMA StoringType ==
    ASSUME NEW pc \in SetPcs, NEW t \in Texts, NEW n \in Indices
    PROVE  Storing(pc, t, n) \in CallTypes
BY DEF Storing, CallTypes, SetPcs

-----------------------------------------------------------------------------
(* A call begins, ends or goes on *)

LEMMA BeginStep ==
    ASSUME IInv, NEW c \in Callers, NEW new \in CallTypes, CallOK(new),
           new.pc = "look" \/ (new.pc = "create" /\ new.next = 1),
           Begin(c, new)
    PROVE  IInv'
<1> USE DEF IInv, Begin
<1>1. CredTypeOK'
    BY DEF CredTypeOK, WritersNow
<1>2. CallsOK'
    BY DEF CallsOK, CredTypeOK, CallOK
<1>3. call'[c] = new /\ \A d \in Callers \ {c} : call'[d] = call[d]
    BY DEF CredTypeOK
<1>4. c \notin WritersNow /\ WritersNow' = WritersNow \union {c}
    BY <1>3 DEF WritersNow, Writing
<1>5. CASE WritersNow = {}
    <2>1. mixed' = {} /\ WritersNow' = {c}
        BY <1>4, <1>5 DEF HistoryOK
    <2>2. Progress(c)'
        BY <1>3 DEF Progress, SetPcs, Indices
    <2>3. QED
        BY <1>1, <1>2, <2>1, <2>2 DEF HistoryOK, ContentOK
<1>6. CASE WritersNow # {}
    <2>1. mixed' = WritersNow'
        BY <1>4, <1>6
    <2>2. QED
        BY <1>1, <1>2, <1>4, <2>1 DEF HistoryOK, ContentOK
<1>7. QED
    BY <1>5, <1>6

LEMMA EndStep ==
    ASSUME IInv, NEW c \in Callers, Writing(c),
           NEW pc \in {"done", "raised"},
           NEW text \in Texts \union {NoText, Unknown}, End(c, pc, text),
           entries' \in [Indices -> Pieces \union {EndMark, NoEntry}],
           c \notin mixed /\ text # Unknown => Holds(entries', text)
    PROVE  IInv'
<1> USE DEF IInv, End
<1>1. CredTypeOK'
    BY RestOK DEF CredTypeOK
<1>2. CallsOK'
    BY RestOK DEF CallsOK, CredTypeOK
<1>3. call'[c] = Rest(pc) /\ \A d \in Callers \ {c} : call'[d] = call[d]
    BY DEF CredTypeOK
<1>4. c \in WritersNow /\ WritersNow' = WritersNow \ {c}
    BY <1>3 DEF WritersNow, Writing, Rest
<1>5. WritersNow' \ mixed' = {}
    BY <1>4 DEF HistoryOK
<1>6. c \notin mixed => WritersNow' = {}
    BY <1>4 DEF HistoryOK
<1>7. HistoryOK'
    BY <1>4, <1>5, <1>6 DEF HistoryOK
<1>8. stored' # Unknown => Holds(entries', stored')
    OBVIOUS
<1>9. ContentOK'
    BY <1>5, <1>8 DEF ContentOK
<1>10. QED
    BY <1>1, <1>2, <1>7, <1>9

LEMMA GotoStep ==
    ASSUME IInv, NEW c \in Callers, Writing(c), NEW new \in CallTypes,
           CallOK(new), new.pc \notin {"done", "raised"}, Goto(c, new),
           entries' \in [Indices -> Pieces \union {EndMark, NoEntry}],
           c \notin mixed => Progress(c)'
    PROVE  IInv'
<1> USE DEF IInv, Goto
<1>1. CredTypeOK'
    BY DEF CredTypeOK
<1>2. CallsOK'
    BY DEF CallsOK, CredTypeOK
<1>3. call'[c] = new /\ \A d \in Callers \ {c} : call'[d] = call[d]
    BY DEF CredTypeOK
<1>4. c \in WritersNow /\ WritersNow' = WritersNow
    BY <1>3 DEF WritersNow, Writing
<1>5. HistoryOK'
    BY <1>4 DEF HistoryOK
<1>6. WritersNow \ mixed \subseteq {c}
    BY <1>4 DEF HistoryOK
<1>7. ContentOK'
    BY <1>4, <1>6 DEF ContentOK
<1>8. QED
    BY <1>1, <1>2, <1>5, <1>7

-----------------------------------------------------------------------------
(* Every action of a caller preserves the invariant *)

LEMMA SetPasswordStep ==
    ASSUME IInv, NEW c \in Callers, NEW t \in Texts, SetPassword(c, t)
    PROVE  IInv'
<1> DEFINE new == Storing("create", t, 1)
<1>1. new \in CallTypes
    BY StoringType DEF SetPcs, Indices
<1>2. CallOK(new)
    BY DEF Storing, CallOK, SetPcs, DeletePcs, Indices
<1>3. Begin(c, new)
    BY DEF SetPassword
<1>4. new.pc = "create" /\ new.next = 1
    BY DEF Storing
<1>5. QED
    BY <1>1, <1>2, <1>3, <1>4, BeginStep

LEMMA DeletePasswordStep ==
    ASSUME IInv, NEW c \in Callers, DeletePassword(c)
    PROVE  IInv'
BY RestOK, BeginStep DEF DeletePassword, Rest

\* What is known of a call that stores: the number of the entries that hold
\* their piece, and that there is room for the mark.
LEMMA TextOfCall ==
    ASSUME CredTypeOK, CallsOK, NEW c \in Callers, call[c].pc \in SetPcs
    PROVE  /\ call[c] \in CallTypes /\ call[c].text \in Texts
           /\ call[c].next \in Indices
           /\ \E n \in 1 .. MaxPieces :
                 /\ call[c].text \in [1 .. n -> Pieces]
                 /\ call[c].next =< n + 1
<1>1. call[c] \in CallTypes
    BY DEF CredTypeOK
<1>2. call[c].text \in Texts /\ \A i \in Indices : i < call[c].next => i \in DOMAIN call[c].text
    BY DEF CallsOK, CallOK
<1>3. call[c].next \in Indices
    BY <1>1 DEF CallTypes
<1>4. PICK n \in 1 .. MaxPieces : call[c].text \in [1 .. n -> Pieces]
    BY <1>2, TextShape
<1>5. n + 1 \in Indices /\ n + 1 \notin DOMAIN call[c].text
    BY <1>4 DEF Indices
<1>6. call[c].next =< n + 1
    BY <1>2, <1>3, <1>5 DEF Indices
<1>7. QED
    BY <1>1, <1>2, <1>3, <1>4, <1>6

LEMMA StoreStep ==
    ASSUME IInv, NEW c \in Callers, call[c].pc \in SetPcs, Store(c)
    PROVE  IInv'
<1> DEFINE k == call[c]
<1>1. CredTypeOK /\ CallsOK
    BY DEF IInv
<1>2. k \in CallTypes /\ k.text \in Texts /\ k.next \in Indices
    BY <1>1, TextOfCall
<1>3. PICK n \in 1 .. MaxPieces : k.text \in [1 .. n -> Pieces] /\ k.next =< n + 1
    BY <1>1, TextOfCall
<1>4. Writing(c)
    BY DEF Writing, SetPcs
<1>5. entries' = WithEntry(c)
    BY DEF Store
<1>6. entries' \in [Indices -> Pieces \union {EndMark, NoEntry}]
    BY <1>1, <1>5, TypeOfEntries
<1>7. c \notin mixed => \A i \in Indices : i < k.next => entries[i] = k.text[i]
    BY <1>4 DEF IInv, ContentOK, Progress, WritersNow
<1>8. /\ entries'[k.next] = Content(c)
      /\ \A i \in Indices : i # k.next => entries'[i] = entries[i]
    BY <1>1, <1>2, <1>5 DEF WithEntry, CredTypeOK
<1>9. CASE IsLast(c)
    <2>1. k.next = n + 1
        BY <1>2, <1>3, <1>9 DEF IsLast, Indices
    <2>2. entries'[n + 1] = EndMark
        BY <1>8, <1>9, <2>1 DEF Content
    <2>3. c \notin mixed => \A i \in 1 .. n : entries'[i] = k.text[i]
        BY <1>7, <1>8, <2>1 DEF Indices
    <2>4. ASSUME NEW i \in Indices, i \notin DOMAIN k.text,
                 \A j \in Indices : j < i => j \in DOMAIN k.text
          PROVE  i = n + 1
        BY <1>3, <2>4 DEF Indices
    <2>5. c \notin mixed => Holds(entries', k.text)
        BY <1>2, <1>3, <2>2, <2>3, <2>4 DEF Holds
    <2>6. End(c, "done", k.text)
        BY <1>9 DEF Store, Returns
    <2>7. QED
        BY <1>2, <1>4, <1>6, <2>5, <2>6, EndStep
<1>10. CASE ~IsLast(c)
    <2> DEFINE new == Storing("create", k.text, k.next + 1)
    <2>1. k.next \in 1 .. n
        BY <1>2, <1>3, <1>10 DEF IsLast
    <2>2. k.next + 1 \in Indices /\ "create" \in SetPcs
        BY <2>1 DEF Indices, SetPcs
    <2>3. /\ new \in CallTypes
          /\ new.pc = "create" /\ new.text = k.text /\ new.next = k.next + 1
        BY <1>2, <2>2, StoringType DEF Storing
    <2>4. CallOK(new)
        BY <1>2, <1>3, <2>1, <2>3 DEF CallOK, SetPcs, DeletePcs, Indices
    <2>5. Goto(c, new)
        BY <1>10 DEF Store
    <2>6. call'[c] = new
        BY <1>1, <2>5 DEF Goto, CredTypeOK
    <2>7. entries'[k.next] = k.text[k.next]
        BY <1>8, <1>10 DEF Content
    <2>8. c \notin mixed => \A i \in Indices : i < new.next => entries'[i] = new.text[i]
        BY <1>2, <1>7, <1>8, <2>3, <2>7 DEF Indices
    <2>9. c \notin mixed => Progress(c)'
        BY <2>3, <2>6, <2>8 DEF Progress, SetPcs
    <2>10. QED
        BY <1>4, <1>6, <2>3, <2>4, <2>5, <2>9, GotoStep
<1>11. QED
    BY <1>9, <1>10

\* A call that stores moves on without having changed an entry.
LEMMA SetGoto ==
    ASSUME IInv, NEW c \in Callers, call[c].pc \in SetPcs, NEW pc \in SetPcs,
           NEW n \in {1, call[c].next},
           Goto(c, Storing(pc, call[c].text, n)),
           entries' = entries \/ n = 1,
           entries' \in [Indices -> Pieces \union {EndMark, NoEntry}]
    PROVE  IInv'
<1> DEFINE k == call[c]
           new == Storing(pc, k.text, n)
<1>1. CredTypeOK /\ CallsOK
    BY DEF IInv
<1>2. k \in CallTypes /\ k.text \in Texts /\ k.next \in Indices
    BY <1>1, TextOfCall
<1>3. n \in Indices
    BY <1>2 DEF Indices
<1>4. new \in CallTypes /\ new.pc = pc /\ new.text = k.text /\ new.next = n
    BY <1>2, <1>3, StoringType DEF Storing
<1>5. CallOK(k)
    BY <1>1 DEF CallsOK
<1>6. CallOK(new)
    BY <1>2, <1>4, <1>5 DEF CallOK, SetPcs, DeletePcs, Indices
<1>7. call'[c] = new
    BY <1>1 DEF Goto, CredTypeOK
<1>8. Writing(c)
    BY DEF Writing, SetPcs
<1>9. c \notin mixed => \A i \in Indices : i < k.next => entries[i] = k.text[i]
    BY <1>8 DEF IInv, ContentOK, Progress, WritersNow
<1>10. c \notin mixed => \A i \in Indices : i < new.next => entries'[i] = new.text[i]
    BY <1>4, <1>9 DEF Indices
<1>11. c \notin mixed => Progress(c)'
    BY <1>4, <1>7, <1>10 DEF Progress, SetPcs
<1>12. new.pc \notin {"done", "raised"}
    BY <1>4 DEF SetPcs
<1>13. QED
    BY <1>4, <1>6, <1>8, <1>11, <1>12, GotoStep

LEMMA RaiseStep ==
    ASSUME IInv, NEW c \in Callers, Writing(c), Raises(c),
           entries' \in [Indices -> Pieces \union {EndMark, NoEntry}]
    PROVE  IInv'
BY EndStep DEF Raises

LEMMA CreateStep ==
    ASSUME IInv, NEW c \in Callers, Create(c)
    PROVE  IInv'
<1>1. call[c].pc \in SetPcs
    BY DEF Create, SetPcs
<1>2. CASE Store(c)
    BY <1>1, <1>2, StoreStep
<1>3. CASE Goto(c, Storing("find", call[c].text, call[c].next)) /\ entries' = entries
    BY <1>1, <1>3, SetGoto DEF SetPcs, IInv, CredTypeOK
<1>4. QED
    BY <1>2, <1>3 DEF Create

LEMMA FindStep ==
    ASSUME IInv, NEW c \in Callers, Find(c)
    PROVE  IInv'
<1>1. call[c].pc \in SetPcs /\ Writing(c)
    BY DEF Find, SetPcs, Writing
<1>2. entries' = entries /\ entries \in [Indices -> Pieces \union {EndMark, NoEntry}]
    BY DEF Find, IInv, CredTypeOK
<1>3. CASE Goto(c, Storing("update", call[c].text, call[c].next))
    BY <1>1, <1>2, <1>3, SetGoto DEF SetPcs
<1>4. CASE Raises(c)
    BY <1>1, <1>2, <1>4, RaiseStep
<1>5. QED
    BY <1>3, <1>4 DEF Find

LEMMA UpdateStep ==
    ASSUME IInv, NEW c \in Callers, Update(c)
    PROVE  IInv'
<1>1. call[c].pc \in SetPcs
    BY DEF Update, SetPcs
<1>2. CASE Store(c)
    BY <1>1, <1>2, StoreStep
<1>3. CASE Goto(c, Storing("create", call[c].text, call[c].next)) /\ entries' = entries
    BY <1>1, <1>3, SetGoto DEF SetPcs, IInv, CredTypeOK
<1>4. QED
    BY <1>2, <1>3 DEF Update

\* A call that deletes has listed the entries, or lists them again.
LEMMA DeleteGoto ==
    ASSUME IInv, NEW c \in Callers, Writing(c),
           \/ Goto(c, Rest("look"))
           \/ \E todo \in SUBSET Indices :
                 /\ Goto(c, Deleting(todo))
                 /\ c \notin mixed => Present(entries') \subseteq todo,
           entries' \in [Indices -> Pieces \union {EndMark, NoEntry}]
    PROVE  IInv'
<1>1. call \in [Callers -> CallTypes]
    BY DEF IInv, CredTypeOK
<1>2. CASE Goto(c, Rest("look"))
    <2>1. call'[c] = Rest("look")
        BY <1>1, <1>2 DEF Goto
    <2>2. Progress(c)'
        BY <2>1 DEF Progress, Rest, SetPcs
    <2>3. Rest("look").pc \notin {"done", "raised"}
        BY DEF Rest
    <2>4. QED
        BY <1>2, <2>2, <2>3, RestOK, GotoStep
<1>3. CASE \E todo \in SUBSET Indices :
              /\ Goto(c, Deleting(todo))
              /\ c \notin mixed => Present(entries') \subseteq todo
    <2>1. PICK todo \in SUBSET Indices :
              /\ Goto(c, Deleting(todo))
              /\ c \notin mixed => Present(entries') \subseteq todo
        BY <1>3
    <2>2. Deleting(todo) \in CallTypes /\ CallOK(Deleting(todo))
        BY DEF Deleting, CallTypes, CallOK, SetPcs, DeletePcs, Indices
    <2>3. Deleting(todo).pc \notin {"done", "raised"}
        BY DEF Deleting
    <2>4. call'[c] = Deleting(todo)
        BY <1>1, <2>1 DEF Goto
    <2>5. c \notin mixed => Progress(c)'
        BY <2>1, <2>4 DEF Progress, Deleting, SetPcs, Present
    <2>6. QED
        BY <2>1, <2>2, <2>3, <2>5, GotoStep
<1>4. QED
    BY <1>2, <1>3

\* A call that deletes returns when no entry is left.
LEMMA DeleteReturns ==
    ASSUME IInv, NEW c \in Callers, call[c].pc \in DeletePcs, Returns(c),
           entries' \in [Indices -> Pieces \union {EndMark, NoEntry}],
           c \notin mixed => Present(entries') = {}
    PROVE  IInv'
<1>1. call[c].text = NoText
    BY DEF IInv, CallsOK, CallOK
<1>2. Writing(c)
    BY DEF Writing, DeletePcs
<1>3. End(c, "done", NoText)
    BY <1>1 DEF Returns
<1>4. c \notin mixed => Holds(entries', NoText)
    BY DEF Holds
<1>5. QED
    BY <1>2, <1>3, <1>4, EndStep

LEMMA LookStep ==
    ASSUME IInv, NEW c \in Callers, Look(c)
    PROVE  IInv'
<1>1. call[c].pc \in DeletePcs /\ Writing(c)
    BY DEF Look, DeletePcs, Writing
<1>2. entries' = entries /\ entries \in [Indices -> Pieces \union {EndMark, NoEntry}]
    BY DEF Look, IInv, CredTypeOK
<1>3. CASE Present(entries) = {} /\ Returns(c)
    BY <1>1, <1>2, <1>3, DeleteReturns
<1>4. CASE Goto(c, Deleting(Present(entries)))
    <2>1. Present(entries) \in SUBSET Indices
        BY DEF Present
    <2>2. QED
        BY <1>1, <1>2, <1>4, <2>1, DeleteGoto
<1>5. QED
    BY <1>3, <1>4 DEF Look

LEMMA DeleteStep ==
    ASSUME IInv, NEW c \in Callers, Delete(c)
    PROVE  IInv'
<1> DEFINE todo == call[c].todo
<1>1. call[c].pc = "delete" /\ call[c].pc \in DeletePcs /\ Writing(c)
    BY DEF Delete, DeletePcs, Writing
<1>2. CredTypeOK /\ CallsOK /\ todo \in SUBSET Indices
    BY DEF IInv, CredTypeOK, CallTypes
<1>3. c \notin mixed => Present(entries) \subseteq todo
    BY <1>1 DEF IInv, ContentOK, Progress, WritersNow
<1>4. PICK i \in todo :
         \/ /\ entries' = [entries EXCEPT ![i] = NoEntry]
            /\ IF todo = {i} THEN Returns(c) ELSE Goto(c, Deleting(todo \ {i}))
         \/ Goto(c, Rest("look")) /\ entries' = entries
    BY DEF Delete
<1>5. CASE entries' = [entries EXCEPT ![i] = NoEntry]
    <2>1. entries' \in [Indices -> Pieces \union {EndMark, NoEntry}]
        BY <1>2, <1>4, <1>5, TypeOfEntries
    <2>2. c \notin mixed => Present(entries') \subseteq todo \ {i}
        BY <1>2, <1>3, <1>4, <1>5 DEF Present, CredTypeOK
    <2>3. CASE todo = {i} /\ Returns(c)
        BY <1>1, <2>1, <2>2, <2>3, DeleteReturns
    <2>4. CASE Goto(c, Deleting(todo \ {i}))
        <3>1. todo \ {i} \in SUBSET Indices
            BY <1>2
        <3>2. QED
            BY <1>1, <2>1, <2>2, <2>4, <3>1, DeleteGoto
    <2>5. CASE Goto(c, Rest("look"))
        BY <1>1, <2>1, <2>5, DeleteGoto
    <2>6. QED
        BY <1>4, <2>3, <2>4, <2>5
<1>6. CASE Goto(c, Rest("look")) /\ entries' = entries
    BY <1>1, <1>2, <1>6, DeleteGoto DEF CredTypeOK
<1>7. QED
    BY <1>4, <1>5, <1>6

LEMMA CallFailsStep ==
    ASSUME IInv, NEW c \in Callers, CallFails(c)
    PROVE  IInv'
<1>1. Writing(c) /\ CredTypeOK /\ CallsOK /\ call[c] \in CallTypes
    BY DEF CallFails, IInv, CredTypeOK
<1>2. entries' \in [Indices -> Pieces \union {EndMark, NoEntry}]
    <2>1. CASE entries' = entries
        BY <1>1, <2>1 DEF CredTypeOK
    <2>2. CASE call[c].pc \in SetPcs /\ entries' = WithEntry(c)
        BY <1>1, <2>2, TypeOfEntries
    <2>3. CASE \E i \in Indices : entries' = [entries EXCEPT ![i] = NoEntry]
        BY <1>1, <2>3, TypeOfEntries
    <2>4. call[c].todo \subseteq Indices
        BY <1>1 DEF CallTypes
    <2>5. QED
        BY <2>1, <2>2, <2>3, <2>4 DEF CallFails, SetPcs
<1>3. CASE Raises(c)
    BY <1>1, <1>2, <1>3, RaiseStep
<1>4. CASE call[c].pc \in SetPcs /\ Goto(c, Storing("create", call[c].text, 1))
    BY <1>2, <1>4, SetGoto DEF SetPcs
<1>5. CASE Goto(c, Rest("look"))
    BY <1>1, <1>2, <1>5, DeleteGoto
<1>6. QED
    BY <1>3, <1>4, <1>5 DEF CallFails, SetPcs

LEMMA HandledStep ==
    ASSUME IInv, NEW c \in Callers, Handled(c)
    PROVE  IInv'
<1> USE DEF IInv, Handled
<1>1. CredTypeOK'
    BY RestOK DEF CredTypeOK
<1>2. CallsOK'
    BY RestOK DEF CallsOK, CredTypeOK
<1>3. call'[c] = Rest("done") /\ \A d \in Callers \ {c} : call'[d] = call[d]
    BY DEF CredTypeOK
<1>4. c \notin WritersNow /\ WritersNow' = WritersNow
    BY <1>3 DEF WritersNow, Writing, Rest
<1>5. HistoryOK'
    BY <1>4 DEF HistoryOK
<1>6. \A d \in WritersNow \ mixed : Progress(d)'
    BY <1>3, <1>4 DEF ContentOK, Progress, WritersNow
<1>7. ContentOK'
    BY <1>4, <1>6 DEF ContentOK
<1>8. QED
    BY <1>1, <1>2, <1>5, <1>7

-----------------------------------------------------------------------------
(* The invariant, and what follows from it *)

LEMMA InvInit == CredInit => IInv
<1> SUFFICES ASSUME CredInit PROVE IInv
    OBVIOUS
<1> USE DEF CredInit
<1>1. CredTypeOK
    BY RestOK DEF CredTypeOK
<1>2. CallsOK
    BY RestOK DEF CallsOK
<1>3. WritersNow = {}
    BY DEF WritersNow, Writing, Rest
<1>4. HistoryOK
    BY <1>3 DEF HistoryOK
<1>5. Holds(entries, stored)
    BY DEF Holds, Present
<1>6. QED
    BY <1>1, <1>2, <1>3, <1>4, <1>5 DEF IInv, ContentOK

LEMMA InvStep == IInv /\ [CredNext]_credVars => IInv'
<1> SUFFICES ASSUME IInv, [CredNext]_credVars PROVE IInv'
    OBVIOUS
<1>1. CASE UNCHANGED credVars
    BY <1>1 DEF credVars, IInv, CredTypeOK, CallsOK, HistoryOK, ContentOK,
                Progress, WritersNow, Writing
<1>2. ASSUME NEW c \in Callers, NEW t \in Texts, SetPassword(c, t)
      PROVE  IInv'
    BY <1>2, SetPasswordStep
<1>3. ASSUME NEW c \in Callers, DeletePassword(c)
      PROVE  IInv'
    BY <1>3, DeletePasswordStep
<1>4. ASSUME NEW c \in Callers, CallStep(c) \/ CallFails(c)
      PROVE  IInv'
    BY <1>4, CreateStep, FindStep, UpdateStep, LookStep, DeleteStep,
       CallFailsStep DEF CallStep
<1>5. ASSUME NEW c \in Callers, Handled(c)
      PROVE  IInv'
    BY <1>5, HandledStep
<1>6. QED
    BY <1>1, <1>2, <1>3, <1>4, <1>5 DEF CredNext

LEMMA Invariance == CredSpec => []IInv
BY InvInit, InvStep, PTL DEF CredSpec

\* Every variable has its type: a call stores a text in entries there is room
\* for, and deletes entries that exist.
THEOREM CredTypeCorrect == CredSpec => []CredTypeOK
<1>1. IInv => CredTypeOK
    BY DEF IInv
<1>2. QED
    BY <1>1, Invariance, PTL

-----------------------------------------------------------------------------
(* A call that nobody interferes with                                      *)

\* Only entries that are all gone are read as no text.
LEMMA ClearOfNothing ==
    ASSUME NEW e \in [Indices -> Pieces \union {EndMark, NoEntry}],
           Clear(e) = NoText
    PROVE  Present(e) = {}
<1> DEFINE pieces == {i \in Present(e) : \A j \in 1..i : e[j] # EndMark}
<1>1. SUFFICES ASSUME Present(e) # {} PROVE FALSE
    OBVIOUS
<1>2. pieces \in SUBSET Indices
    BY DEF Present
<1>3. ASSUME NEW i \in pieces PROVE e[i] \in Pieces
    <2>1. i \in Indices /\ e[i] # NoEntry /\ i \in 1 .. i
        BY DEF Present, Indices
    <2>2. e[i] # EndMark
        BY <2>1
    <2>3. QED
        BY <2>1, <2>2
<1>4. [i \in pieces |-> e[i]] \in [pieces -> Pieces]
    BY <1>3
<1>5. Clear(e) = [i \in pieces |-> e[i]]
    BY <1>1 DEF Clear
<1>6. QED
    BY <1>2, <1>4, <1>5, NoTextAssumption

\* A text that is read is in the entries, piece after piece.
LEMMA ClearOfText ==
    ASSUME NEW e \in [Indices -> Pieces \union {EndMark, NoEntry}],
           NEW t \in Texts, Clear(e) = t
    PROVE  \A i \in DOMAIN t : i \in Indices /\ e[i] = t[i]
<1>1. Present(e) # {}
    BY DEF Clear
<1> DEFINE pieces == {i \in Present(e) : \A j \in 1..i : e[j] # EndMark}
<1>2. t = [i \in pieces |-> e[i]]
    BY <1>1 DEF Clear
<1>3. QED
    BY <1>2 DEF Present

\* What one request to splunkd can do to the entries.
LEMMA CallChanges ==
    ASSUME NEW c \in Callers, CallStep(c) \/ CallFails(c)
    PROVE  /\ Writing(c)
           /\ \/ entries' = entries
              \/ call[c].pc \in SetPcs /\ entries' = WithEntry(c)
              \/ /\ call[c].pc = "delete"
                 /\ \E i \in call[c].todo : entries' = [entries EXCEPT ![i] = NoEntry]
<1> USE DEF SetPcs, Writing, Store
<1>1. CASE CallStep(c)
    BY <1>1 DEF CallStep, Create, Find, Update, Look, Delete
<1>2. CASE CallFails(c)
    BY <1>2 DEF CallFails
<1>3. QED
    BY <1>1, <1>2

LEMMA CallEntries ==
    ASSUME CredTypeOK, CallsOK, NEW c \in Callers, CallStep(c) \/ CallFails(c)
    PROVE  entries' \in [Indices -> Pieces \union {EndMark, NoEntry}]
<1>1. call[c] \in CallTypes
    BY DEF CredTypeOK
<1>2. call[c].todo \in SUBSET Indices
    BY <1>1 DEF CallTypes
<1>3. QED
    BY <1>2, CallChanges, TypeOfEntries DEF CredTypeOK

\* How a call that stores goes on: it stays what it was and has done its part,
\* or returns with the text in the entries.
GoesOn(c) == /\ Writing(c)' /\ call'[c].text = call[c].text
             /\ Progress(c)'
Succeeds(c) == call'[c] = Rest("done") /\ Clear(entries') = call[c].text

LEMMA StoreGoesOn ==
    ASSUME CredTypeOK, CallsOK, NEW c \in Callers, call[c].pc \in SetPcs,
           Progress(c), Store(c)
    PROVE  GoesOn(c) \/ Succeeds(c)
<1> DEFINE k == call[c]
<1>1. k \in CallTypes /\ k.text \in Texts /\ k.next \in Indices
    BY TextOfCall
<1>2. PICK n \in 1 .. MaxPieces : k.text \in [1 .. n -> Pieces] /\ k.next =< n + 1
    BY TextOfCall
<1>3. entries' \in [Indices -> Pieces \union {EndMark, NoEntry}]
    BY TypeOfEntries DEF Store
<1>4. \A i \in Indices : i < k.next => entries[i] = k.text[i]
    BY DEF Progress
<1>5. /\ entries'[k.next] = Content(c)
      /\ \A i \in Indices : i # k.next => entries'[i] = entries[i]
    BY <1>1 DEF Store, WithEntry, CredTypeOK
<1>6. CASE IsLast(c)
    <2>1. k.next = n + 1
        BY <1>1, <1>2, <1>6 DEF IsLast, Indices
    <2>2. entries'[n + 1] = EndMark
        BY <1>5, <1>6, <2>1 DEF Content
    <2>3. \A i \in 1 .. n : entries'[i] = k.text[i]
        BY <1>4, <1>5, <2>1 DEF Indices
    <2>4. ASSUME NEW i \in Indices, i \notin DOMAIN k.text,
                 \A j \in Indices : j < i => j \in DOMAIN k.text
          PROVE  i = n + 1
        BY <1>2, <2>4 DEF Indices
    <2>5. Holds(entries', k.text)
        BY <1>1, <1>2, <2>2, <2>3, <2>4 DEF Holds
    <2>6. Clear(entries') = k.text
        BY <1>1, <1>3, <2>5, ClearHolds
    <2>7. call'[c] = Rest("done")
        BY <1>6 DEF Store, Returns, End, CredTypeOK
    <2>8. QED
        BY <2>6, <2>7 DEF Succeeds
<1>7. CASE ~IsLast(c)
    <2> DEFINE new == Storing("create", k.text, k.next + 1)
    <2>1. call'[c] = new
        BY <1>7 DEF Store, Goto, CredTypeOK
    <2>2. new.pc = "create" /\ new.text = k.text /\ new.next = k.next + 1
        BY DEF Storing
    <2>3. entries'[k.next] = k.text[k.next]
        BY <1>5, <1>7 DEF Content
    <2>4. \A i \in Indices : i < k.next + 1 => entries'[i] = k.text[i]
        BY <1>1, <1>4, <1>5, <2>3 DEF Indices
    <2>5. Progress(c)'
        BY <2>1, <2>2, <2>4 DEF Progress
    <2>6. QED
        BY <2>1, <2>2, <2>5 DEF GoesOn, Writing
<1>8. QED
    BY <1>6, <1>7

LEMMA StoringGoesOn ==
    ASSUME CredTypeOK, CallsOK, NEW c \in Callers, call[c].pc \in SetPcs,
           Progress(c), NEW pc \in SetPcs, NEW n \in {1, call[c].next},
           Goto(c, Storing(pc, call[c].text, n)), entries' = entries \/ n = 1
    PROVE  GoesOn(c)
<1> DEFINE new == Storing(pc, call[c].text, n)
<1>1. call'[c] = new
    BY DEF Goto, CredTypeOK
<1>2. new.pc = pc /\ new.text = call[c].text /\ new.next = n
    BY DEF Storing
<1>3. \A i \in Indices : i < n => entries'[i] = call[c].text[i]
    BY DEF Progress, Indices
<1>4. Progress(c)'
    BY <1>1, <1>2, <1>3 DEF Progress, SetPcs
<1>5. QED
    BY <1>1, <1>2, <1>4 DEF GoesOn, Writing, SetPcs

LEMMA DeletingGoesOn ==
    ASSUME CredTypeOK, CallsOK, NEW c \in Callers, call[c].pc \in DeletePcs,
           \/ Goto(c, Rest("look"))
           \/ \E todo \in SUBSET Indices :
                 Goto(c, Deleting(todo)) /\ Present(entries') \subseteq todo
    PROVE  GoesOn(c)
<1>1. call[c].text = NoText
    BY DEF CallsOK, CallOK
<1>2. CASE Goto(c, Rest("look"))
    <2>1. call'[c] = Rest("look")
        BY <1>2 DEF Goto, CredTypeOK
    <2>2. QED
        BY <1>1, <2>1 DEF GoesOn, Progress, Writing, Rest, SetPcs
<1>3. ASSUME NEW todo \in SUBSET Indices, Goto(c, Deleting(todo)),
             Present(entries') \subseteq todo
      PROVE  GoesOn(c)
    <2>1. call'[c] = Deleting(todo)
        BY <1>3 DEF Goto, CredTypeOK
    <2>2. Progress(c)'
        BY <1>3, <2>1 DEF Progress, Deleting, SetPcs, Present
    <2>3. QED
        BY <1>1, <2>1, <2>2 DEF GoesOn, Writing, Deleting
<1>4. QED
    BY <1>2, <1>3

LEMMA DeleteSucceeds ==
    ASSUME CredTypeOK, CallsOK, NEW c \in Callers, call[c].pc \in DeletePcs,
           Returns(c), Present(entries') = {}
    PROVE  Succeeds(c)
<1>1. call[c].text = NoText
    BY DEF CallsOK, CallOK
<1>2. call'[c] = Rest("done")
    BY DEF Returns, End, CredTypeOK
<1>3. QED
    BY <1>1, <1>2 DEF Succeeds, Clear

\* A call that nobody interferes with does its part with every request: it goes
\* on, succeeds or raises, whatever fails in between.
LEMMA CallKeepsProgress ==
    ASSUME CredTypeOK, CallsOK, NEW c \in Callers, Progress(c),
           CallStep(c) \/ CallFails(c)
    PROVE  GoesOn(c) \/ Succeeds(c) \/ call'[c] = Rest("raised")
<1>1. ASSUME Raises(c) PROVE call'[c] = Rest("raised")
    BY <1>1 DEF Raises, End, CredTypeOK
<1>2. CASE Create(c) \/ Find(c) \/ Update(c)
    <2>1. call[c].pc \in SetPcs
        BY <1>2 DEF Create, Find, Update, SetPcs
    <2>2. CASE Store(c)
        BY <2>1, <2>2, StoreGoesOn
    <2>3. ASSUME NEW pc \in SetPcs, Goto(c, Storing(pc, call[c].text, call[c].next)),
                 entries' = entries
          PROVE  GoesOn(c)
        BY <2>1, <2>3, StoringGoesOn
    <2>4. QED
        BY <1>1, <1>2, <2>2, <2>3 DEF Create, Find, Update, SetPcs
<1>3. CASE Look(c)
    <2>1. call[c].pc \in DeletePcs /\ entries' = entries
        BY <1>3 DEF Look, DeletePcs
    <2>2. Present(entries) \in SUBSET Indices
        BY DEF Present
    <2>3. QED
        BY <1>3, <2>1, <2>2, DeletingGoesOn, DeleteSucceeds DEF Look
<1>4. CASE Delete(c)
    <2> DEFINE todo == call[c].todo
    <2>1. call[c].pc \in DeletePcs /\ Present(entries) \subseteq todo
        BY <1>4 DEF Delete, DeletePcs, Progress
    <2>2. call[c] \in CallTypes
        BY DEF CredTypeOK
    <2>3. todo \in SUBSET Indices
        BY <2>2 DEF CallTypes
    <2>4. PICK i \in todo :
             \/ /\ entries' = [entries EXCEPT ![i] = NoEntry]
                /\ IF todo = {i} THEN Returns(c) ELSE Goto(c, Deleting(todo \ {i}))
             \/ Goto(c, Rest("look")) /\ entries' = entries
        BY <1>4 DEF Delete
    <2>5. CASE entries' = [entries EXCEPT ![i] = NoEntry]
        <3>1. Present(entries') \subseteq todo \ {i}
            BY <2>1, <2>3, <2>5 DEF Present, CredTypeOK
        <3>2. todo \ {i} \in SUBSET Indices
            BY <2>3
        <3>3. QED
            BY <2>1, <2>4, <3>1, <3>2, DeletingGoesOn, DeleteSucceeds
    <2>6. CASE Goto(c, Rest("look"))
        BY <2>1, <2>6, DeletingGoesOn
    <2>7. QED
        BY <2>4, <2>5, <2>6
<1>5. CASE CallFails(c)
    <2>1. CASE call[c].pc \in SetPcs /\ Goto(c, Storing("create", call[c].text, 1))
        BY <2>1, StoringGoesOn DEF SetPcs
    <2>2. CASE call[c].pc \in DeletePcs /\ Goto(c, Rest("look"))
        BY <2>2, DeletingGoesOn
    <2>3. QED
        BY <1>1, <1>5, <2>1, <2>2 DEF CallFails, SetPcs, DeletePcs
<1>6. QED
    BY <1>2, <1>3, <1>4, <1>5 DEF CallStep

\* Storing what is read anyway, or one piece where nothing is, never shows a
\* reader anything else: the text, or nothing before it is there.
LEMMA CallKeepsClear ==
    ASSUME CredTypeOK, CallsOK, NEW c \in Callers, Progress(c),
           CallStep(c) \/ CallFails(c),
           NEW t \in Texts \union {NoText}, call[c].text = t,
           \/ Clear(entries) = t
           \/ Clear(entries) = NoText /\ t \in [1 .. 1 -> Pieces]
    PROVE  \/ Clear(entries') = t
           \/ Clear(entries') = NoText /\ Clear(entries) = NoText
<1> DEFINE k == call[c]
<1>1. /\ entries \in [Indices -> Pieces \union {EndMark, NoEntry}]
      /\ entries' \in [Indices -> Pieces \union {EndMark, NoEntry}]
    BY CallEntries DEF CredTypeOK
<1>2. CASE entries' = entries
    BY <1>2
<1>3. CASE k.pc \in SetPcs /\ entries' = WithEntry(c)
    <2>1. k \in CallTypes /\ t \in Texts /\ k.next \in Indices
        BY <1>3, TextOfCall
    <2>2. PICK n \in 1 .. MaxPieces : t \in [1 .. n -> Pieces] /\ k.next =< n + 1
        BY <1>3, TextOfCall
    <2>3. /\ entries'[k.next] = Content(c)
          /\ \A i \in Indices : i # k.next => entries'[i] = entries[i]
        BY <1>1, <1>3, <2>1 DEF WithEntry
    <2>4. CASE Clear(entries) = t
        <3>1. \A i \in 1 .. n : i \in Indices /\ entries[i] = t[i]
            BY <1>1, <2>1, <2>2, <2>4, ClearOfText
        <3>2. CASE k.next \in 1 .. n
            <4>1. Content(c) = entries[k.next]
                BY <2>2, <3>1, <3>2 DEF Content, IsLast
            <4>2. \A i \in Indices : entries'[i] = entries[i]
                BY <2>3, <4>1
            <4>3. entries' = entries
                BY <1>1, <4>2
            <4>4. QED
                BY <2>4, <4>3
        <3>3. CASE k.next = n + 1
            <4>1. entries'[n + 1] = EndMark
                BY <2>2, <2>3, <3>3 DEF Content, IsLast
            <4>2. \A i \in 1 .. n : entries'[i] = t[i]
                BY <2>3, <3>1, <3>3
            <4>3. ASSUME NEW i \in Indices, i \notin DOMAIN t,
                         \A j \in Indices : j < i => j \in DOMAIN t
                  PROVE  i = n + 1
                BY <2>2, <4>3 DEF Indices
            <4>4. Holds(entries', t)
                BY <2>1, <2>2, <4>1, <4>2, <4>3 DEF Holds
            <4>5. QED
                BY <1>1, <2>1, <4>4, ClearHolds
        <3>4. QED
            BY <2>1, <2>2, <3>2, <3>3 DEF Indices
    <2>5. CASE Clear(entries) = NoText /\ t \in [1 .. 1 -> Pieces]
        <3>1. \A i \in Indices : entries[i] = NoEntry
            BY <1>1, <2>5, ClearOfNothing DEF Present
        <3>2. 1 \in Indices /\ n = 1
            <4>1. DOMAIN t = 1 .. n /\ DOMAIN t = 1 .. 1
                BY <2>2, <2>5
            <4>2. n \in 1 .. n
                OBVIOUS
            <4>3. n \in 1 .. 1
                BY <4>1, <4>2
            <4>4. QED
                BY <4>3 DEF Indices
        <3>3. k.next = 1
            <4>1. 1 < k.next => entries[1] = t[1]
                BY <1>3, <3>2 DEF Progress
            <4>2. t[1] # NoEntry
                BY <2>5
            <4>3. QED
                BY <2>1, <3>1, <3>2, <4>1, <4>2 DEF Indices
        <3>4. entries'[1] = t[1] /\ t[1] \in Pieces
            BY <2>3, <2>5, <3>3 DEF Content, IsLast
        <3>5. Present(entries') = {1}
            BY <1>1, <2>3, <3>1, <3>2, <3>3, <3>4 DEF Present
        <3>6. {i \in Present(entries') : \A j \in 1..i : entries'[j] # EndMark} = 1 .. 1
            BY <3>4, <3>5
        <3>7. Clear(entries') = [i \in 1 .. 1 |-> entries'[i]]
            BY <3>5, <3>6 DEF Clear
        <3>8. QED
            BY <2>5, <3>4, <3>7
    <2>6. QED
        BY <2>4, <2>5
<1>4. ASSUME k.pc = "delete", NEW i \in k.todo,
             entries' = [entries EXCEPT ![i] = NoEntry]
      PROVE  entries' = entries
    <2>1. t = NoText
        BY <1>4 DEF CallsOK, CallOK, DeletePcs
    <2>2. Clear(entries) = NoText
        BY <2>1
    <2>3. \A j \in Indices : entries[j] = NoEntry
        BY <1>1, <2>2, ClearOfNothing DEF Present
    <2>4. \A j \in Indices : entries'[j] = entries[j]
        BY <1>1, <1>4, <2>3
    <2>5. QED
        BY <1>1, <2>4
<1>5. QED
    BY <1>2, <1>3, <1>4, CallChanges

-----------------------------------------------------------------------------
(* The entries implement the register *)

pendingBar == [c \in Callers |-> IF Writing(c) THEN call[c].text ELSE NoCall]

LEMMA WritersBar ==
    ASSUME IInv
    PROVE  /\ Register!Writing = WritersNow
           /\ \A c \in WritersNow : pendingBar[c] = call[c].text
<1>1. \A c \in Callers : call[c].text # NoCall
    BY DEF IInv, CredTypeOK, CallTypes
<1>2. QED
    BY <1>1 DEF Register!Writing, WritersNow, pendingBar

LEMMA SettledBar == IInv => Register!Settled
<1>1. SUFFICES ASSUME IInv, WritersNow = {}, stored # Unknown
               PROVE  Clear(entries) = stored
    BY WritersBar DEF Register!Settled
<1>2. Holds(entries, stored)
    BY <1>1 DEF IInv, ContentOK
<1>3. QED
    BY <1>1, <1>2, ClearHolds DEF IInv, CredTypeOK

LEMMA SettledNext == IInv' => Register!Settled'
BY SettledBar, PTL

LEMMA BeginBar ==
    ASSUME IInv, IInv', NEW c \in Callers, NEW new \in CallTypes,
           new.pc \notin {"done", "raised"}, Begin(c, new)
    PROVE  Register!Begin(c)
<1>1. call'[c] = new /\ \A d \in Callers \ {c} : call'[d] = call[d]
    BY DEF Begin, IInv, CredTypeOK
<1>2. c \notin WritersNow
    BY DEF Begin, WritersNow
<1>3. Writing(c)' /\ \A d \in Callers \ {c} : Writing(d)' <=> Writing(d)
    BY <1>1 DEF Writing
<1>4. pendingBar'[c] = new.text
    BY <1>1, <1>3 DEF pendingBar
<1>5. pendingBar' = [pendingBar EXCEPT ![c] = pendingBar'[c]]
    BY <1>1, <1>3 DEF pendingBar
<1>6. new.text \in Texts \union {NoText}
    BY DEF CallTypes
<1>7. QED
    BY <1>2, <1>4, <1>5, <1>6, WritersBar DEF Register!Begin, Begin, pendingBar

LEMMA StopBar ==
    ASSUME IInv, NEW c \in Callers, Writing(c), NEW pc \in {"done", "raised"},
           NEW text, End(c, pc, text)
    PROVE  Register!Stop(c)
<1>1. call'[c] = Rest(pc) /\ \A d \in Callers \ {c} : call'[d] = call[d]
    BY DEF End, IInv, CredTypeOK
<1>2. ~Writing(c)' /\ \A d \in Callers \ {c} : Writing(d)' <=> Writing(d)
    BY <1>1 DEF Writing, Rest
<1>3. pendingBar' = [pendingBar EXCEPT ![c] = NoCall]
    BY <1>1, <1>2 DEF pendingBar
<1>4. QED
    BY <1>3, WritersBar, RestWrites DEF Register!Stop, End, pendingBar

LEMMA ReturnsBar ==
    ASSUME IInv, NEW c \in Callers, Writing(c), Returns(c)
    PROVE  Register!End(c)
<1>1. Register!Stop(c)
    BY StopBar DEF Returns
<1>2. pendingBar[c] = call[c].text
    BY WritersBar, RestWrites
<1>3. QED
    BY <1>1, <1>2 DEF Register!End, Returns, End, pendingBar

LEMMA RaisesBar ==
    ASSUME IInv, NEW c \in Callers, Writing(c), Raises(c)
    PROVE  Register!Fail(c)
<1>1. Register!Stop(c)
    BY StopBar DEF Raises
<1>2. QED
    BY <1>1 DEF Register!Fail, Raises, End

\* While a call goes on, the register is being worked on.
LEMMA GotoBar ==
    ASSUME IInv, NEW c \in Callers, Writing(c), NEW new,
           new.text = call[c].text, new.pc \notin {"done", "raised"}, Goto(c, new)
    PROVE  Register!Work
<1>1. call'[c] = new /\ \A d \in Callers \ {c} : call'[d] = call[d]
    BY DEF Goto, IInv, CredTypeOK
<1>2. \A d \in Callers : Writing(d)' <=> Writing(d)
    BY <1>1 DEF Writing
<1>3. pendingBar' = pendingBar
    BY <1>1, <1>2 DEF pendingBar
<1>4. QED
    BY <1>3, WritersBar, RestWrites DEF Register!Work, Goto, pendingBar

StepBar(c) == \/ Register!Work \/ Register!Begin(c) \/ Register!End(c)
              \/ Register!Fail(c)

LEMMA SettingBar ==
    ASSUME IInv, NEW c \in Callers, Create(c) \/ Find(c) \/ Update(c)
    PROVE  StepBar(c)
<1>1. Writing(c)
    BY DEF Create, Find, Update, Writing
<1>2. CASE Returns(c)
    BY <1>1, <1>2, ReturnsBar DEF StepBar
<1>3. CASE Raises(c)
    BY <1>1, <1>3, RaisesBar DEF StepBar
<1>4. ASSUME NEW pc \in SetPcs, NEW n, Goto(c, Storing(pc, call[c].text, n))
      PROVE  StepBar(c)
    <2>1. Storing(pc, call[c].text, n).text = call[c].text
        BY DEF Storing
    <2>2. Storing(pc, call[c].text, n).pc \notin {"done", "raised"}
        BY DEF Storing, SetPcs
    <2>3. QED
        BY <1>1, <1>4, <2>1, <2>2, GotoBar DEF StepBar
<1>5. CASE Store(c)
    BY <1>2, <1>4, <1>5 DEF Store, SetPcs
<1>6. QED
    BY <1>3, <1>4, <1>5 DEF Create, Find, Update, SetPcs

LEMMA DeletingBar ==
    ASSUME IInv, NEW c \in Callers, Look(c) \/ Delete(c)
    PROVE  StepBar(c)
<1>1. Writing(c) /\ call[c].text = NoText
    BY DEF Look, Delete, Writing, IInv, CallsOK, CallOK, DeletePcs
<1>2. CASE Returns(c)
    BY <1>1, <1>2, ReturnsBar DEF StepBar
<1>3. CASE Goto(c, Rest("look"))
    BY <1>1, <1>3, GotoBar DEF StepBar, Rest
<1>4. ASSUME NEW todo, Goto(c, Deleting(todo))
      PROVE  StepBar(c)
    BY <1>1, <1>4, GotoBar DEF StepBar, Deleting
<1>5. QED
    BY <1>2, <1>3, <1>4 DEF Look, Delete

LEMMA FailingBar ==
    ASSUME IInv, NEW c \in Callers, CallFails(c)
    PROVE  StepBar(c)
<1>1. Writing(c)
    BY DEF CallFails
<1>2. CASE Raises(c)
    BY <1>1, <1>2, RaisesBar DEF StepBar
<1>3. CASE Goto(c, Storing("create", call[c].text, 1))
    BY <1>1, <1>3, GotoBar DEF StepBar, Storing
<1>4. CASE call[c].pc \in DeletePcs /\ Goto(c, Rest("look"))
    <2>1. call[c].text = NoText
        BY <1>4 DEF IInv, CallsOK, CallOK
    <2>2. QED
        BY <1>1, <1>4, <2>1, GotoBar DEF StepBar, Rest
<1>5. QED
    BY <1>2, <1>3, <1>4 DEF CallFails, DeletePcs

LEMMA SetPasswordBar ==
    ASSUME IInv, IInv', NEW c \in Callers, NEW t \in Texts, SetPassword(c, t)
    PROVE  StepBar(c)
<1> DEFINE new == Storing("create", t, 1)
<1>1. new \in CallTypes
    BY StoringType DEF SetPcs, Indices
<1>2. new.pc \notin {"done", "raised"}
    BY DEF Storing
<1>3. QED
    BY <1>1, <1>2, BeginBar DEF SetPassword, StepBar

LEMMA DeletePasswordBar ==
    ASSUME IInv, IInv', NEW c \in Callers, DeletePassword(c)
    PROVE  StepBar(c)
<1>1. Rest("look").pc \notin {"done", "raised"}
    BY DEF Rest
<1>2. QED
    BY <1>1, RestOK, BeginBar DEF DeletePassword, StepBar

LEMMA HandledBar ==
    ASSUME IInv, NEW c \in Callers, Handled(c)
    PROVE  UNCHANGED Register!vars
<1>1. call'[c] = Rest("done") /\ \A d \in Callers \ {c} : call'[d] = call[d]
    BY DEF Handled, IInv, CredTypeOK
<1>2. \A d \in Callers : Writing(d)' <=> Writing(d)
    BY <1>1 DEF Handled, Writing, Rest
<1>3. pendingBar' = pendingBar
    BY <1>1, <1>2 DEF pendingBar, Handled
<1>4. Clear(entries)' = Clear(entries)
    BY DEF Handled
<1>5. QED
    BY <1>3, <1>4 DEF Handled, Register!vars, pendingBar

LEMMA InitBar == CredInit => Register!Init
<1> SUFFICES ASSUME CredInit PROVE Register!Init
    OBVIOUS
<1> USE DEF CredInit
<1>1. Clear(entries) = NoText
    BY DEF Clear, Present
<1>2. pendingBar = [c \in Callers |-> NoCall]
    BY DEF pendingBar, Writing, Rest
<1>3. QED
    BY <1>1, <1>2 DEF Register!Init, pendingBar

LEMMA NextBar ==
    IInv /\ IInv' /\ [CredNext]_credVars => [Register!Next]_(Register!vars)
<1> SUFFICES ASSUME IInv, IInv', [CredNext]_credVars
             PROVE  [Register!Next]_(Register!vars)
    OBVIOUS
<1>1. CASE UNCHANGED credVars
    BY <1>1 DEF credVars, Register!vars, Writing, Clear, Present
<1>2. ASSUME NEW c \in Callers, StepBar(c)
      PROVE  Register!Next
    BY <1>2, SettledNext DEF StepBar, Register!Next
<1>3. ASSUME NEW c \in Callers, Handled(c)
      PROVE  UNCHANGED Register!vars
    BY <1>3, HandledBar
<1>4. QED
    BY <1>1, <1>2, <1>3, SettingBar, DeletingBar, FailingBar, SetPasswordBar,
       DeletePasswordBar DEF CredNext, CallStep

\* The entries of a secret are a safe register, for every length of the texts
\* and any number of processes that store and delete at once: once no call is
\* running, the text that was set last is what is read, unless that call
\* overlapped another one or failed.
THEOREM EntriesAreRegister == CredSpec => RegisterSpec
<1>1. CredSpec => []IInv
    BY Invariance
<1>2. QED
    BY <1>1, InitBar, NextBar, PTL DEF CredSpec, RegisterSpec, Register!Spec
=============================================================================
