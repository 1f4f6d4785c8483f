------------------------ MODULE SavedSecretsProofs ------------------------
(***************************************************************************)
(* Proofs about StoredSecrets, for every number of requests at once and of *)
(* failures of splunkd: inputs are served the value that was saved last,   *)
(* and a read that succeeds leaves no value in plain text.                 *)
(***************************************************************************)
EXTENDS StoredSecretsProofs

-----------------------------------------------------------------------------
(* The inductive invariant.  A request is fresh while nothing but what it  *)
(* did itself has changed since it began.                                  *)

Fresh(r) == Serving(r) /\ r \notin stale

\* The text that the entries hold when the call of a request has returned.
Target(r) ==
    IF req[r].pc = "erase" THEN NoText
    ELSE IF req[r].pc = "repair" /\ ~Plain(r)
         THEN IF req[r].seen = MaskText THEN MaskText ELSE NoText
    ELSE req[r].seen

CallFor(r) ==
    /\ Writing(r) => call[r].text = Target(r) /\ Progress(r)
    /\ call[r].pc = "done" => Clear(entries) = Target(r)

\* What a fresh request knows of the stanza and of the entries, while it reads,
ReadingOK(r) ==
    req[r].pc = "secret" =>
       req[r].seen = conf /\ (conf = NoStanza => req[r].op = "list")

\* while it encrypts what it found in plain text, or "******" without entries,
RepairOK(r) ==
    /\ req[r].pc = "repair" =>
          /\ req[r].seen = conf
          /\ CallFor(r)
          /\ \/ Plain(r)
             \/ conf = MaskText /\ Clear(entries) \in {NoText, MaskText}
             \/ conf = Blank /\ req[r].op = "list"
    /\ req[r].pc = "mask" =>
          Plain(r) /\ req[r].seen = conf /\ Clear(entries) = conf

\* while it saves: one that keeps the value writes what the entries hold,
Keeps(r) == req[r].arg \in {MaskText, Absent}
Kept(r) == \/ Clear(entries) = req[r].seen
           \/ /\ Clear(entries) = NoText
              /\ req[r].arg = MaskText /\ req[r].seen = MaskText

SaveOK(r) ==
    /\ req[r].op = "create" => req[r].arg \in Secrets
    /\ req[r].pc \in {"ready", "save", "post"} =>
          /\ req[r].op \in {"create", "update"}
          /\ req[r].op = "update" => conf \in {MaskText, Blank}
    /\ req[r].pc \in {"save", "post"} =>
          /\ req[r].seen \in Texts \union {NoText}
          /\ req[r].arg \in Secrets => req[r].seen = req[r].arg
          /\ req[r].arg = Blank => req[r].seen = NoText
          /\ req[r].arg = MaskText => req[r].seen # NoText
          /\ Keeps(r) => Kept(r)
    /\ req[r].pc = "save" => CallFor(r)
    /\ req[r].pc = "post" => Clear(entries) = req[r].seen

\* and while it deletes.
EraseOK(r) ==
    /\ req[r].pc \in {"remove", "erase"} => req[r].op = "delete"
    /\ req[r].pc = "erase" => conf = NoStanza /\ CallFor(r)

Local(r) == ReadingOK(r) /\ RepairOK(r) /\ SaveOK(r) /\ EraseOK(r)
FreshOK == \A r \in Callers : Fresh(r) => Local(r)

CallsServe ==
    \A r \in Callers : call[r].pc # "done" => req[r].pc \in {"repair", "save", "erase"}

\* Value v is what inputs are served, and nothing is left of another one.
Good(v) == Served = v /\ (v \in {NoStanza, Blank} => Present(entries) = {})

\* What will be served, and what will have been saved, when a request that is
\* halfway has succeeded.
Yields(r) ==
    IF req[r].pc = "erase" THEN NoStanza
    ELSE IF req[r].pc \in {"repair", "mask"} THEN req[r].seen
    ELSE IF req[r].arg = Blank THEN Blank
    ELSE IF req[r].arg = Absent /\ req[r].seen = NoText
         THEN IF conf = MaskText THEN NoText ELSE conf
    ELSE req[r].seen
Finally(r) == IF req[r].pc \in {"repair", "mask"} THEN saved ELSE ValueSaved(r)

\* The request will put things right.
Answers(r) == Halfway(r) /\ Finally(r) = Yields(r)

\* The saved value is served, or some request that is halfway will see to it.
\* (One that is stale makes the value unknown with its next step.)
SavedOK ==
    (saved # Unknown /\ \A r \in Callers : Halfway(r) => r \notin stale)
      => Good(saved) \/ \E r \in Callers : Answers(r)

SInv == IInv /\ ReqOK /\ CallsServe /\ FreshOK /\ SavedOK

-----------------------------------------------------------------------------
(* Lemmas about the values and the operators *)

LEMMA ValuesApart ==
    /\ NoStanza # Blank /\ NoStanza # Absent /\ Blank # Absent
    /\ NoStanza \notin Texts /\ Blank \notin Texts /\ Absent \notin Texts
    /\ NoText \notin Texts \union {NoStanza, Blank, Absent}
    /\ Unknown \notin Texts \union {NoText, NoStanza, Blank, Absent}
    /\ MaskText \notin Secrets /\ MaskText \in Texts /\ Secrets \subseteq Texts
    /\ Parsable \subseteq Texts
BY TextsOfValues, SecretsAssumption, TextAssumption

LEMMA MaskIsOnePiece == MaskText \in [1 .. 1 -> Pieces]
<1>1. PICK n \in 1 .. MaxPieces : MaskText \in [1 .. n -> Pieces]
    BY ValuesApart, TextShape
<1>2. MaskText[1] \in Pieces
    BY <1>1
<1>3. QED
    BY <1>2 DEF MaskText

LEMMA FieldValues == Fields \subseteq Texts \union {NoStanza, Blank}
BY ValuesApart DEF Fields

\* What one request does is its own affair: the rest of the requests and their
\* calls stay as they are.
Alone(a) == \A r \in Callers \ {a} : req'[r] = req[r] /\ call'[r] = call[r]

LEMMA StepAlone ==
    ASSUME ReqOK, NEW a \in Callers, NEW new, Step(a, new)
    PROVE  /\ req'[a] = new
           /\ \A r \in Callers \ {a} : req'[r] = req[r]
BY DEF Step, ReqOK

LEMMA MoveAlone ==
    ASSUME ReqOK, NEW a \in Callers, NEW pc, Move(a, pc)
    PROVE  /\ req'[a].pc = pc /\ req'[a].op = req[a].op
           /\ req'[a].arg = req[a].arg /\ req'[a].seen = req[a].seen
           /\ \A r \in Callers \ {a} : req'[r] = req[r]
<1>1. req[a] \in Reqs
    BY DEF ReqOK
<1>2. QED
    BY <1>1, StepAlone DEF Move, Reqs

LEMMA AnswerAlone ==
    ASSUME ReqOK, NEW a \in Callers, NEW answer, Answer(a, answer)
    PROVE  /\ req'[a].pc = answer
           /\ req'[a] = Answered(answer)
           /\ \A r \in Callers \ {a} : req'[r] = req[r]
BY StepAlone DEF Answer, Answered

LEMMA CallAlone ==
    ASSUME CredTypeOK, NEW a \in Callers,
           \/ UNCHANGED credVars
           \/ DeletePassword(a)
           \/ \E t \in Texts : SetPassword(a, t)
           \/ CallStep(a) \/ CallFails(a)
           \/ Handled(a)
    PROVE  \A r \in Callers \ {a} : call'[r] = call[r]
<1> USE DEF CredTypeOK
<1>1. CASE UNCHANGED credVars
    BY <1>1 DEF credVars
<1>2. CASE DeletePassword(a)
    BY <1>2 DEF DeletePassword, Begin
<1>3. CASE \E t \in Texts : SetPassword(a, t)
    BY <1>3 DEF SetPassword, Begin
<1>4. ASSUME NEW new, call' = [call EXCEPT ![a] = new]
      PROVE  \A r \in Callers \ {a} : call'[r] = call[r]
    BY <1>4
<1>5. CASE CallStep(a) \/ CallFails(a)
    BY <1>4, <1>5 DEF CallStep, CallFails, Create, Find, Update, Look, Delete,
       Store, Goto, Returns, Raises, End
<1>6. CASE Handled(a)
    BY <1>6 DEF Handled
<1>7. QED
    BY <1>1, <1>2, <1>3, <1>5, <1>6

LEMMA LocalSame ==
    ASSUME NEW r \in Callers, entries' = entries, conf' = conf,
           req'[r] = req[r], call'[r] = call[r], Local(r)
    PROVE  Local(r)'
<1>1. Writing(r)' = Writing(r) /\ Plain(r)' = Plain(r) /\ Progress(r)' = Progress(r)
    BY DEF Writing, Plain, Progress
<1>2. Target(r)' = Target(r)
    BY <1>1 DEF Target
<1>3. CallFor(r)' = CallFor(r)
    BY <1>1, <1>2 DEF CallFor
<1>4. ReadingOK(r)'
    BY DEF Local, ReadingOK
<1>5. RepairOK(r)'
    BY <1>1, <1>3 DEF Local, RepairOK
<1>6. SaveOK(r)'
    BY <1>3 DEF Local, SaveOK, Keeps, Kept
<1>7. EraseOK(r)'
    BY <1>3 DEF Local, EraseOK
<1>8. QED
    BY <1>4, <1>5, <1>6, <1>7 DEF Local

LEMMA FinishSame ==
    ASSUME NEW r \in Callers, req'[r] = req[r], conf' = conf, saved' = saved
    PROVE  Answers(r)' = Answers(r)
<1>1. ValueSaved(r)' = ValueSaved(r)
    BY DEF ValueSaved
<1>2. Finally(r)' = Finally(r) /\ Yields(r)' = Yields(r) /\ Halfway(r)' = Halfway(r)
    BY <1>1 DEF Finally, Yields, Halfway
<1>3. QED
    BY <1>2 DEF Answers

LEMMA GoodSame ==
    ASSUME entries' = entries, conf' = conf, saved' = saved
    PROVE  Good(saved)' = Good(saved)
BY DEF Good, Served

-----------------------------------------------------------------------------
(* What the history variables say of a step *)

\* Whoever is served meanwhile misses a change; a request that has missed one
\* stays stale until it is answered.
LEMMA WhoIsStale ==
    ASSUME ReqOK, NEW a \in Callers, NEW ok \in BOOLEAN, History(a, ok)
    PROVE  /\ \A r \in Callers \ {a} : r \notin stale' => r \notin stale
           /\ \A r \in Callers \ {a} :
                 Serving(r) /\ r \notin stale' => entries' = entries /\ conf' = conf
           /\ Serving(a)' /\ a \notin stale' => a \notin stale
BY DEF History, Serving

LEMMA WhatIsSaved ==
    ASSUME NEW a \in Callers, NEW ok \in BOOLEAN, History(a, ok), saved' # Unknown
    PROVE  /\ Halfway(a) => ok /\ a \notin stale
           /\ \/ saved' = saved
              \/ /\ req[a].pc \in {"post", "erase"} /\ req'[a].pc = "ok"
                 /\ saved' = ValueSaved(a)
           /\ ~(req[a].pc \in {"post", "erase"} /\ req'[a].pc = "ok") => saved' = saved
BY DEF History

LEMMA FreshKept ==
    ASSUME SInv, NEW a \in Callers, NEW ok \in BOOLEAN, History(a, ok), Alone(a),
           Serving(a)' /\ a \notin stale => Local(a)'
    PROVE  FreshOK'
<1>1. SUFFICES ASSUME NEW r \in Callers, Serving(r)', r \notin stale'
               PROVE  Local(r)'
    BY DEF FreshOK, Fresh
<1>2. ReqOK
    BY DEF SInv
<1>3. CASE r = a
    BY <1>1, <1>2, <1>3, WhoIsStale
<1>4. CASE r # a
    <2>1. req'[r] = req[r] /\ call'[r] = call[r]
        BY <1>4 DEF Alone
    <2>2. Serving(r)
        BY <1>1, <2>1 DEF Serving
    <2>3. r \notin stale /\ entries' = entries /\ conf' = conf
        BY <1>1, <1>2, <1>4, <2>2, WhoIsStale
    <2>4. Local(r)
        BY <2>2, <2>3 DEF SInv, FreshOK, Fresh
    <2>5. QED
        BY <2>1, <2>3, <2>4, LocalSame
<1>5. QED
    BY <1>3, <1>4

LEMMA ServeKept ==
    ASSUME SInv, NEW a \in Callers, Alone(a),
           call'[a].pc # "done" => req'[a].pc \in {"repair", "save", "erase"}
    PROVE  CallsServe'
BY DEF SInv, CallsServe, Alone

LEMMA HalfwayServes == \A r \in Callers : Halfway(r) => Serving(r)
BY DEF Halfway, Serving

\* When the saved value is served, a fresh request that is halfway agrees.
LEMMA GoodAnswers ==
    ASSUME SInv, NEW a \in Callers, Halfway(a), a \notin stale,
           saved # Unknown, Good(saved)
    PROVE  Answers(a)
<1>1. Local(a)
    BY HalfwayServes DEF SInv, FreshOK, Fresh
<1>2. saved \in Fields
    BY DEF SInv, ReqOK
<1>3. req[a] \in Reqs
    BY DEF SInv, ReqOK
<1>4. CASE req[a].pc \in {"repair", "mask"}
    <2>1. req[a].seen = conf
        BY <1>1, <1>4 DEF Local, RepairOK
    <2>2. \/ conf \in Secrets \union {Blank}
          \/ conf = MaskText /\ Clear(entries) \in {NoText, MaskText}
        BY <1>1, <1>4, <2>1 DEF Local, RepairOK, Plain
    <2>3. saved = conf
        <3>1. saved # NoText
            BY <1>2, FieldValues, ValuesApart
        <3>2. QED
            BY <2>2, <3>1, ValuesApart DEF Good, Served
    <2>4. QED
        BY <1>4, <2>1, <2>3 DEF Answers, Finally, Yields
<1>5. CASE req[a].pc \in {"save", "post"}
    <2>1. req[a].op \in {"create", "update"} /\ SaveOK(a)
        BY <1>1, <1>5 DEF Local, SaveOK
    <2>2. Finally(a) = ValueSaved(a)
        BY <1>5 DEF Finally
    <2>3. req[a].arg \in Args
        BY <1>3 DEF Reqs
    <2>4. CASE req[a].arg \in Secrets
        <3>1. req[a].seen = req[a].arg
            BY <1>5, <2>1, <2>4 DEF SaveOK
        <3>2. ValueSaved(a) = req[a].arg
            BY <2>1, <2>4, ValuesApart DEF ValueSaved
        <3>3. Yields(a) = req[a].seen
            BY <1>5, <2>4, ValuesApart DEF Yields
        <3>4. QED
            BY <2>2, <3>1, <3>2, <3>3 DEF Answers
    <2>5. CASE req[a].arg = Blank
        <3>1. ValueSaved(a) = Blank
            BY <2>1, <2>5, ValuesApart DEF ValueSaved
        <3>2. Yields(a) = Blank
            BY <1>5, <2>5 DEF Yields
        <3>3. QED
            BY <2>2, <3>1, <3>2 DEF Answers
    <2>6. CASE Keeps(a)
        <3>1. Kept(a)
            BY <1>5, <2>1, <2>6 DEF SaveOK
        <3>2. conf \in {MaskText, Blank}
            BY <1>5, <2>1, <2>6, ValuesApart DEF SaveOK, Keeps
        <3>3. saved # NoText
            BY <1>2, FieldValues, ValuesApart
        <3>4. CASE conf = MaskText
            <4>1. saved = Clear(entries)
                BY <3>4 DEF Good, Served
            <4>2. saved = req[a].seen
                BY <3>1, <3>3, <4>1 DEF Kept
            <4>3. saved # Blank
                <5>1. saved = Blank => Present(entries) = {}
                    BY DEF Good
                <5>2. Present(entries) = {} => Clear(entries) = NoText
                    BY DEF Clear
                <5>3. QED
                    BY <3>3, <4>1, <5>1, <5>2
            <4>4. ValueSaved(a) = saved
                BY <2>1, <2>6, <4>3 DEF ValueSaved, Keeps
            <4>5. Yields(a) = req[a].seen
                BY <1>5, <2>6, <3>3, <4>2, ValuesApart DEF Yields, Keeps
            <4>6. QED
                BY <2>2, <4>2, <4>4, <4>5 DEF Answers
        <3>5. CASE conf = Blank
            <4>1. saved = Blank /\ Present(entries) = {}
                BY <3>5, ValuesApart DEF Good, Served
            <4>2. Clear(entries) = NoText
                BY <4>1 DEF Clear
            <4>3. CASE req[a].arg = Absent
                <5>1. req[a].seen = NoText
                    BY <3>1, <4>2, <4>3, ValuesApart DEF Kept
                <5>2. Yields(a) = Blank
                    BY <1>5, <3>5, <4>3, <5>1, ValuesApart DEF Yields
                <5>3. ValueSaved(a) = saved
                    BY <2>1, <4>3, ValuesApart DEF ValueSaved
                <5>4. QED
                    BY <2>2, <4>1, <5>2, <5>3 DEF Answers
            <4>4. CASE req[a].arg = MaskText
                <5>1. req[a].seen = MaskText
                    BY <1>5, <2>1, <3>1, <4>2, <4>4 DEF Kept, SaveOK
                <5>2. Yields(a) = MaskText
                    BY <1>5, <4>4, <5>1, ValuesApart DEF Yields
                <5>3. ValueSaved(a) = MaskText
                    BY <2>1, <4>1, <4>4, ValuesApart DEF ValueSaved
                <5>4. QED
                    BY <2>2, <5>2, <5>3 DEF Answers
            <4>5. QED
                BY <2>6, <4>3, <4>4 DEF Keeps
        <3>6. QED
            BY <3>2, <3>4, <3>5
    <2>7. QED
        BY <2>3, <2>4, <2>5, <2>6 DEF Args, Keeps
<1>6. CASE req[a].pc = "erase"
    BY <1>1, <1>6 DEF Local, EraseOK, Answers, Finally, Yields, ValueSaved
<1>7. QED
    BY <1>4, <1>5, <1>6 DEF Halfway

-----------------------------------------------------------------------------
(* How a step keeps SavedOK: the request reads, works, or is through        *)

\* Who is halfway and not stale after a change is the one that changed.
LEMMA OthersHalfway ==
    ASSUME SInv, NEW a \in Callers, NEW ok \in BOOLEAN, History(a, ok), Alone(a),
           NEW r \in Callers, r # a
    PROVE  /\ Halfway(r)' <=> Halfway(r)
           /\ Halfway(r) /\ r \notin stale' =>
                 r \notin stale /\ entries' = entries /\ conf' = conf
<1>1. req'[r] = req[r] /\ ReqOK
    BY DEF Alone, SInv
<1>2. Halfway(r) => Serving(r)
    BY HalfwayServes
<1>3. QED
    BY <1>1, <1>2, WhoIsStale DEF Halfway

LEMMA SavedKept ==
    ASSUME saved' # Unknown /\ (\A r \in Callers : Halfway(r)' => r \notin stale')
              => Good(saved)' \/ \E r \in Callers : Answers(r)'
    PROVE  SavedOK'
BY DEF SavedOK

\* What was known before a step, of a request that is halfway only if it has
\* missed nothing.
LEMMA KnownBefore ==
    ASSUME SInv, NEW a \in Callers, NEW ok \in BOOLEAN, History(a, ok), Alone(a),
           saved # Unknown, Halfway(a) => a \notin stale,
           \A r \in Callers : Halfway(r)' => r \notin stale'
    PROVE  Good(saved) \/ \E r \in Callers : Answers(r)
<1>1. \A r \in Callers : Halfway(r) => r \notin stale
    BY OthersHalfway
<1>2. QED
    BY <1>1 DEF SInv, SavedOK

LEMMA ReaderKeeps ==
    ASSUME SInv, NEW a \in Callers, NEW ok \in BOOLEAN, History(a, ok), Alone(a),
           ~Halfway(a), entries' = entries, conf' = conf
    PROVE  SavedOK'
<1>1. SUFFICES ASSUME saved' # Unknown, \A r \in Callers : Halfway(r)' => r \notin stale'
               PROVE  Good(saved)' \/ \E r \in Callers : Answers(r)'
    BY SavedKept
<1>2. saved' = saved
    BY <1>1, WhatIsSaved DEF Halfway
<1>3. CASE Good(saved)
    BY <1>2, <1>3, GoodSame
<1>4. ASSUME NEW r \in Callers, Answers(r)
      PROVE  Answers(r)'
    <2>1. r # a
        BY <1>4 DEF Answers
    <2>2. req'[r] = req[r]
        BY <2>1 DEF Alone
    <2>3. QED
        BY <1>2, <1>4, <2>2, FinishSame
<1>5. QED
    BY <1>1, <1>2, <1>3, <1>4, KnownBefore

\* A request that is halfway has, before its step, the last word: nobody else
\* that is halfway has missed nothing, or nothing is changed.
LEMMA WorkerAnswers ==
    ASSUME SInv, NEW a \in Callers, NEW ok \in BOOLEAN, History(a, ok), Alone(a),
           Halfway(a), a \notin stale, saved # Unknown,
           \A r \in Callers : Halfway(r)' => r \notin stale'
    PROVE  \/ Answers(a)
           \/ /\ entries' = entries /\ conf' = conf
              /\ \E r \in Callers \ {a} : Answers(r) /\ Halfway(r)'
<1>1. CASE Good(saved)
    BY <1>1, GoodAnswers
<1>2. ASSUME NEW r \in Callers \ {a}, Answers(r)
      PROVE  entries' = entries /\ conf' = conf /\ Halfway(r)'
    BY <1>2, OthersHalfway DEF Answers
<1>3. QED
    BY <1>1, <1>2, KnownBefore

LEMMA WorkerKeeps ==
    ASSUME SInv, NEW a \in Callers, NEW ok \in BOOLEAN, History(a, ok), Alone(a),
           Halfway(a), Halfway(a)',
           Answers(a) /\ saved' = saved => Answers(a)'
    PROVE  SavedOK'
<1>1. SUFFICES ASSUME saved' # Unknown, \A r \in Callers : Halfway(r)' => r \notin stale'
               PROVE  Good(saved)' \/ \E r \in Callers : Answers(r)'
    BY SavedKept
<1>2. saved' = saved /\ a \notin stale
    BY <1>1, WhatIsSaved DEF Halfway
<1>3. ASSUME conf' = conf, NEW r \in Callers \ {a}, Answers(r)
      PROVE  Answers(r)'
    <2>1. req'[r] = req[r]
        BY DEF Alone
    <2>2. QED
        BY <1>2, <1>3, <2>1, FinishSame
<1>4. QED
    BY <1>1, <1>2, <1>3, WorkerAnswers

LEMMA RestorerKeeps ==
    ASSUME SInv, NEW a \in Callers, NEW ok \in BOOLEAN, History(a, ok), Alone(a),
           req[a].pc \in {"repair", "mask"},
           ok /\ Local(a) /\ saved' = saved /\ saved = Yields(a) => Good(saved)'
    PROVE  SavedOK'
<1>1. SUFFICES ASSUME saved' # Unknown, \A r \in Callers : Halfway(r)' => r \notin stale'
               PROVE  Good(saved)' \/ \E r \in Callers : Answers(r)'
    BY SavedKept
<1>2. Halfway(a)
    BY DEF Halfway
<1>3. saved' = saved /\ a \notin stale /\ ok
    BY <1>1, <1>2, WhatIsSaved
<1>4. Local(a)
    BY <1>2, <1>3, HalfwayServes DEF SInv, FreshOK, Fresh
<1>5. CASE Answers(a)
    BY <1>3, <1>4, <1>5 DEF Answers, Finally
<1>6. ASSUME conf' = conf, NEW r \in Callers \ {a}, Answers(r)
      PROVE  Answers(r)'
    <2>1. req'[r] = req[r]
        BY DEF Alone
    <2>2. QED
        BY <1>3, <1>6, <2>1, FinishSame
<1>7. QED
    BY <1>1, <1>2, <1>3, <1>5, <1>6, WorkerAnswers

\* A request that keeps the value is through, and another one still has to see
\* to it: that one is not misled by "******" for an empty field.
LEMMA KeeperLeaves ==
    ASSUME SInv, NEW a \in Callers, NEW r \in Callers, req'[r] = req[r],
           conf' = conf, conf = MaskText, Keeps(a), req[a].op # "delete",
           saved' = ValueSaved(a), saved # Unknown,
           Answers(r), r \notin stale
    PROVE  Answers(r)'
<1>1. CASE saved' = saved
    BY <1>1, FinishSame
<1>2. CASE saved' # saved
    <2>1. saved = Blank /\ saved' = MaskText
        BY <1>2 DEF ValueSaved, Keeps
    <2>2. Local(r)
        BY HalfwayServes DEF SInv, FreshOK, Fresh, Answers
    <2>3. Finally(r) = Yields(r) /\ Halfway(r)
        BY DEF Answers
    <2>4. req[r].pc \in {"save", "post"}
        <3>1. req[r].pc \notin {"repair", "mask"}
            BY <2>1, <2>2, <2>3, ValuesApart DEF Local, RepairOK, Finally, Yields
        <3>2. req[r].pc # "erase"
            BY <2>2, ValuesApart DEF Local, EraseOK
        <3>3. QED
            BY <2>3, <3>1, <3>2 DEF Halfway
    <2>5. req[r].op \in {"create", "update"} /\ SaveOK(r)
        BY <2>2, <2>4 DEF Local, SaveOK
    <2>6. Finally(r) = ValueSaved(r) /\ Finally(r)' = ValueSaved(r)'
        BY <2>4 DEF Finally
    <2>7. Yields(r)' = Yields(r) /\ Halfway(r)'
        BY <2>3 DEF Yields, Halfway
    <2>8. req[r].arg # Absent
        <3>1. SUFFICES ASSUME req[r].arg = Absent PROVE FALSE
            OBVIOUS
        <3>2. ValueSaved(r) = Blank
            BY <2>1, <2>5, <3>1, ValuesApart DEF ValueSaved
        <3>3. Yields(r) = req[r].seen
            BY <2>4, <3>1, ValuesApart DEF Yields
        <3>4. req[r].seen \in Texts \union {NoText}
            BY <2>4, <2>5 DEF SaveOK
        <3>5. QED
            BY <2>3, <2>6, <3>2, <3>3, <3>4, ValuesApart
    <2>9. ValueSaved(r)' = ValueSaved(r)
        BY <2>1, <2>5, <2>8, ValuesApart DEF ValueSaved
    <2>10. QED
        BY <2>3, <2>6, <2>7, <2>9 DEF Answers
<1>3. QED
    BY <1>1, <1>2

-----------------------------------------------------------------------------
(* Every action keeps the invariant: reading                                *)

LEMMA CheckedAlone ==
    ASSUME ReqOK, NEW a \in Callers, NEW found \in BOOLEAN, Checked(a, found),
           req[a].op # "delete"
    PROVE  /\ \A r \in Callers \ {a} : req'[r] = req[r]
           /\ \/ /\ req'[a].pc = "ready" /\ req'[a].op = req[a].op
                 /\ req'[a].arg = req[a].arg /\ req'[a].seen = req[a].seen
                 /\ \/ req[a].op = "create"
                    \/ req[a].op = "update" /\ found
              \/ req'[a].pc \in {"ok", "failed"} /\ (req'[a].pc = "ok" => found)
<1>1. req[a].op \in {"get", "list", "create", "update"}
    BY DEF ReqOK, Reqs
<1>2. CASE req[a].op \in {"get", "list"}
    BY <1>2, AnswerAlone DEF Checked
<1>3. CASE req[a].op = "create"
    BY <1>3, AnswerAlone, MoveAlone DEF Checked
<1>4. CASE req[a].op = "update"
    BY <1>4, AnswerAlone, MoveAlone DEF Checked
<1>5. QED
    BY <1>1, <1>2, <1>3, <1>4

\* A request that has read the stanza is through, or ready to save.
LEMMA CheckedLocal ==
    ASSUME SInv, NEW a \in Callers, NEW found \in BOOLEAN, Checked(a, found),
           req[a].op # "delete", Serving(a), a \notin stale, Serving(a)',
           Local(a) /\ req[a].op = "update" /\ found => conf' \in {MaskText, Blank}
    PROVE  Local(a)'
<1>1. Local(a)
    BY DEF SInv, FreshOK, Fresh
<1>2. /\ req'[a].pc = "ready" /\ req'[a].op = req[a].op
      /\ req'[a].arg = req[a].arg
      /\ req[a].op = "create" \/ (req[a].op = "update" /\ found)
    <2>1. ReqOK /\ req'[a].pc \notin {"ok", "failed"}
        BY DEF SInv, Serving
    <2>2. QED
        BY <2>1, CheckedAlone
<1>3. req[a].op = "create" => req[a].arg \in Secrets
    BY <1>1 DEF Local, SaveOK
<1>4. QED
    BY <1>1, <1>2, <1>3 DEF Local, ReadingOK, RepairOK, SaveOK, EraseOK

LEMMA IdleCall ==
    ASSUME SInv, NEW a \in Callers, req[a].pc \notin {"repair", "save", "erase"}
    PROVE  call[a].pc = "done"
BY DEF SInv, CallsServe

LEMMA ReceiveKeeps ==
    ASSUME SInv, NEW a \in Callers, Receive(a)
    PROVE  CallsServe' /\ FreshOK' /\ SavedOK'
<1>1. ReqOK /\ CredTypeOK
    BY DEF SInv, IInv
<1>2. PICK op \in Operations : \E arg \in Arguments(op) :
          Step(a, [op |-> op, arg |-> arg, seen |-> Blank,
                   pc |-> IF op = "delete" THEN "remove" ELSE "conf"])
    BY DEF Receive
<1>3. PICK arg \in Arguments(op) :
          Step(a, [op |-> op, arg |-> arg, seen |-> Blank,
                   pc |-> IF op = "delete" THEN "remove" ELSE "conf"])
    BY <1>2
<1>4. /\ req'[a].op = op /\ req'[a].arg = arg
      /\ req'[a].pc = IF op = "delete" THEN "remove" ELSE "conf"
      /\ \A r \in Callers \ {a} : req'[r] = req[r]
    BY <1>1, <1>3, StepAlone
<1>5. UNCHANGED credVars /\ conf' = conf /\ History(a, TRUE) /\ ~Serving(a)
    BY DEF Receive
<1>6. Alone(a) /\ entries' = entries /\ call' = call
    BY <1>4, <1>5 DEF Alone, credVars
<1>7. ~Halfway(a)
    BY <1>5, HalfwayServes
<1>8. op = "create" => arg \in Secrets
    BY DEF Arguments
<1>9. Local(a)'
    BY <1>4, <1>8 DEF Local, ReadingOK, RepairOK, SaveOK, EraseOK
<1>10. call'[a].pc = "done"
    BY <1>5, <1>6, IdleCall DEF Serving
<1>11. QED
    BY <1>5, <1>6, <1>7, <1>9, <1>10, FreshKept, ServeKept, ReaderKeeps

LEMMA ReadConfKeeps ==
    ASSUME SInv, NEW a \in Callers, ReadConf(a)
    PROVE  CallsServe' /\ FreshOK' /\ SavedOK'
<1>1. ReqOK /\ CredTypeOK
    BY DEF SInv, IInv
<1>2. /\ req[a].pc = "conf" /\ req[a].op # "delete"
      /\ UNCHANGED credVars /\ conf' = conf /\ History(a, TRUE)
    BY <1>1 DEF ReadConf, ReqOK
<1>3. ~Halfway(a) /\ Serving(a) /\ entries' = entries /\ call' = call
    BY <1>2 DEF Halfway, Serving, credVars
<1>4. call'[a].pc = "done"
    BY <1>2, <1>3, IdleCall
<1>5. ASSUME Checked(a, FALSE)
      PROVE  Alone(a) /\ (Serving(a)' /\ a \notin stale => Local(a)')
    BY <1>1, <1>2, <1>3, <1>5, CheckedAlone, CheckedLocal DEF Alone
<1>6. ASSUME Step(a, [req[a] EXCEPT !.pc = "secret", !.seen = conf]),
             conf = NoStanza => req[a].op = "list"
      PROVE  Alone(a) /\ (Serving(a)' /\ a \notin stale => Local(a)')
    <2> DEFINE new == [req[a] EXCEPT !.pc = "secret", !.seen = conf]
    <2>1. /\ new.pc = "secret" /\ new.seen = conf
          /\ new.op = req[a].op /\ new.arg = req[a].arg
        BY <1>1 DEF ReqOK, Reqs
    <2>2. /\ req'[a].pc = "secret" /\ req'[a].seen = conf
          /\ req'[a].op = req[a].op /\ req'[a].arg = req[a].arg
          /\ \A r \in Callers \ {a} : req'[r] = req[r]
        <3>1. Step(a, new)
            BY <1>6
        <3> HIDE DEF new
        <3>2. QED
            BY <1>1, <2>1, <3>1, StepAlone
    <2>3. a \notin stale => (req[a].op = "create" => req[a].arg \in Secrets)
        BY <1>3 DEF SInv, FreshOK, Fresh, Local, SaveOK
    <2>4. a \notin stale => Local(a)'
        BY <1>2, <1>6, <2>2, <2>3 DEF Local, ReadingOK, RepairOK, SaveOK, EraseOK
    <2>5. QED
        BY <1>3, <2>2, <2>4 DEF Alone
<1>7. Alone(a) /\ (Serving(a)' /\ a \notin stale => Local(a)')
    BY <1>5, <1>6 DEF ReadConf
<1>8. QED
    BY <1>2, <1>3, <1>4, <1>7, FreshKept, ServeKept, ReaderKeeps

\* The call that a request makes is for its text.
LEMMA CallBegins ==
    ASSUME CredTypeOK, NEW a \in Callers, NEW text \in Texts \union {NoText},
           IF text = NoText THEN DeletePassword(a) ELSE SetPassword(a, text)
    PROVE  /\ Writing(a)' /\ call'[a].pc # "done" /\ call'[a].text = text
           /\ Progress(a)' /\ entries' = entries
           /\ \A r \in Callers \ {a} : call'[r] = call[r]
<1>1. \A r \in Callers \ {a} : call'[r] = call[r]
    BY CallAlone
<1>2. CASE text = NoText
    <2>1. Begin(a, Rest("look"))
        BY <1>2 DEF DeletePassword
    <2>2. call'[a] = Rest("look") /\ entries' = entries
        BY <2>1 DEF Begin, CredTypeOK
    <2>3. QED
        BY <1>1, <1>2, <2>2 DEF Rest, Writing, Progress, SetPcs
<1>3. CASE text # NoText
    <2>1. Begin(a, Storing("create", text, 1))
        BY <1>3 DEF SetPassword
    <2>2. call'[a] = Storing("create", text, 1) /\ entries' = entries
        BY <2>1 DEF Begin, CredTypeOK
    <2>3. QED
        BY <1>1, <2>2 DEF Storing, Writing, Progress, SetPcs, Indices
<1>4. QED
    BY <1>2, <1>3

LEMMA ReadSecretKeeps ==
    ASSUME SInv, NEW a \in Callers, ReadSecret(a)
    PROVE  CallsServe' /\ FreshOK' /\ SavedOK'
<1> DEFINE text == Clear(entries)
           wanted == Wanted(a, text)
<1>1. ReqOK /\ CredTypeOK
    BY DEF SInv, IInv
<1>2. /\ req[a].pc = "secret" /\ req[a].op # "delete"
      /\ conf' = conf /\ History(a, TRUE)
    BY <1>1 DEF ReadSecret, ReqOK
<1>3. ~Halfway(a) /\ Serving(a)
    BY <1>2 DEF Halfway, Serving
<1>4. a \notin stale => /\ req[a].seen = conf /\ (conf = NoStanza => req[a].op = "list")
                        /\ req[a].op = "create" => req[a].arg \in Secrets
    BY <1>2, <1>3 DEF SInv, FreshOK, Fresh, Local, ReadingOK, SaveOK
<1>5. conf \in Fields
    BY <1>1 DEF ReqOK
<1> DEFINE Kept_ == /\ Alone(a) /\ entries' = entries
                    /\ call'[a].pc # "done" => req'[a].pc \in {"repair", "save", "erase"}
                    /\ Serving(a)' /\ a \notin stale => Local(a)'
<1>6. ASSUME NEW found \in BOOLEAN, Checked(a, found), UNCHANGED credVars,
             found => ~Plain(a)
      PROVE  Kept_
    <2>1. entries' = entries /\ call' = call
        BY <1>6 DEF credVars
    <2>2. Alone(a)
        BY <1>1, <1>2, <1>6, <2>1, CheckedAlone DEF Alone
    <2>3. a \notin stale /\ req[a].op = "update" /\ found => conf' \in {MaskText, Blank}
        BY <1>2, <1>4, <1>5, <1>6 DEF Plain, Fields
    <2>4. Serving(a)' /\ a \notin stale => Local(a)'
        BY <1>2, <1>3, <1>6, <2>3, CheckedLocal
    <2>5. call'[a].pc = "done"
        BY <1>2, <2>1, IdleCall
    <2>6. QED
        BY <2>1, <2>2, <2>4, <2>5
<1>7. ASSUME Plain(a), wanted = text, Move(a, "mask"), UNCHANGED credVars
      PROVE  Kept_
    <2>1. entries' = entries /\ call' = call
        BY <1>7 DEF credVars
    <2>2. /\ req'[a].pc = "mask" /\ req'[a].op = req[a].op
          /\ req'[a].arg = req[a].arg /\ req'[a].seen = req[a].seen
          /\ \A r \in Callers \ {a} : req'[r] = req[r]
        BY <1>1, <1>7, MoveAlone
    <2>3. call'[a].pc = "done"
        BY <1>2, <2>1, IdleCall
    <2>4. text = req[a].seen
        BY <1>7 DEF Wanted
    <2>5. Clear(entries)' = text
        BY <2>1
    <2>6. a \notin stale => Local(a)'
        BY <1>2, <1>4, <1>7, <2>2, <2>4, <2>5
           DEF Local, ReadingOK, RepairOK, SaveOK, EraseOK, Plain
    <2>7. QED
        BY <2>1, <2>2, <2>3, <2>6 DEF Alone
<1>8. ASSUME text \in Parsable \union {NoText},
             ~(wanted = text /\ ~(Plain(a) /\ req[a].op = "list")),
             Move(a, "repair"),
             IF wanted = NoText THEN DeletePassword(a) ELSE SetPassword(a, wanted)
      PROVE  Kept_
    <2>1. wanted \in Texts \union {NoText}
        BY <1>8, WantedText, ValuesApart
    <2>2. /\ Writing(a)' /\ call'[a].pc # "done" /\ call'[a].text = wanted
          /\ Progress(a)' /\ entries' = entries
          /\ \A r \in Callers \ {a} : call'[r] = call[r]
        BY <1>1, <1>8, <2>1, CallBegins
    <2>3. /\ req'[a].pc = "repair" /\ req'[a].op = req[a].op
          /\ req'[a].arg = req[a].arg /\ req'[a].seen = req[a].seen
          /\ \A r \in Callers \ {a} : req'[r] = req[r]
        BY <1>1, <1>8, MoveAlone
    <2>4. \/ Plain(a) /\ wanted = req[a].seen
          \/ ~Plain(a) /\ req[a].seen = MaskText /\ text = NoText /\ wanted = MaskText
          \/ /\ ~Plain(a) /\ req[a].seen = Blank /\ req[a].op = "list"
             /\ wanted = NoText
        BY <1>8 DEF Wanted
    <2>5. Plain(a)' = Plain(a)
        BY <2>3 DEF Plain
    <2>6. Target(a)' = wanted
        BY <2>3, <2>4, <2>5, ValuesApart DEF Target
    <2>7. CallFor(a)'
        BY <2>2, <2>6 DEF CallFor
    <2>8. Clear(entries)' = text
        BY <2>2
    <2>9. a \notin stale => RepairOK(a)'
        BY <1>2, <1>4, <2>3, <2>4, <2>5, <2>7, <2>8 DEF RepairOK
    <2>10. a \notin stale => Local(a)'
        BY <1>4, <2>3, <2>9 DEF Local, ReadingOK, SaveOK, EraseOK
    <2>11. QED
        BY <2>2, <2>3, <2>10 DEF Alone
<1>9. Kept_
    BY <1>6, <1>7, <1>8 DEF ReadSecret
<1>10. QED
    BY <1>2, <1>3, <1>9, FreshKept, ServeKept, ReaderKeeps

\* A request has looked at how its call ended.
LEMMA HandledCall ==
    ASSUME CredTypeOK, NEW a \in Callers, Handled(a)
    PROVE  /\ call'[a] = Rest("done") /\ call[a].pc \in {"done", "raised"}
           /\ entries' = entries /\ ~Writing(a)'
           /\ \A r \in Callers \ {a} : call'[r] = call[r]
BY DEF Handled, CredTypeOK, Writing, Rest

\* A value that was served, whether repaired or not, is what is served after it
\* has been encrypted.
LEMMA RestoredIsGood ==
    ASSUME SInv, NEW a \in Callers, saved = Yields(a), saved' = saved,
           entries' = entries, saved # Unknown, Local(a),
           \/ /\ req[a].pc = "repair" /\ ~Plain(a) /\ conf' = conf
              /\ Clear(entries) = Target(a)
           \/ req[a].pc = "mask" /\ conf' = MaskText
    PROVE  Good(saved)'
<1>1. Clear(entries') = Clear(entries) /\ Present(entries') = Present(entries)
    OBVIOUS
<1>2. saved = req[a].seen
    BY DEF Yields
<1>3. CASE req[a].pc = "mask" /\ conf' = MaskText
    <2>1. saved \in Secrets /\ Clear(entries) = saved
        BY <1>2, <1>3 DEF Local, RepairOK, Plain
    <2>2. QED
        BY <1>1, <1>3, <2>1, ValuesApart DEF Good, Served
<1>4. CASE req[a].pc = "repair" /\ ~Plain(a) /\ conf' = conf
             /\ Clear(entries) = Target(a)
    <2>1. /\ saved = conf
          /\ \/ conf = MaskText
             \/ conf = Blank /\ req[a].op = "list"
        BY <1>2, <1>4 DEF Local, RepairOK
    <2>2. CASE conf = MaskText
        <3>1. Clear(entries) = MaskText
            BY <1>2, <1>4, <2>1, <2>2 DEF Target
        <3>2. QED
            BY <1>1, <1>4, <2>1, <2>2, <3>1, ValuesApart DEF Good, Served
    <2>3. CASE conf = Blank
        <3>1. Clear(entries) = NoText
            BY <1>2, <1>4, <2>1, <2>3, ValuesApart DEF Target
        <3>2. entries \in [Indices -> Pieces \union {EndMark, NoEntry}]
            BY DEF SInv, IInv, CredTypeOK
        <3>3. Present(entries) = {}
            BY <3>1, <3>2, ClearOfNothing
        <3>4. QED
            BY <1>1, <1>4, <2>1, <2>3, <3>3, ValuesApart DEF Good, Served
    <2>4. QED
        BY <2>1, <2>2, <2>3
<1>5. QED
    BY <1>3, <1>4

LEMMA RepairedKeeps ==
    ASSUME SInv, NEW a \in Callers, Repaired(a)
    PROVE  CallsServe' /\ FreshOK' /\ SavedOK'
<1> DEFINE ok == call[a].pc = "done"
<1>1. ReqOK /\ CredTypeOK
    BY DEF SInv, IInv
<1>2. /\ req[a].pc = "repair" /\ req[a].op # "delete"
      /\ conf' = conf /\ History(a, ok) /\ ok \in BOOLEAN
    BY <1>1 DEF Repaired, ReqOK
<1>3. Halfway(a) /\ Serving(a)
    BY <1>2 DEF Halfway, Serving
<1>4. /\ call'[a].pc = "done" /\ call[a].pc \in {"done", "raised"}
      /\ entries' = entries
      /\ \A r \in Callers \ {a} : call'[r] = call[r]
    BY <1>1, HandledCall DEF Repaired, Rest
<1>5. a \notin stale => Local(a)
    BY <1>3 DEF SInv, FreshOK, Fresh
<1>6. CASE ok /\ Plain(a)
    <2>1. /\ req'[a].pc = "mask" /\ req'[a].op = req[a].op
          /\ req'[a].arg = req[a].arg /\ req'[a].seen = req[a].seen
          /\ \A r \in Callers \ {a} : req'[r] = req[r]
        BY <1>1, <1>6, MoveAlone DEF Repaired
    <2>2. Alone(a)
        BY <1>4, <2>1 DEF Alone
    <2>3. Local(a) => Clear(entries) = req[a].seen
        BY <1>2, <1>6 DEF Local, RepairOK, CallFor, Target
    <2>4. Local(a) => Local(a)'
        <3>1. Clear(entries)' = Clear(entries) /\ Plain(a)'
            BY <1>4, <1>6, <2>1 DEF Plain
        <3>2. QED
            BY <1>2, <2>1, <2>3, <3>1
               DEF Local, ReadingOK, RepairOK, SaveOK, EraseOK
    <2>5. Halfway(a)'
        BY <2>1 DEF Halfway
    <2>6. Answers(a) /\ saved' = saved => Answers(a)'
        BY <1>2, <2>1 DEF Answers, Finally, Yields, Halfway
    <2>7. QED
        BY <1>2, <1>3, <1>4, <1>5, <2>2, <2>4, <2>5, <2>6,
           FreshKept, ServeKept, WorkerKeeps
<1>7. ASSUME NEW found \in BOOLEAN, Checked(a, found), found <=> ok, ~(ok /\ Plain(a))
      PROVE  CallsServe' /\ FreshOK' /\ SavedOK'
    <2>1. Alone(a)
        BY <1>1, <1>2, <1>4, <1>7, CheckedAlone DEF Alone
    <2>2. Local(a) /\ found => ~Plain(a) /\ Clear(entries) = Target(a)
        BY <1>2, <1>7 DEF Local, RepairOK, CallFor
    <2>3. Local(a) /\ req[a].op = "update" /\ found => conf' \in {MaskText, Blank}
        BY <1>2, <2>2 DEF Local, RepairOK
    <2>4. Serving(a)' /\ a \notin stale => Local(a)'
        BY <1>2, <1>3, <1>7, <2>3, CheckedLocal
    <2>5. ok /\ Local(a) /\ saved' = saved /\ saved = Yields(a) => Good(saved)'
        <3>1. CASE saved = Unknown
            BY <3>1, <1>2, ValuesApart DEF Yields, Local, RepairOK, Plain
        <3>2. CASE saved # Unknown
            BY <1>2, <1>4, <1>7, <2>2, <3>2, RestoredIsGood
        <3>3. QED
            BY <3>1, <3>2
    <2>6. QED
        BY <1>2, <1>4, <2>1, <2>4, <2>5, FreshKept, ServeKept, RestorerKeeps
<1>8. CASE ~(ok /\ Plain(a))
    <2>1. CASE ok
        BY <1>7, <1>8, <2>1 DEF Repaired
    <2>2. CASE ~ok
        BY <1>4, <1>7, <2>2 DEF Repaired
    <2>3. QED
        BY <2>1, <2>2
<1>9. QED
    BY <1>6, <1>8

LEMMA PostMaskKeeps ==
    ASSUME SInv, NEW a \in Callers, PostMask(a)
    PROVE  CallsServe' /\ FreshOK' /\ SavedOK'
<1> DEFINE ok == conf # NoStanza
<1>1. ReqOK /\ CredTypeOK
    BY DEF SInv, IInv
<1>2. /\ req[a].pc = "mask" /\ req[a].op # "delete"
      /\ History(a, ok) /\ ok \in BOOLEAN /\ Checked(a, ok)
      /\ UNCHANGED credVars /\ (ok => conf' = MaskText)
    BY <1>1 DEF PostMask, ReqOK
<1>3. Halfway(a) /\ Serving(a) /\ entries' = entries /\ call' = call
    BY <1>2 DEF Halfway, Serving, credVars
<1>4. Alone(a) /\ call'[a].pc = "done"
    BY <1>1, <1>2, <1>3, CheckedAlone, IdleCall DEF Alone
<1>5. Serving(a)' /\ a \notin stale => Local(a)'
    BY <1>2, <1>3, CheckedLocal
<1>6. ok /\ Local(a) /\ saved' = saved /\ saved = Yields(a) => Good(saved)'
    <2>1. CASE saved = Unknown
        BY <1>2, <2>1, ValuesApart DEF Yields, Local, RepairOK, Plain
    <2>2. CASE saved # Unknown
        BY <1>2, <1>3, <2>2, RestoredIsGood
    <2>3. QED
        BY <2>1, <2>2
<1>7. QED
    BY <1>2, <1>4, <1>5, <1>6, FreshKept, ServeKept, RestorerKeeps

-----------------------------------------------------------------------------
(* Every action keeps the invariant: saving and deleting                    *)

LEMMA EncryptKeeps ==
    ASSUME SInv, NEW a \in Callers, Encrypt(a)
    PROVE  CallsServe' /\ FreshOK' /\ SavedOK'
<1> DEFINE arg == req[a].arg
           text == Clear(entries)
           wanted == IF arg = Blank THEN NoText
                     ELSE IF ~Keeps(a) THEN arg
                     ELSE IF text = NoText /\ arg = MaskText THEN MaskText
                     ELSE text
<1>1. ReqOK /\ CredTypeOK
    BY DEF SInv, IInv
<1>2. /\ req[a].pc = "ready" /\ conf' = conf /\ History(a, TRUE)
      /\ arg \in Args
    BY <1>1 DEF Encrypt, ReqOK, Reqs
<1>3. ~Halfway(a) /\ Serving(a)
    BY <1>2 DEF Halfway, Serving
<1>4. CASE Keeps(a) /\ text \notin Parsable \union {NoText}
    <2>1. Answer(a, "failed") /\ UNCHANGED credVars
        BY <1>4 DEF Encrypt, Keeps
    <2>2. entries' = entries /\ call' = call
        BY <2>1 DEF credVars
    <2>3. Alone(a) /\ ~Serving(a)'
        BY <1>1, <2>1, <2>2, AnswerAlone DEF Alone, Serving
    <2>4. call'[a].pc = "done"
        BY <1>2, <2>2, IdleCall
    <2>5. QED
        BY <1>2, <1>3, <2>2, <2>3, <2>4, FreshKept, ServeKept, ReaderKeeps
<1>5. CASE ~(Keeps(a) /\ text \notin Parsable \union {NoText})
    <2> DEFINE new == [req[a] EXCEPT !.pc = "save", !.seen = wanted]
    <2>1. /\ Step(a, new)
          /\ IF wanted = NoText THEN DeletePassword(a) ELSE SetPassword(a, wanted)
        BY <1>5 DEF Encrypt, Keeps
    <2>2. wanted \in Texts \union {NoText}
        BY <1>2, <1>5, ValuesApart DEF Args, Keeps
    <2>3. /\ new.pc = "save" /\ new.seen = wanted
          /\ new.op = req[a].op /\ new.arg = arg
        BY <1>1 DEF ReqOK, Reqs
    <2>4. /\ arg \in Secrets => wanted = arg
          /\ arg = Blank => wanted = NoText
          /\ arg = MaskText => wanted # NoText
          /\ Keeps(a) => \/ text = wanted
                         \/ text = NoText /\ arg = MaskText /\ wanted = MaskText
        BY ValuesApart DEF Keeps
    <2> HIDE DEF new, wanted
    <2>5. /\ req'[a].pc = "save" /\ req'[a].seen = wanted
          /\ req'[a].op = req[a].op /\ req'[a].arg = arg
          /\ \A r \in Callers \ {a} : req'[r] = req[r]
        BY <1>1, <2>1, <2>3, StepAlone
    <2>6. /\ Writing(a)' /\ call'[a].pc # "done" /\ call'[a].text = wanted
          /\ Progress(a)' /\ entries' = entries
          /\ \A r \in Callers \ {a} : call'[r] = call[r]
        BY <1>1, <2>1, <2>2, CallBegins
    <2>7. Alone(a)
        BY <2>5, <2>6 DEF Alone
    <2>8. CallFor(a)'
        BY <2>5, <2>6 DEF CallFor, Target
    <2>9. Clear(entries)' = text /\ Keeps(a)' = Keeps(a)
        BY <2>5, <2>6 DEF Keeps
    <2>10. Local(a) => SaveOK(a)'
        <3>1. Keeps(a)' => Kept(a)'
            BY <2>4, <2>5, <2>9 DEF Kept
        <3>2. SUFFICES ASSUME Local(a) PROVE SaveOK(a)'
            OBVIOUS
        <3>3. /\ req[a].op = "create" => arg \in Secrets
              /\ req[a].op \in {"create", "update"}
              /\ req[a].op = "update" => conf' \in {MaskText, Blank}
            BY <1>2, <3>2 DEF Local, SaveOK
        <3>4. QED
            BY <2>2, <2>4, <2>5, <2>8, <3>1, <3>3 DEF SaveOK
    <2>11. Local(a) => Local(a)'
        BY <2>5, <2>10 DEF Local, ReadingOK, RepairOK, EraseOK
    <2>12. a \notin stale => Local(a)'
        BY <1>3, <2>11 DEF SInv, FreshOK, Fresh
    <2>13. QED
        BY <1>2, <1>3, <2>5, <2>6, <2>7, <2>12, FreshKept, ServeKept, ReaderKeeps
<1>6. QED
    BY <1>4, <1>5

\* When its call has failed, a request that is halfway makes the value unknown.
LEMMA FailureKeeps ==
    ASSUME NEW a \in Callers, History(a, FALSE), Halfway(a)
    PROVE  SavedOK'
BY DEF History, SavedOK

LEMMA EncryptedKeeps ==
    ASSUME SInv, NEW a \in Callers, Encrypted(a)
    PROVE  CallsServe' /\ FreshOK' /\ SavedOK'
<1> DEFINE ok == call[a].pc = "done"
<1>1. ReqOK /\ CredTypeOK
    BY DEF SInv, IInv
<1>2. req[a].pc = "save" /\ conf' = conf /\ History(a, ok) /\ ok \in BOOLEAN
    BY DEF Encrypted
<1>3. Halfway(a) /\ Serving(a)
    BY <1>2 DEF Halfway, Serving
<1>4. /\ call'[a].pc = "done" /\ call[a].pc \in {"done", "raised"}
      /\ entries' = entries
      /\ \A r \in Callers \ {a} : call'[r] = call[r]
    BY <1>1, HandledCall DEF Encrypted, Rest
<1>5. CASE ~ok
    <2>1. Answer(a, "failed")
        BY <1>4, <1>5 DEF Encrypted
    <2>2. Alone(a) /\ ~Serving(a)'
        BY <1>1, <1>4, <2>1, AnswerAlone DEF Alone, Serving
    <2>3. SavedOK'
        BY <1>2, <1>3, <1>5, FailureKeeps
    <2>4. QED
        BY <1>2, <1>4, <2>2, <2>3, FreshKept, ServeKept
<1>6. CASE ok
    <2>1. /\ req'[a].pc = "post" /\ req'[a].op = req[a].op
          /\ req'[a].arg = req[a].arg /\ req'[a].seen = req[a].seen
          /\ \A r \in Callers \ {a} : req'[r] = req[r]
        BY <1>1, <1>6, MoveAlone DEF Encrypted
    <2>2. Alone(a) /\ Halfway(a)'
        BY <1>4, <2>1 DEF Alone, Halfway
    <2>3. Local(a) => Clear(entries) = req[a].seen
        BY <1>2, <1>6 DEF Local, SaveOK, CallFor, Target
    <2>4. Local(a) => SaveOK(a)'
        <3>1. Clear(entries)' = Clear(entries) /\ Keeps(a)' = Keeps(a)
            BY <1>4, <2>1 DEF Keeps
        <3>2. Local(a) => Kept(a)'
            BY <2>1, <2>3, <3>1 DEF Kept
        <3>3. QED
            BY <1>2, <2>1, <2>3, <3>1, <3>2 DEF Local, SaveOK
    <2>5. a \notin stale => Local(a)'
        BY <1>3, <2>1, <2>4
           DEF SInv, FreshOK, Fresh, Local, ReadingOK, RepairOK, EraseOK
    <2>6. Answers(a) /\ saved' = saved => Answers(a)'
        BY <1>2, <2>1, <2>2 DEF Answers, Finally, Yields, ValueSaved
    <2>7. QED
        BY <1>2, <1>3, <1>4, <2>2, <2>5, <2>6, FreshKept, ServeKept, WorkerKeeps
<1>7. QED
    BY <1>5, <1>6

\* What is posted for a text that is in the entries makes the value good.
LEMMA PostedIsGood ==
    ASSUME SInv, NEW a \in Callers, req[a].pc = "post", Local(a), Answers(a),
           Accepted(a), entries' = entries, conf' = Posted(a),
           saved' = ValueSaved(a), saved' # Unknown
    PROVE  Good(saved)'
<1>1. Clear(entries') = Clear(entries) /\ Present(entries') = Present(entries)
    OBVIOUS
<1>2. /\ SaveOK(a) /\ Clear(entries) = req[a].seen
      /\ req[a].seen \in Texts \union {NoText}
      /\ req[a].op \in {"create", "update"}
    BY DEF Local, SaveOK
<1>3. saved' = Yields(a)
    BY DEF Answers, Finally
<1>4. CASE req[a].arg = Blank
    <2>1. conf' = Blank /\ saved' = Blank
        BY <1>3, <1>4, ValuesApart DEF Posted, Yields
    <2>2. Clear(entries) = NoText
        BY <1>2, <1>4 DEF SaveOK
    <2>3. entries \in [Indices -> Pieces \union {EndMark, NoEntry}]
        BY DEF SInv, IInv, CredTypeOK
    <2>4. Present(entries) = {}
        BY <2>2, <2>3, ClearOfNothing
    <2>5. QED
        BY <1>1, <2>1, <2>4, ValuesApart DEF Good, Served
<1>5. CASE req[a].arg = Absent /\ req[a].seen = NoText
    <2>1. conf' = conf
        BY <1>5, ValuesApart DEF Posted
    <2>2. conf \in {MaskText, Blank}
        BY <1>2, <1>5, ValuesApart DEF SaveOK
    <2>3. saved' = IF conf = MaskText THEN NoText ELSE conf
        BY <1>3, <1>5, ValuesApart DEF Yields
    <2>4. saved' \in Fields
        <3>1. saved' = saved
            BY <1>2, <1>5, ValuesApart DEF ValueSaved
        <3>2. QED
            BY <3>1 DEF SInv, ReqOK
    <2>5. conf = Blank /\ saved' = Blank
        BY <2>2, <2>3, <2>4, FieldValues, ValuesApart
    <2>6. entries \in [Indices -> Pieces \union {EndMark, NoEntry}]
        BY DEF SInv, IInv, CredTypeOK
    <2>7. Present(entries) = {}
        BY <1>2, <1>5, <2>6, ClearOfNothing
    <2>8. QED
        BY <1>1, <2>1, <2>5, <2>7, ValuesApart DEF Good, Served
<1>6. CASE req[a].arg # Blank /\ ~(req[a].arg = Absent /\ req[a].seen = NoText)
    <2>1. conf' = MaskText
        BY <1>6 DEF Posted
    <2>2. saved' = req[a].seen
        BY <1>3, <1>6 DEF Yields
    <2>3. QED
        BY <1>1, <1>2, <2>1, <2>2, ValuesApart DEF Good, Served
<1>7. QED
    BY <1>4, <1>5, <1>6

LEMMA PostKeeps ==
    ASSUME SInv, NEW a \in Callers, Post(a)
    PROVE  CallsServe' /\ FreshOK' /\ SavedOK'
<1>1. ReqOK /\ CredTypeOK
    BY DEF SInv, IInv
<1>2. /\ req[a].pc = "post" /\ Accepted(a) \in BOOLEAN /\ History(a, Accepted(a))
      /\ Answer(a, IF Accepted(a) THEN "ok" ELSE "failed")
      /\ entries' = entries /\ call' = call
    BY DEF Post, Accepted, credVars
<1>3. Halfway(a) /\ Serving(a) /\ call'[a].pc = "done"
    BY <1>2, IdleCall DEF Halfway, Serving
<1>4. /\ Alone(a) /\ ~Serving(a)' /\ ~Halfway(a)'
      /\ Accepted(a) => req'[a].pc = "ok"
    BY <1>1, <1>2, AnswerAlone DEF Alone, Serving, Halfway
<1>5. SavedOK'
    <2>1. SUFFICES ASSUME saved' # Unknown,
                          \A r \in Callers : Halfway(r)' => r \notin stale'
                   PROVE  Good(saved)' \/ \E r \in Callers : Answers(r)'
        BY SavedKept
    <2>2. Accepted(a) /\ a \notin stale
        BY <1>2, <1>3, <2>1, WhatIsSaved
    <2>3. conf' = Posted(a) /\ saved' = ValueSaved(a)
        BY <1>2, <1>4, <2>1, <2>2 DEF Post, History
    <2>4. Local(a)
        BY <1>3, <2>2 DEF SInv, FreshOK, Fresh
    <2>5. CASE Answers(a)
        BY <1>2, <2>1, <2>2, <2>3, <2>4, <2>5, PostedIsGood
    <2>6. CASE ~Answers(a)
        <3>1. Keeps(a) /\ req[a].op \in {"create", "update"} /\ req[a].op # "delete"
            <4>1. /\ req[a].op \in {"create", "update"}
                  /\ req[a].arg \in Secrets => req[a].seen = req[a].arg
                BY <1>2, <2>4 DEF Local, SaveOK
            <4>2. req[a].arg \in Args
                BY <1>1 DEF ReqOK, Reqs
            <4>3. ValueSaved(a) # Yields(a)
                BY <1>2, <1>3, <2>6 DEF Answers, Finally
            <4>4. req[a].arg = Blank => ValueSaved(a) = Yields(a)
                BY <1>2, <4>1, ValuesApart DEF ValueSaved, Yields
            <4>5. req[a].arg \in Secrets => ValueSaved(a) = Yields(a)
                BY <1>2, <4>1, ValuesApart DEF ValueSaved, Yields
            <4>6. QED
                BY <4>1, <4>2, <4>3, <4>4, <4>5 DEF Args, Keeps
        <3>2. saved # Unknown
            BY <2>1, <2>3, <3>1, ValuesApart DEF ValueSaved, Keeps
        <3>3. PICK r \in Callers \ {a} : Answers(r) /\ Halfway(r)' /\ conf' = conf
            BY <1>2, <1>3, <1>4, <2>1, <2>2, <2>6, <3>2, WorkerAnswers
        <3>4. r \notin stale
            <4>1. r \notin stale'
                BY <2>1, <3>3
            <4>2. QED
                BY <1>1, <1>2, <4>1, WhoIsStale
        <3>5. req'[r] = req[r]
            BY <1>4 DEF Alone
        <3>6. CASE saved' = saved
            BY <3>3, <3>5, <3>6, FinishSame
        <3>7. CASE saved' # saved
            <4>1. req[a].arg = MaskText
                BY <2>3, <3>1, <3>7 DEF ValueSaved, Keeps
            <4>2. conf = MaskText
                BY <2>3, <3>3, <4>1, ValuesApart DEF Posted
            <4>3. QED
                BY <2>3, <3>1, <3>2, <3>3, <3>4, <3>5, <4>2, KeeperLeaves
        <3>8. QED
            BY <3>6, <3>7
    <2>7. QED
        BY <2>5, <2>6
<1>6. QED
    BY <1>2, <1>3, <1>4, <1>5, FreshKept, ServeKept

LEMMA RemoveKeeps ==
    ASSUME SInv, NEW a \in Callers, Remove(a)
    PROVE  CallsServe' /\ FreshOK' /\ SavedOK'
<1>1. ReqOK /\ CredTypeOK
    BY DEF SInv, IInv
<1>2. /\ req[a].pc = "remove" /\ conf' = NoStanza /\ History(a, TRUE)
    BY DEF Remove
<1>3. ~Halfway(a) /\ Serving(a)
    BY <1>2 DEF Halfway, Serving
<1>4. CASE conf = NoStanza
    <2>1. Answer(a, "failed") /\ entries' = entries /\ call' = call
        BY <1>4 DEF Remove, credVars
    <2>2. Alone(a) /\ ~Serving(a)'
        BY <1>1, <2>1, AnswerAlone DEF Alone, Serving
    <2>3. call'[a].pc = "done"
        BY <1>2, <2>1, IdleCall
    <2>4. QED
        BY <1>2, <1>3, <1>4, <2>1, <2>2, <2>3, FreshKept, ServeKept, ReaderKeeps
<1>5. CASE conf # NoStanza
    <2>1. Move(a, "erase") /\ DeletePassword(a)
        BY <1>5 DEF Remove
    <2>2. /\ req'[a].pc = "erase" /\ req'[a].op = req[a].op
          /\ req'[a].arg = req[a].arg
          /\ \A r \in Callers \ {a} : req'[r] = req[r]
        BY <1>1, <2>1, MoveAlone
    <2>3. /\ Writing(a)' /\ call'[a].pc # "done" /\ call'[a].text = NoText
          /\ Progress(a)'
          /\ \A r \in Callers \ {a} : call'[r] = call[r]
        BY <1>1, <2>1, CallBegins
    <2>4. Alone(a)
        BY <2>2, <2>3 DEF Alone
    <2>5. CallFor(a)'
        BY <2>2, <2>3 DEF CallFor, Target
    <2>6. Local(a) => Local(a)'
        <3>1. Local(a) => req[a].op = "delete"
            BY <1>2 DEF Local, EraseOK
        <3>2. QED
            BY <1>2, <2>2, <2>5, <3>1
               DEF Local, ReadingOK, RepairOK, SaveOK, EraseOK
    <2>7. a \notin stale => Local(a)'
        BY <1>3, <2>6 DEF SInv, FreshOK, Fresh
    <2>8. SavedOK'
        <3>1. SUFFICES ASSUME saved' # Unknown,
                              \A r \in Callers : Halfway(r)' => r \notin stale'
                       PROVE  Answers(a)'
            BY SavedKept
        <3>2. Halfway(a)'
            BY <2>2 DEF Halfway
        <3>3. a \notin stale'
            BY <3>1, <3>2
        <3>4. Serving(a)'
            BY <2>2 DEF Serving
        <3>5. a \notin stale
            BY <1>1, <1>2, <3>3, <3>4, WhoIsStale
        <3>6. req[a].op = "delete"
            BY <1>2, <1>3, <3>5 DEF SInv, FreshOK, Fresh, Local, EraseOK
        <3>7. QED
            BY <2>2, <3>2, <3>6 DEF Answers, Finally, Yields, ValueSaved
    <2>9. QED
        BY <1>2, <2>2, <2>3, <2>4, <2>7, <2>8, FreshKept, ServeKept
<1>6. QED
    BY <1>4, <1>5

LEMMA ErasedKeeps ==
    ASSUME SInv, NEW a \in Callers, Erased(a)
    PROVE  CallsServe' /\ FreshOK' /\ SavedOK'
<1> DEFINE ok == call[a].pc = "done"
<1>1. ReqOK /\ CredTypeOK
    BY DEF SInv, IInv
<1>2. req[a].pc = "erase" /\ conf' = conf /\ History(a, ok) /\ ok \in BOOLEAN
    BY DEF Erased
<1>3. Halfway(a) /\ Serving(a)
    BY <1>2 DEF Halfway, Serving
<1>4. /\ call'[a].pc = "done" /\ call[a].pc \in {"done", "raised"}
      /\ entries' = entries
      /\ \A r \in Callers \ {a} : call'[r] = call[r]
    BY <1>1, HandledCall DEF Erased, Rest
<1>5. /\ Alone(a) /\ ~Serving(a)'
      /\ ok => req'[a].pc = "ok"
    <2>1. Answer(a, IF ok THEN "ok" ELSE "failed")
        BY <1>4 DEF Erased
    <2>2. QED
        BY <1>1, <1>4, <2>1, AnswerAlone DEF Alone, Serving
<1>6. CASE ~ok
    BY <1>2, <1>3, <1>4, <1>5, <1>6, FailureKeeps, FreshKept, ServeKept
<1>7. CASE ok
    <2>1. SavedOK'
        <3>1. SUFFICES ASSUME saved' # Unknown PROVE Good(saved)'
            BY SavedKept
        <3>2. a \notin stale
            BY <1>2, <1>3, <3>1, WhatIsSaved
        <3>3. saved' = ValueSaved(a)
            BY <1>2, <1>5, <1>7, <3>1 DEF History
        <3>4. Local(a)
            BY <1>3, <3>2 DEF SInv, FreshOK, Fresh
        <3>5. /\ conf = NoStanza /\ req[a].op = "delete"
              /\ Clear(entries) = NoText
            BY <1>2, <1>7, <3>4 DEF Local, EraseOK, CallFor, Target
        <3>6. entries \in [Indices -> Pieces \union {EndMark, NoEntry}]
            BY <1>1 DEF CredTypeOK
        <3>7. Present(entries') = {}
            BY <1>4, <3>5, <3>6, ClearOfNothing
        <3>8. QED
            BY <1>2, <3>3, <3>5, <3>7, ValuesApart DEF Good, Served, ValueSaved
    <2>2. QED
        BY <1>2, <1>4, <1>5, <2>1, FreshKept, ServeKept
<1>8. QED
    BY <1>6, <1>7

LEMMA CallGoesOnKeeps ==
    ASSUME SInv, NEW a \in Callers, CallGoesOn(a)
    PROVE  CallsServe' /\ FreshOK' /\ SavedOK'
<1>1. ReqOK /\ CredTypeOK /\ CallsOK
    BY DEF SInv, IInv
<1>2. /\ CallStep(a) \/ CallFails(a)
      /\ conf' = conf /\ req' = req /\ History(a, TRUE)
    BY DEF CallGoesOn
<1>3. Writing(a)
    BY <1>2, CallChanges
<1>4. req[a].pc \in {"repair", "save", "erase"}
    BY <1>3 DEF SInv, CallsServe, Writing
<1>5. Alone(a)
    BY <1>1, <1>2, CallAlone DEF Alone
<1>6. Halfway(a) /\ Halfway(a)' /\ Serving(a)
    BY <1>2, <1>4 DEF Halfway, Serving
<1>7. ASSUME Local(a)
      PROVE  Local(a)'
    <2> DEFINE t == Target(a)
    <2>1. CallFor(a)
        BY <1>4, <1>7 DEF Local, RepairOK, SaveOK, EraseOK
    <2>2. call[a].text = t /\ Progress(a)
        BY <1>3, <2>1 DEF CallFor
    <2>3. Target(a)' = t /\ Plain(a)' = Plain(a) /\ Keeps(a)' = Keeps(a)
        BY <1>2 DEF Target, Plain, Keeps
    <2>4. GoesOn(a) \/ Succeeds(a) \/ call'[a] = Rest("raised")
        BY <1>1, <1>2, <2>2, CallKeepsProgress
    <2>5. CallFor(a)'
        BY <2>2, <2>3, <2>4 DEF CallFor, GoesOn, Succeeds, Rest, Writing
    <2>6. t \in Texts \union {NoText}
        BY <1>1, <2>2 DEF CredTypeOK, CallTypes
    <2>7. \/ Clear(entries) = t
          \/ Clear(entries) = NoText /\ t = MaskText
          => \/ Clear(entries)' = t
             \/ Clear(entries)' = NoText /\ Clear(entries) = NoText
        BY <1>1, <1>2, <2>2, <2>6, CallKeepsClear, MaskIsOnePiece
    <2>8. RepairOK(a)'
        <3>1. conf = MaskText /\ Clear(entries) \in {NoText, MaskText}
                 /\ req[a].pc = "repair"
              => Clear(entries)' \in {NoText, MaskText}
            <4>1. SUFFICES ASSUME conf = MaskText, req[a].pc = "repair",
                                  Clear(entries) \in {NoText, MaskText}
                           PROVE  Clear(entries)' \in {NoText, MaskText}
                OBVIOUS
            <4>2. req[a].seen = MaskText
                BY <1>7, <4>1 DEF Local, RepairOK
            <4>3. t = MaskText
                BY <4>1, <4>2, ValuesApart DEF Target, Plain
            <4>4. QED
                BY <2>7, <4>1, <4>3
        <3>2. QED
            BY <1>2, <1>4, <1>7, <2>3, <2>5, <3>1 DEF Local, RepairOK
    <2>9. SaveOK(a)'
        <3>1. req[a].pc = "save" /\ Keeps(a) => Kept(a)'
            <4>1. SUFFICES ASSUME req[a].pc = "save", Keeps(a) PROVE Kept(a)'
                OBVIOUS
            <4>2. t = req[a].seen
                BY <4>1 DEF Target
            <4>3. Kept(a)
                BY <1>7, <4>1 DEF Local, SaveOK
            <4>4. QED
                BY <1>2, <2>7, <4>2, <4>3 DEF Kept
        <3>2. QED
            BY <1>2, <1>4, <1>7, <2>3, <2>5, <3>1 DEF Local, SaveOK
    <2>10. QED
        BY <1>2, <1>4, <1>7, <2>5, <2>8, <2>9 DEF Local, ReadingOK, EraseOK
<1>8. a \notin stale => Local(a)'
    BY <1>6, <1>7 DEF SInv, FreshOK, Fresh
<1>9. Answers(a) /\ saved' = saved => Answers(a)'
    BY <1>2, FinishSame
<1>10. QED
    BY <1>2, <1>4, <1>5, <1>6, <1>8, <1>9, FreshKept, ServeKept, WorkerKeeps

LEMMA RequestFailsKeeps ==
    ASSUME SInv, NEW a \in Callers, RequestFails(a)
    PROVE  CallsServe' /\ FreshOK' /\ SavedOK'
<1>1. ReqOK /\ CredTypeOK
    BY DEF SInv, IInv
<1>2. /\ req[a].pc \in {"conf", "secret", "mask", "ready", "post", "remove"}
      /\ entries' = entries /\ call' = call /\ History(a, FALSE)
    BY DEF RequestFails, credVars
<1>3. Serving(a) /\ call'[a].pc = "done"
    BY <1>2, IdleCall DEF Serving
<1>4. Alone(a) /\ (Serving(a)' /\ a \notin stale => Local(a)')
    <2>1. CASE req[a].pc \in {"conf", "secret", "mask"}
        <3>1. Checked(a, FALSE) /\ req[a].op # "delete"
            BY <1>1, <2>1 DEF RequestFails, ReqOK
        <3>2. QED
            BY <1>1, <1>2, <1>3, <3>1, CheckedAlone, CheckedLocal DEF Alone
    <2>2. CASE req[a].pc \notin {"conf", "secret", "mask"}
        <3>1. Answer(a, "failed")
            BY <2>2 DEF RequestFails
        <3>2. QED
            BY <1>1, <1>2, <3>1, AnswerAlone DEF Alone, Serving
    <2>3. QED
        BY <2>1, <2>2
<1>5. CASE Halfway(a)
    BY <1>2, <1>3, <1>4, <1>5, FailureKeeps, FreshKept, ServeKept
<1>6. CASE conf' = conf /\ ~Halfway(a)
    BY <1>2, <1>3, <1>4, <1>6, ReaderKeeps, FreshKept, ServeKept
<1>7. CASE conf' # conf
    <2>1. saved' = Unknown
        BY <1>2, <1>7 DEF History
    <2>2. SavedOK'
        BY <2>1 DEF SavedOK
    <2>3. QED
        BY <1>2, <1>3, <1>4, <2>2, FreshKept, ServeKept
<1>8. QED
    BY <1>5, <1>6, <1>7

LEMMA EditByHandKeeps ==
    ASSUME SInv, EditByHand
    PROVE  CallsServe' /\ FreshOK' /\ SavedOK'
<1>1. /\ \A r \in Callers : ~Serving(r)
      /\ conf' \in Secrets /\ saved' = conf' /\ req' = req /\ call' = call
    BY DEF EditByHand, credVars
<1>2. CallsServe'
    BY <1>1 DEF SInv, CallsServe
<1>3. FreshOK'
    BY <1>1 DEF FreshOK, Fresh, Serving
<1>4. Good(saved)'
    BY <1>1, ValuesApart DEF Good, Served
<1>5. QED
    BY <1>2, <1>3, <1>4 DEF SavedOK

-----------------------------------------------------------------------------
(* Theorems *)

LEMMA SInvInit == Init => SInv
<1> SUFFICES ASSUME Init PROVE SInv
    OBVIOUS
<1>1. IInv /\ ReqOK
    BY InvInit, ReqInit DEF Init
<1>2. \A r \in Callers : req[r].pc = "ok" /\ call[r].pc = "done"
    BY DEF Init, CredInit, Answered, Rest
<1>3. CallsServe /\ FreshOK
    BY <1>2 DEF CallsServe, FreshOK, Fresh, Serving
<1>4. Good(saved)
    BY ValuesApart DEF Init, CredInit, Good, Served, Present
<1>5. QED
    BY <1>1, <1>3, <1>4 DEF SInv, SavedOK

LEMMA SInvNext == SInv /\ [Next]_vars => SInv'
<1> SUFFICES ASSUME SInv, [Next]_vars PROVE SInv'
    OBVIOUS
<1>1. IInv /\ ReqOK
    BY DEF SInv
<1>2. ReqOK' /\ IInv'
    BY <1>1, NextStep, InvStep
<1>3. CallsServe' /\ FreshOK' /\ SavedOK'
    <2>1. CASE UNCHANGED vars
        <3>1. /\ entries' = entries /\ call' = call /\ conf' = conf /\ req' = req
              /\ stale' = stale /\ saved' = saved
            BY <2>1 DEF vars, credVars, reqVars
        <3>2. CallsServe'
            BY <3>1 DEF SInv, CallsServe
        <3>3. ASSUME NEW r \in Callers, Fresh(r)' PROVE Local(r)'
            <4>1. Fresh(r)
                BY <3>1, <3>3 DEF Fresh, Serving
            <4>2. QED
                BY <3>1, <4>1, LocalSame DEF SInv, FreshOK
        <3>4. \A r \in Callers : Answers(r) => Answers(r)'
            BY <3>1, FinishSame
        <3>5. Good(saved)' = Good(saved)
            BY <3>1, GoodSame
        <3>6. SavedOK'
            BY <3>1, <3>4, <3>5 DEF SInv, SavedOK, Halfway
        <3>7. QED
            BY <3>2, <3>3, <3>6 DEF FreshOK
    <2>2. CASE EditByHand
        BY <2>2, EditByHandKeeps
    <2>3. ASSUME NEW r \in Callers, Serve(r)
          PROVE  CallsServe' /\ FreshOK' /\ SavedOK'
        BY <2>3, ReceiveKeeps, ReadConfKeeps, ReadSecretKeeps, RepairedKeeps,
           PostMaskKeeps, EncryptKeeps, EncryptedKeeps, PostKeeps, RemoveKeeps,
           ErasedKeeps, CallGoesOnKeeps, RequestFailsKeeps DEF Serve
    <2>4. QED
        BY <2>1, <2>2, <2>3 DEF Next
<1>4. QED
    BY <1>2, <1>3 DEF SInv

LEMMA SecretsInvariance == Spec => []SInv
BY SInvInit, SInvNext, PTL DEF Spec

\* However many requests are served at once, and wherever splunkd fails: once
\* none is halfway, inputs get the value that was saved last, and nothing is
\* left in the entries of one that was deleted, unless a change failed halfway
\* or was made by a request that had missed another one's.
THEOREM InputsGetWhatWasSaved == Spec => []SavedIsServed
<1>1. SInv => SavedIsServed
    BY DEF SInv, SavedOK, SavedIsServed, Good, Answers
<1>2. QED
    BY <1>1, SecretsInvariance, PTL

\* One request moves at a time.
LEMMA ServeAlone ==
    ASSUME ReqOK, CredTypeOK, NEW a \in Callers, Serve(a)
    PROVE  \A r \in Callers \ {a} : req'[r] = req[r]
<1>1. ASSUME NEW new, Step(a, new)
      PROVE  \A r \in Callers \ {a} : req'[r] = req[r]
    BY <1>1, StepAlone
<1>2. ASSUME NEW pc, Move(a, pc) \/ Answer(a, pc)
      PROVE  \A r \in Callers \ {a} : req'[r] = req[r]
    BY <1>1, <1>2 DEF Move, Answer
<1>3. ASSUME NEW found \in BOOLEAN, Checked(a, found), req[a].op # "delete"
      PROVE  \A r \in Callers \ {a} : req'[r] = req[r]
    BY <1>3, CheckedAlone
<1>4. CASE Receive(a)
    BY <1>1, <1>4 DEF Receive
<1>5. CASE ReadConf(a)
    BY <1>1, <1>3, <1>5 DEF ReadConf, ReqOK
<1>6. CASE ReadSecret(a)
    BY <1>2, <1>3, <1>6 DEF ReadSecret, ReqOK
<1>7. CASE Repaired(a)
    BY <1>2, <1>3, <1>7 DEF Repaired, ReqOK
<1>8. CASE PostMask(a)
    BY <1>3, <1>8 DEF PostMask, ReqOK
<1>9. CASE Encrypt(a)
    BY <1>1, <1>2, <1>9 DEF Encrypt
<1>10. CASE Encrypted(a) \/ Post(a) \/ Remove(a) \/ Erased(a)
    BY <1>2, <1>10 DEF Encrypted, Post, Remove, Erased
<1>11. CASE CallGoesOn(a)
    BY <1>11 DEF CallGoesOn
<1>12. CASE RequestFails(a)
    <2>1. CASE req[a].pc \in {"conf", "secret", "mask"}
        BY <1>3, <1>12, <2>1 DEF RequestFails, ReqOK
    <2>2. CASE req[a].pc \notin {"conf", "secret", "mask"}
        BY <1>2, <1>12, <2>2 DEF RequestFails
    <2>3. QED
        BY <2>1, <2>2
<1>13. QED
    BY <1>4, <1>5, <1>6, <1>7, <1>8, <1>9, <1>10, <1>11, <1>12 DEF Serve

LEMMA ReadEncrypts ==
    ASSUME SInv, [Next]_vars, NEW r \in Callers,
           req[r].pc \in {"secret", "repair", "mask"}, req'[r].pc = "ok",
           r \notin stale
    PROVE  conf' \notin Secrets
<1>1. ReqOK /\ req[r].op # "delete"
    BY DEF SInv, ReqOK
<1>2. Local(r)
    BY DEF SInv, FreshOK, Fresh, Serving
<1>3. CASE UNCHANGED vars \/ EditByHand
    BY <1>3 DEF vars, reqVars, EditByHand
<1>4. ASSUME NEW a \in Callers, Serve(a), a # r
      PROVE  FALSE
    <2>1. CredTypeOK
        BY DEF SInv, IInv
    <2>2. QED
        BY <1>1, <1>4, <2>1, ServeAlone
<1>5. CASE Serve(r)
    <2>1. CASE ReadSecret(r)
        <3>1. Checked(r, TRUE) /\ ~Plain(r)
            <4>1. ~Checked(r, FALSE)
                BY <1>1, CheckedAlone
            <4>2. ~Move(r, "mask") /\ ~Move(r, "repair")
                BY <1>1, MoveAlone
            <4>3. QED
                BY <2>1, <4>1, <4>2 DEF ReadSecret
        <3>2. conf' = conf /\ conf = req[r].seen
            BY <1>2, <2>1 DEF ReadSecret, Local, ReadingOK
        <3>3. QED
            BY <3>1, <3>2 DEF Plain
    <2>2. CASE Repaired(r)
        <3>1. ~Plain(r)
            <4>1. ~Checked(r, FALSE)
                BY <1>1, CheckedAlone
            <4>2. ~Move(r, "mask")
                BY <1>1, MoveAlone
            <4>3. QED
                BY <2>2, <4>1, <4>2 DEF Repaired
        <3>2. conf' = conf /\ conf = req[r].seen
            BY <1>2, <2>2 DEF Repaired, Local, RepairOK
        <3>3. QED
            BY <3>1, <3>2 DEF Plain
    <2>3. CASE PostMask(r)
        BY <2>3, ValuesApart, SecretsAssumption DEF PostMask
    <2>4. CASE RequestFails(r)
        <3>1. Checked(r, FALSE)
            BY <2>4 DEF RequestFails
        <3>2. QED
            BY <1>1, <3>1, CheckedAlone
    <2>5. CASE CallGoesOn(r)
        BY <2>5 DEF CallGoesOn
    <2>6. QED
        BY <1>5, <2>1, <2>2, <2>3, <2>4, <2>5
           DEF Serve, Receive, Serving, ReadConf, Encrypt, Encrypted, Post,
               Remove, Erased
<1>6. QED
    BY <1>3, <1>4, <1>5 DEF Next

\* A list or a read that succeeds has left no value in plain text, unless one
\* was put there, or another request changed something, while it was served.
THEOREM ReadsLeaveNoPlainText == Spec => ReadsEncrypt
<1>1. SInv /\ [Next]_vars =>
         [\A r \in Callers :
             (req[r].pc \in {"secret", "repair", "mask"} /\ req'[r].pc = "ok"
                /\ r \notin stale) => conf' \notin Secrets]_vars
    BY ReadEncrypts
<1>2. QED
    BY <1>1, SecretsInvariance, PTL DEF Spec, ReadsEncrypt
=============================================================================
