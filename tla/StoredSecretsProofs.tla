------------------------ MODULE StoredSecretsProofs ------------------------
(***************************************************************************)
(* Proofs about StoredSecrets, for every number of requests at once: type  *)
(* correctness, and that its requests use CredentialManager only by its    *)
(* operations, so that the entries of a secret are a safe register.        *)
(***************************************************************************)
EXTENDS StoredSecrets, CredentialManagerProofs

-----------------------------------------------------------------------------
(* Types *)

Pcs == {"conf", "secret", "repair", "mask", "ready", "save", "post", "remove",
        "erase", "ok", "failed"}
Args == Secrets \union {MaskText, Absent, Blank}
Seens == Parsable \union {NoStanza, Blank, NoText}
Fields == Secrets \union {MaskText, NoStanza, Blank}
Reqs == [op : {"get", "list", "create", "update", "delete"}, arg : Args,
         pc : Pcs, seen : Seens]

ReqOK ==
    /\ conf \in Fields
    /\ req \in [Callers -> Reqs]
    /\ \A r \in Callers : req[r].op = "delete" => req[r].pc \in {"remove", "erase"}
    /\ stale \subseteq Callers
    /\ saved \in Fields \union {Unknown}

LEMMA TextsOfValues ==
    /\ MaskText \in Parsable /\ Secrets \subseteq Parsable /\ Parsable \subseteq Texts
    /\ NoText \notin Texts
BY SecretsAssumption, TextAssumption DEF MaskText, Parsable

LEMMA ReqType ==
    ASSUME ReqOK, NEW r \in Callers
    PROVE  /\ \A pc \in Pcs : [req[r] EXCEPT !.pc = pc] \in Reqs
           /\ \A pc \in Pcs, seen \in Seens :
                 [req[r] EXCEPT !.pc = pc, !.seen = seen] \in Reqs
           /\ Answered("ok") \in Reqs /\ Answered("failed") \in Reqs
BY DEF ReqOK, Reqs, Answered, Pcs, Args, Seens

\* What one request does to itself leaves the types of all of them.
LEMMA StepType ==
    ASSUME ReqOK, NEW r \in Callers, NEW new \in Reqs, Step(r, new),
           new.op = "delete" => new.pc \in {"remove", "erase"},
           conf' \in Fields, NEW ok \in BOOLEAN, History(r, ok)
    PROVE  ReqOK'
<1>1. req' \in [Callers -> Reqs]
    BY DEF Step, ReqOK
<1>2. ASSUME NEW o \in Callers, req'[o].op = "delete"
      PROVE  req'[o].pc \in {"remove", "erase"}
    BY <1>2 DEF Step, ReqOK
<1>3. stale' \subseteq Callers
    BY DEF History, ReqOK
<1>4. req[r].arg \in Args
    BY DEF ReqOK, Reqs
<1>5. ValueSaved(r) \in Fields \union {Unknown}
    BY <1>4 DEF ValueSaved, ReqOK, Args, Fields
<1>6. saved' \in Fields \union {Unknown}
    BY <1>5 DEF History, ReqOK
<1>7. QED
    BY <1>1, <1>2, <1>3, <1>6 DEF ReqOK

LEMMA MoveType ==
    ASSUME ReqOK, NEW r \in Callers, NEW pc \in Pcs, Move(r, pc),
           req[r].op = "delete" => pc \in {"remove", "erase"},
           conf' \in Fields, NEW ok \in BOOLEAN, History(r, ok)
    PROVE  ReqOK'
<1> DEFINE new == [req[r] EXCEPT !.pc = pc]
<1>1. new \in Reqs
    BY ReqType
<1>2. new.op = req[r].op /\ new.pc = pc
    BY DEF ReqOK, Reqs
<1>3. Step(r, new)
    BY DEF Move
<1>4. QED
    BY <1>1, <1>2, <1>3, StepType

LEMMA AnswerType ==
    ASSUME ReqOK, NEW r \in Callers, NEW answer \in {"ok", "failed"},
           Answer(r, answer), conf' \in Fields, NEW ok \in BOOLEAN, History(r, ok)
    PROVE  ReqOK'
<1>1. Answered(answer) \in Reqs /\ Answered(answer).op = "get"
    BY ReqType DEF Answered
<1>2. Step(r, Answered(answer))
    BY DEF Answer
<1>3. QED
    BY <1>1, <1>2, StepType

LEMMA CheckedType ==
    ASSUME ReqOK, NEW r \in Callers, NEW found \in BOOLEAN, Checked(r, found),
           req[r].op # "delete", conf' \in Fields, NEW ok \in BOOLEAN, History(r, ok)
    PROVE  ReqOK'
<1>1. req[r].op \in {"get", "list", "create", "update"}
    BY DEF ReqOK, Reqs
<1>2. Move(r, "ready") \/ Answer(r, "ok") \/ Answer(r, "failed")
    BY <1>1 DEF Checked
<1>3. QED
    BY <1>2, AnswerType, MoveType DEF Pcs

-----------------------------------------------------------------------------
(* Every step keeps the types, and is a step of the manager or leaves it    *)
(* alone.                                                                   *)

LEMMA WantedText ==
    ASSUME NEW r \in Callers, Clear(entries) \in Parsable \union {NoText}
    PROVE  Wanted(r, Clear(entries)) \in Parsable \union {NoText}
BY TextsOfValues DEF Wanted, Plain

LEMMA ReceiveStep ==
    ASSUME ReqOK, NEW r \in Callers, Receive(r)
    PROVE  ReqOK' /\ UNCHANGED credVars
<1>1. PICK op \in Operations : \E arg \in Arguments(op) :
          Step(r, [op |-> op, arg |-> arg, seen |-> Blank,
                   pc |-> IF op = "delete" THEN "remove" ELSE "conf"])
    BY DEF Receive
<1>2. PICK arg \in Arguments(op) :
          Step(r, [op |-> op, arg |-> arg, seen |-> Blank,
                   pc |-> IF op = "delete" THEN "remove" ELSE "conf"])
    BY <1>1
<1>3. op \in {"get", "list", "create", "update", "delete"} /\ arg \in Args
    BY DEF Operations, Arguments, Args
<1> DEFINE new == [op |-> op, arg |-> arg, seen |-> Blank,
                   pc |-> IF op = "delete" THEN "remove" ELSE "conf"]
<1>4. new \in Reqs /\ (new.op = "delete" => new.pc \in {"remove", "erase"})
    BY <1>3 DEF Reqs, Pcs, Seens
<1>5. conf' \in Fields
    BY DEF Receive, ReqOK
<1>6. QED
    BY <1>2, <1>4, <1>5, StepType DEF Receive

LEMMA ReadConfStep ==
    ASSUME ReqOK, NEW r \in Callers, ReadConf(r)
    PROVE  ReqOK' /\ UNCHANGED credVars
<1>1. conf' \in Fields /\ req[r].op # "delete"
    BY DEF ReadConf, ReqOK
<1>2. CASE Checked(r, FALSE)
    BY <1>1, <1>2, CheckedType DEF ReadConf
<1>3. CASE Step(r, [req[r] EXCEPT !.pc = "secret", !.seen = conf])
    <2>1. conf \in Seens
        BY TextsOfValues DEF ReqOK, Fields, Seens
    <2> DEFINE new == [req[r] EXCEPT !.pc = "secret", !.seen = conf]
    <2>2. new \in Reqs
        BY <2>1, ReqType DEF Pcs
    <2>3. new.op = req[r].op
        BY DEF ReqOK, Reqs
    <2>4. QED
        BY <1>1, <1>3, <2>2, <2>3, StepType DEF ReadConf
<1>4. QED
    BY <1>2, <1>3 DEF ReadConf

\* A request starts a call for a text, or for none.
LEMMA CallStarted ==
    ASSUME NEW r \in Callers, NEW text \in Parsable \union {NoText},
           IF text = NoText THEN DeletePassword(r) ELSE SetPassword(r, text)
    PROVE  CredNext
BY TextsOfValues DEF CredNext

LEMMA ReadSecretStep ==
    ASSUME ReqOK, NEW r \in Callers, ReadSecret(r)
    PROVE  ReqOK' /\ (CredNext \/ UNCHANGED credVars)
<1> DEFINE text == Clear(entries)
           wanted == Wanted(r, text)
<1>1. conf' \in Fields /\ req[r].op # "delete"
    BY DEF ReadSecret, ReqOK
<1>2. History(r, TRUE)
    BY DEF ReadSecret
<1>3. CASE text \notin Parsable \union {NoText}
    BY <1>1, <1>2, <1>3, CheckedType DEF ReadSecret
<1>4. CASE text \in Parsable \union {NoText}
    <2>1. wanted \in Parsable \union {NoText}
        BY <1>4, WantedText
    <2>2. Checked(r, TRUE) \/ Move(r, "mask") \/ Move(r, "repair")
        BY <1>4 DEF ReadSecret
    <2>3. ReqOK'
        BY <1>1, <1>2, <2>2, CheckedType, MoveType DEF Pcs
    <2>4. CASE IF wanted = NoText THEN DeletePassword(r) ELSE SetPassword(r, wanted)
        BY <2>1, <2>3, <2>4, CallStarted
    <2>5. QED
        BY <1>4, <2>3, <2>4 DEF ReadSecret
<1>5. QED
    BY <1>3, <1>4

LEMMA RepairedStep ==
    ASSUME ReqOK, NEW r \in Callers, Repaired(r)
    PROVE  ReqOK' /\ CredNext
<1>1. conf' \in Fields /\ req[r].op # "delete" /\ History(r, call[r].pc = "done")
    BY DEF Repaired, ReqOK
<1>2. Checked(r, FALSE) \/ Move(r, "mask") \/ Checked(r, TRUE)
    BY DEF Repaired
<1>3. ReqOK'
    BY <1>1, <1>2, CheckedType, MoveType DEF Pcs
<1>4. QED
    BY <1>3 DEF Repaired, CredNext

LEMMA PostMaskStep ==
    ASSUME ReqOK, NEW r \in Callers, PostMask(r)
    PROVE  ReqOK' /\ UNCHANGED credVars
<1>1. conf' \in Fields /\ req[r].op # "delete"
    BY DEF PostMask, ReqOK, Fields
<1>2. QED
    BY <1>1, CheckedType DEF PostMask

LEMMA EncryptStep ==
    ASSUME ReqOK, NEW r \in Callers, Encrypt(r)
    PROVE  ReqOK' /\ (CredNext \/ UNCHANGED credVars)
<1> DEFINE arg == req[r].arg
           text == Clear(entries)
           keeps == arg \in {MaskText, Absent}
           wanted == IF arg = Blank THEN NoText
                     ELSE IF ~keeps THEN arg
                     ELSE IF text = NoText /\ arg = MaskText THEN MaskText
                     ELSE text
<1>1. conf' \in Fields /\ req[r].op # "delete" /\ arg \in Args
    BY DEF Encrypt, ReqOK, Reqs
<1>2. CASE keeps /\ text \notin Parsable \union {NoText}
    <2>1. Answer(r, "failed") /\ UNCHANGED credVars /\ History(r, TRUE)
        BY <1>2 DEF Encrypt
    <2>2. QED
        BY <1>1, <2>1, AnswerType
<1>3. CASE ~(keeps /\ text \notin Parsable \union {NoText})
    <2> DEFINE new == [req[r] EXCEPT !.pc = "save", !.seen = wanted]
    <2>1. wanted \in Parsable \union {NoText}
        BY <1>1, <1>3, TextsOfValues DEF Args
    <2>2. /\ Step(r, new) /\ History(r, TRUE)
          /\ IF wanted = NoText THEN DeletePassword(r) ELSE SetPassword(r, wanted)
        BY <1>3 DEF Encrypt
    <2>3. new \in Reqs /\ new.op = req[r].op
        <3>1. wanted \in Seens
            BY <2>1 DEF Seens
        <3>2. new \in Reqs
            BY <3>1, ReqType DEF Pcs
        <3>3. new.op = req[r].op
            BY DEF ReqOK, Reqs
        <3>4. QED
            BY <3>2, <3>3
    <2> HIDE DEF wanted, new
    <2>4. ReqOK'
        BY <1>1, <2>2, <2>3, StepType
    <2>5. CredNext
        BY <2>1, <2>2, CallStarted
    <2>6. QED
        BY <2>4, <2>5
<1>4. QED
    BY <1>2, <1>3

LEMMA EncryptedStep ==
    ASSUME ReqOK, NEW r \in Callers, Encrypted(r)
    PROVE  ReqOK' /\ CredNext
<1>1. conf' \in Fields /\ req[r].op # "delete" /\ History(r, call[r].pc = "done")
    BY DEF Encrypted, ReqOK
<1>2. Answer(r, "failed") \/ Move(r, "post")
    BY DEF Encrypted
<1>3. ReqOK'
    BY <1>1, <1>2, AnswerType, MoveType DEF Pcs
<1>4. QED
    BY <1>3 DEF Encrypted, CredNext

LEMMA PostedField ==
    ASSUME ReqOK, NEW r \in Callers
    PROVE  Posted(r) \in Fields
BY DEF Posted, ReqOK, Fields

LEMMA PostStep ==
    ASSUME ReqOK, NEW r \in Callers, Post(r)
    PROVE  ReqOK' /\ UNCHANGED credVars
<1>1. conf' \in Fields
    BY PostedField DEF Post, ReqOK
<1>2. Accepted(r) \in BOOLEAN
    BY DEF Accepted
<1>3. QED
    BY <1>1, <1>2, AnswerType DEF Post

LEMMA RemoveStep ==
    ASSUME ReqOK, NEW r \in Callers, Remove(r)
    PROVE  ReqOK' /\ (CredNext \/ UNCHANGED credVars)
<1>1. conf' \in Fields /\ History(r, TRUE)
    BY DEF Remove, Fields
<1>2. CASE Answer(r, "failed") /\ UNCHANGED credVars
    BY <1>1, <1>2, AnswerType
<1>3. CASE Move(r, "erase") /\ DeletePassword(r)
    BY <1>1, <1>3, MoveType DEF Pcs, CredNext
<1>4. QED
    BY <1>2, <1>3 DEF Remove

LEMMA ErasedStep ==
    ASSUME ReqOK, NEW r \in Callers, Erased(r)
    PROVE  ReqOK' /\ CredNext
<1>1. conf' \in Fields /\ History(r, call[r].pc = "done")
    BY DEF Erased, ReqOK
<1>2. Answer(r, "failed") \/ Answer(r, "ok")
    BY DEF Erased
<1>3. ReqOK'
    BY <1>1, <1>2, AnswerType
<1>4. QED
    BY <1>3 DEF Erased, CredNext

LEMMA RequestFailsStep ==
    ASSUME ReqOK, NEW r \in Callers, RequestFails(r)
    PROVE  ReqOK' /\ UNCHANGED credVars
<1>1. conf' \in Fields
    BY PostedField DEF RequestFails, ReqOK, Fields
<1>2. CASE req[r].pc \in {"conf", "secret", "mask"}
    <2>1. req[r].op # "delete" /\ Checked(r, FALSE)
        BY <1>2 DEF RequestFails, ReqOK
    <2>2. QED
        BY <1>1, <2>1, CheckedType DEF RequestFails
<1>3. CASE req[r].pc \notin {"conf", "secret", "mask"}
    BY <1>1, <1>3, AnswerType DEF RequestFails
<1>4. QED
    BY <1>2, <1>3

LEMMA CallGoesOnStep ==
    ASSUME ReqOK, NEW r \in Callers, CallGoesOn(r)
    PROVE  ReqOK' /\ CredNext
<1>1. Step(r, req[r]) /\ req[r] \in Reqs
    BY DEF CallGoesOn, Step, ReqOK
<1>2. req[r].op = "delete" => req[r].pc \in {"remove", "erase"}
    BY DEF ReqOK
<1>3. conf' \in Fields /\ History(r, TRUE)
    BY DEF CallGoesOn, ReqOK
<1>4. ReqOK'
    BY <1>1, <1>2, <1>3, StepType
<1>5. QED
    BY <1>4 DEF CallGoesOn, CredNext

LEMMA EditByHandStep ==
    ASSUME ReqOK, EditByHand
    PROVE  ReqOK' /\ UNCHANGED credVars
BY DEF EditByHand, ReqOK, Fields

-----------------------------------------------------------------------------
(* Theorems *)

LEMMA ReqInit == Init => ReqOK
<1> SUFFICES ASSUME Init PROVE ReqOK
    OBVIOUS
<1>1. Answered("ok") \in Reqs /\ Answered("ok").op = "get"
    BY DEF Answered, Reqs, Pcs, Args, Seens
<1>2. QED
    BY <1>1 DEF Init, ReqOK, Fields

LEMMA NextStep == ReqOK /\ [Next]_vars => ReqOK' /\ [CredNext]_credVars
<1> SUFFICES ASSUME ReqOK, [Next]_vars
             PROVE  ReqOK' /\ [CredNext]_credVars
    OBVIOUS
<1>1. CASE UNCHANGED vars
    BY <1>1 DEF vars, reqVars, ReqOK
<1>2. CASE EditByHand
    BY <1>2, EditByHandStep
<1>3. ASSUME NEW r \in Callers, Serve(r)
      PROVE  ReqOK' /\ [CredNext]_credVars
    BY <1>3, ReceiveStep, ReadConfStep, ReadSecretStep, RepairedStep,
       PostMaskStep, EncryptStep, EncryptedStep, PostStep, RemoveStep,
       ErasedStep, CallGoesOnStep, RequestFailsStep DEF Serve
<1>4. QED
    BY <1>1, <1>2, <1>3 DEF Next

LEMMA UsesManager == Spec => CredSpec /\ []ReqOK
<1>1. Init => CredInit
    BY DEF Init
<1>2. QED
    BY <1>1, ReqInit, NextStep, PTL DEF Spec, CredSpec

\* Every variable of the model has its type; what a request stores is always
\* the text of a value.
THEOREM SecretsTypeCorrect == Spec => []TypeOK
<1>1. CredTypeOK /\ ReqOK => TypeOK
    BY DEF TypeOK, ReqOK, Reqs, Fields, Args, Pcs, Seens
<1>2. QED
    BY <1>1, UsesManager, CredTypeCorrect, PTL

\* Whatever requests do to a stanza at once, the entries of its secret are a
\* safe register.
THEOREM SecretsAreRegister == Spec => RegisterSpec
BY UsesManager, EntriesAreRegister, PTL
=============================================================================
