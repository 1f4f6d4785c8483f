--------------------------- MODULE StoredSecrets ---------------------------
(***************************************************************************)
(* The encrypted field of one stanza: the secret of an account, or the     *)
(* password of the proxy.  The .conf file shows "******" and the value is  *)
(* in the entries of CredentialManager.  The REST handlers of              *)
(* splunktaucclib keep the two together, with no transaction around them:  *)
(* every request reads and writes the stanza and the entries by separate   *)
(* calls to splunkd, and requests are served in parallel.  An update and a *)
(* creation begin with a complete read of the stanza, which encrypts what  *)
(* it finds in plain text.                                                 *)
(***************************************************************************)
EXTENDS CredentialManager

CONSTANTS
    Kinds,     \* "account": a stanza that comes and goes, with a required
               \* secret; "proxy": a stanza of the settings, always there
    Mask,      \* the piece that is the text of the value "******"
    Whole,     \* pieces that are the text of a short value
    Heads,     \* the first piece of the text of a long value,
    Middles,   \* one after it,
    Tails,     \* and the last one
    Secrets,   \* values an administrator saves
    NoStanza,  \* the stanza is not in the .conf file
    Blank,     \* the field is empty or not in the stanza
    Absent,    \* the field is not in the request
    MaxLost,   \* bound: requests served at once while saved is Unknown
    MaxFailing \* bound: requests served at once while calls may fail

VARIABLES
    conf,   \* the field of the stanza
    req,    \* the request a caller serves, and where it is
    kind,   \* the kind of stanza, chosen once
    stale,  \* history: requests that began before another one's change
    saved   \* history: what the administrator last saved, or Unknown

reqVars == <<conf, req, kind, stale, saved>>
vars == <<credVars, reqVars>>

MaskText == <<Mask>>
Parsable == {<<w>> : w \in Whole \union {Mask}} \union (Heads \X Middles \X Tails)

ASSUME SecretsAssumption ==
    /\ Secrets \subseteq Parsable \ {MaskText} /\ Parsable \subseteq Texts
    /\ {NoStanza, Blank, Absent} \intersect (Texts \union {NoText, Unknown}) = {}
    /\ NoStanza # Blank /\ NoStanza # Absent /\ Blank # Absent
ASSUME BoundsAssumption == MaxLost \in Nat /\ MaxFailing \in Nat
ASSUME KindsAssumption == Kinds \subseteq {"account", "proxy"}

-----------------------------------------------------------------------------
Operations ==
    IF kind = "account" THEN {"list", "get", "create", "update", "delete"}
                        ELSE {"get", "update"}
Arguments(op) ==
    CASE op = "create" -> Secrets
      [] op = "update" -> Secrets \union {MaskText, Absent}
                            \union (IF kind = "proxy" THEN {Blank} ELSE {})
      [] OTHER -> {Absent}

\* "ok" and "failed": the last request was answered with success or an error.
Answered(answer) == [op |-> "get", arg |-> Absent, pc |-> answer, seen |-> Blank]
Serving(r) == req[r].pc \notin {"ok", "failed"}

\* The request has changed something, or is about to, and has more to change.
Halfway(r) == req[r].pc \in {"repair", "mask", "save", "post", "erase"}

\* "seen" is the field as it was read; while a request saves, the text that
\* the entries shall hold.
Step(r, new) == req' = [req EXCEPT ![r] = new]
Move(r, pc) == Step(r, [req[r] EXCEPT !.pc = pc])
Answer(r, answer) == Step(r, Answered(answer))

\* The value the administrator has saved once request r has succeeded.
ValueSaved(r) ==
    LET arg == req[r].arg
    IN  IF req[r].op = "delete" THEN NoStanza
        ELSE IF arg = MaskText /\ saved = Blank THEN MaskText
        ELSE IF arg \in {Absent, MaskText} THEN saved
        ELSE arg

\* History: which requests have missed a change, and what should be stored: a
\* value is lost when a request that missed a change changes something, or
\* when a request fails halfway.
History(r, ok) ==
    LET changed == entries' # entries \/ conf' # conf
        others == {o \in Callers \ {r} : Serving(o)}
        missed == IF changed THEN stale \union others ELSE stale
        answer == req'[r].pc
    IN  /\ stale' = IF answer \in {"ok", "failed"} THEN missed \ {r} ELSE missed
        /\ saved' =
              IF \/ ~ok /\ (changed \/ Halfway(r))
                 \/ r \in stale /\ (changed \/ Halfway(r))
              THEN Unknown
              ELSE IF req[r].pc \in {"post", "erase"} /\ answer = "ok"
              THEN ValueSaved(r) ELSE saved
        /\ UNCHANGED kind

Init ==
    /\ CredInit
    /\ kind \in Kinds
    /\ conf = IF kind = "account" THEN NoStanza ELSE Blank
    /\ req = [c \in Callers |-> Answered("ok")]
    /\ stale = {}
    /\ saved = conf

-----------------------------------------------------------------------------
(* Reading the stanza: RestHandler.get and all, also the first part of     *)
(* create and update (_pre_request).                                       *)

Receive(r) ==
    /\ ~Serving(r)
    /\ saved = Unknown => Cardinality({o \in Callers : Serving(o)}) < MaxLost
    /\ \E op \in Operations : \E arg \in Arguments(op) :
          Step(r, [op |-> op, arg |-> arg, seen |-> Blank,
                   pc |-> IF op = "delete" THEN "remove" ELSE "conf"])
    /\ UNCHANGED <<credVars, conf>>
    /\ History(r, TRUE)

\* The stanza has been read, or reading it raised a RestError.  check_existing
\* takes any such error for a stanza that does not exist.
Checked(r, found) ==
    CASE req[r].op \in {"get", "list"} -> Answer(r, IF found THEN "ok" ELSE "failed")
      [] req[r].op = "create" -> IF found THEN Answer(r, "failed")
                                 ELSE Move(r, "ready")
      [] req[r].op = "update" -> IF found THEN Move(r, "ready")
                                 ELSE Answer(r, "failed")

ReadConf(r) ==
    /\ req[r].pc = "conf"
    /\ IF conf = NoStanza /\ req[r].op # "list" THEN Checked(r, FALSE)
       ELSE Step(r, [req[r] EXCEPT !.pc = "secret", !.seen = conf])
    /\ UNCHANGED <<credVars, conf>>
    /\ History(r, TRUE)

Plain(r) == req[r].seen \in Secrets

\* Mutant of Wanted: what is stored wins over plain text.
WantedOnce(r, text) ==
    IF Plain(r) THEN IF text = NoText THEN req[r].seen ELSE text
    ELSE IF req[r].seen = MaskText /\ text = NoText THEN MaskText ELSE text

\* decrypt_for_get and _merge_passwords: what the entries should hold, given
\* the field that was read before them.  With "******" and no entry, that is
\* taken for the value; a list deletes the entries of an empty field.
Wanted(r, text) ==
    IF Plain(r) THEN req[r].seen
    ELSE IF req[r].seen = MaskText /\ text = NoText THEN MaskText
    ELSE IF req[r].seen = Blank /\ req[r].op = "list" THEN NoText
    ELSE text

\* A list stores a value found in plain text even when it is stored already.
ReadSecret(r) ==
    LET text == Clear(entries)
        wanted == Wanted(r, text)
    IN  /\ req[r].pc = "secret"
        /\ IF text \notin Parsable \union {NoText}
           THEN Checked(r, FALSE) /\ UNCHANGED credVars
           ELSE IF wanted = text /\ ~(Plain(r) /\ req[r].op = "list")
           THEN /\ IF Plain(r) THEN Move(r, "mask") ELSE Checked(r, TRUE)
                /\ UNCHANGED credVars
           ELSE /\ Move(r, "repair")
                /\ IF wanted = NoText THEN DeletePassword(r)
                                      ELSE SetPassword(r, wanted)
        /\ UNCHANGED conf
        /\ History(r, TRUE)

\* Mutant of Repaired: what was encrypted stays in the stanza.
RepairedUnmasked(r) ==
    /\ req[r].pc = "repair"
    /\ Checked(r, call[r].pc = "done")
    /\ Handled(r)
    /\ UNCHANGED conf
    /\ History(r, call[r].pc = "done")

\* Only a value that was found in plain text is masked in the stanza.
Repaired(r) ==
    /\ req[r].pc = "repair"
    /\ IF call[r].pc = "raised" THEN Checked(r, FALSE)
       ELSE IF Plain(r) THEN Move(r, "mask") ELSE Checked(r, TRUE)
    /\ Handled(r)
    /\ UNCHANGED conf
    /\ History(r, call[r].pc = "done")

\* splunkd refuses to change a stanza that is gone.
PostMask(r) ==
    /\ req[r].pc = "mask"
    /\ conf' = IF conf = NoStanza THEN NoStanza ELSE MaskText
    /\ Checked(r, conf # NoStanza)
    /\ UNCHANGED credVars
    /\ History(r, conf # NoStanza)

-----------------------------------------------------------------------------
(* The second part of create and update, and delete.                       *)

\* What the field of the stanza becomes.
Posted(r) ==
    CASE req[r].arg = Blank -> Blank
      [] req[r].arg = Absent /\ req[r].seen = NoText -> conf
      [] OTHER -> MaskText

\* Mutant of Encrypt: an update that leaves the field out deletes the value.
EncryptAfresh(r) ==
    LET arg == req[r].arg
    IN  /\ req[r].pc = "ready"
        /\ Step(r, [req[r] EXCEPT !.pc = "save", !.seen = NoText])
        /\ IF arg \in Secrets \union {MaskText} THEN SetPassword(r, arg)
                                                ELSE DeletePassword(r)
        /\ UNCHANGED conf
        /\ History(r, TRUE)

\* encrypt_for_create and encrypt_for_update.  An update with "******" or
\* without the field reads the entries and writes back what it read; with
\* nothing to encrypt the entries are deleted.
Encrypt(r) ==
    LET arg == req[r].arg
        text == Clear(entries)
        keeps == arg \in {MaskText, Absent}
        wanted == IF arg = Blank THEN NoText
                  ELSE IF ~keeps THEN arg
                  ELSE IF text = NoText /\ arg = MaskText THEN MaskText
                  ELSE text
    IN  /\ req[r].pc = "ready"
        /\ IF keeps /\ text \notin Parsable \union {NoText}
           THEN Answer(r, "failed") /\ UNCHANGED credVars
           ELSE /\ Step(r, [req[r] EXCEPT !.pc = "save", !.seen = wanted])
                /\ IF wanted = NoText THEN DeletePassword(r)
                                      ELSE SetPassword(r, wanted)
        /\ UNCHANGED conf
        /\ History(r, TRUE)

Encrypted(r) ==
    /\ req[r].pc = "save"
    /\ IF call[r].pc = "raised" THEN Answer(r, "failed") ELSE Move(r, "post")
    /\ Handled(r)
    /\ UNCHANGED conf
    /\ History(r, call[r].pc = "done")

\* The stanza is created, unless there is one, or changed, if there is one.
Accepted(r) == (conf = NoStanza) <=> (req[r].op = "create")
Post(r) ==
    /\ req[r].pc = "post"
    /\ conf' = IF Accepted(r) THEN Posted(r) ELSE conf
    /\ Answer(r, IF Accepted(r) THEN "ok" ELSE "failed")
    /\ UNCHANGED credVars
    /\ History(r, Accepted(r))

\* delete removes the stanza first, and the entries then.
Remove(r) ==
    /\ req[r].pc = "remove"
    /\ IF conf = NoStanza THEN Answer(r, "failed") /\ UNCHANGED credVars
       ELSE Move(r, "erase") /\ DeletePassword(r)
    /\ conf' = NoStanza
    /\ History(r, TRUE)

Erased(r) ==
    /\ req[r].pc = "erase"
    /\ Answer(r, IF call[r].pc = "raised" THEN "failed" ELSE "ok")
    /\ Handled(r)
    /\ UNCHANGED conf
    /\ History(r, call[r].pc = "done")

-----------------------------------------------------------------------------
(* Failures, and the administrator's editor.                               *)

\* A request to splunkd about the stanza fails, having been carried out or
\* not; nothing is tried again.
RequestFails(r) ==
    LET pc == req[r].pc
    IN  /\ pc \in {"conf", "secret", "mask", "ready", "post", "remove"}
        /\ \/ UNCHANGED conf
           \/ pc = "mask" /\ conf # NoStanza /\ conf' = MaskText
           \/ pc = "post" /\ Accepted(r) /\ conf' = Posted(r)
           \/ pc = "remove" /\ conf' = NoStanza
        /\ IF pc \in {"conf", "secret", "mask"} THEN Checked(r, FALSE)
           ELSE Answer(r, "failed")
        /\ UNCHANGED credVars
        /\ History(r, FALSE)

\* While Splunk is down, a value is written to the .conf file in plain text.
EditByHand ==
    /\ \A r \in Callers : ~Serving(r)
    /\ conf' \in Secrets
    /\ saved' = conf'
    /\ UNCHANGED <<credVars, req, kind, stale>>

\* Bound: splunkd answers every call for a secret while more are served.
CallsMayFail == Cardinality({r \in Callers : Serving(r)}) =< MaxFailing

CallGoesOn(r) ==
    /\ CallStep(r) \/ (CallsMayFail /\ CallFails(r))
    /\ UNCHANGED <<conf, req>>
    /\ History(r, TRUE)

Serve(r) ==
    \/ Receive(r) \/ ReadConf(r) \/ ReadSecret(r) \/ Repaired(r) \/ PostMask(r)
    \/ Encrypt(r) \/ Encrypted(r) \/ Post(r) \/ Remove(r) \/ Erased(r)
    \/ CallGoesOn(r) \/ RequestFails(r)

Next == EditByHand \/ \E r \in Callers : Serve(r)

Spec == Init /\ [][Next]_vars

-----------------------------------------------------------------------------
(* Properties *)

TypeOK ==
    /\ CredTypeOK
    /\ conf \in Secrets \union {MaskText, NoStanza, Blank}
    /\ req \in [Callers ->
                  [op : {"get", "list", "create", "update", "delete"},
                   arg : Secrets \union {MaskText, Absent, Blank},
                   pc : {"conf", "secret", "repair", "mask", "ready", "save",
                         "post", "remove", "erase", "ok", "failed"},
                   seen : Parsable \union {NoStanza, Blank, NoText}]]
    /\ stale \subseteq Callers
    /\ saved \in Secrets \union {MaskText, NoStanza, Blank, Unknown}

\* What ConfManager.get makes of the stanza for an input that polls.
Served == IF conf = MaskText THEN Clear(entries) ELSE conf

\* Inputs get the value the administrator last saved, in the UI or in the
\* file, however often the stanza was listed, read or saved with "******" in
\* between, and whatever failed before; nothing is left of a deleted one.
\* Excepted are a change that fails halfway and a change by a request that
\* began before another request changed something.
SavedIsServed ==
    (saved # Unknown /\ \A r \in Callers : ~Halfway(r))
      => /\ Served = saved
         /\ saved \in {NoStanza, Blank} => Present(entries) = {}

\* A list or a read that is answered leaves no value in plain text, unless it
\* was put there while the request was served.
ReadsEncrypt ==
    [][\A r \in Callers :
          (req[r].pc \in {"secret", "repair", "mask"} /\ req'[r].pc = "ok"
             /\ r \notin stale) => conf' \notin Secrets]_vars
=============================================================================
