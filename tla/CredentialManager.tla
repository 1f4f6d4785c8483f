------------------------- MODULE CredentialManager -------------------------
(***************************************************************************)
(* solnlib.credentials.CredentialManager: the secret of one user of one    *)
(* realm, kept as entries of Splunk's storage/passwords.  An entry holds   *)
(* at most 255 characters, so a text is cut into pieces that are stored    *)
(* one by one under the names user``sep``1, user``sep``2 and so on, and    *)
(* after the last one an entry with an end mark.  Every entry is created,  *)
(* listed, updated and deleted by a call to splunkd of its own, and        *)
(* nothing is locked meanwhile: REST handlers, inputs and the encryption   *)
(* script are processes of their own.                                      *)
(***************************************************************************)
EXTENDS Naturals, Sequences, FiniteSets

CONSTANTS
    Callers,    \* threads of control that use the manager
    Pieces,     \* what a text is made of, 255 characters each
    MaxPieces,  \* bound: pieces of a text
    EndMark,    \* content of the entry after the last piece
    NoEntry,    \* no entry has this index
    NoText,     \* CredentialNotExistException: there is no entry at all
    Unknown,    \* history: nothing is known of the text
    NoCall      \* the caller writes nothing

ASSUME PiecesAssumption == MaxPieces \in Nat \ {0}
ASSUME MarksAssumption == /\ EndMark \notin Pieces /\ NoEntry \notin Pieces
                          /\ EndMark # NoEntry

Indices == 1 .. MaxPieces + 1
Texts == UNION {[1 .. n -> Pieces] : n \in 1 .. MaxPieces}

ASSUME TextAssumption ==
    /\ NoText \notin Texts /\ Unknown \notin Texts \union {NoText}
    /\ NoCall \notin Texts \union {NoText}
ASSUME NoTextAssumption == \A I \in SUBSET Indices : NoText \notin [I -> Pieces]

VARIABLES
    entries,  \* content of the entry of each index
    call,     \* what set_password or delete_password of a caller is doing
    stored,   \* history: the text written last, or Unknown
    mixed     \* history: writers that overlapped another one

credVars == <<entries, call, stored, mixed>>

-----------------------------------------------------------------------------
\* "done" and "raised": the last call returned, or raised; no call is running.
Rest(pc) == [pc |-> pc, text |-> NoText, next |-> 1, todo |-> {}]
\* The entry of index n is next to be stored; the listed ones are to be deleted.
Storing(pc, t, n) == [pc |-> pc, text |-> t, next |-> n, todo |-> {}]
Deleting(todo) == [pc |-> "delete", text |-> NoText, next |-> 1, todo |-> todo]
Writing(c) == call[c].pc \notin {"done", "raised"}
WritersNow == {c \in Callers : Writing(c)}

Present(e) == {i \in Indices : e[i] # NoEntry}

\* Mutant of Clear: the end mark does not end the text.
ClearAll(e) ==
    LET pieces == {i \in Present(e) : e[i] # EndMark}
    IN  IF Present(e) = {} THEN NoText ELSE [i \in pieces |-> e[i]]

\* _get_clear_passwords: the entries in the order of their index, up to the
\* first end mark.  (The function is a text unless an entry is missing; the
\* code then joins pieces that do not belong together, which may be JSON.)
Clear(e) ==
    LET pieces == {i \in Present(e) : \A j \in 1..i : e[j] # EndMark}
    IN  IF Present(e) = {} THEN NoText ELSE [i \in pieces |-> e[i]]

CredInit ==
    /\ entries = [i \in Indices |-> NoEntry]
    /\ call = [c \in Callers |-> Rest("done")]
    /\ stored = NoText
    /\ mixed = {}

Begin(c, new) ==
    /\ ~Writing(c)
    /\ call' = [call EXCEPT ![c] = new]
    /\ mixed' = IF WritersNow = {} THEN mixed ELSE WritersNow \union {c}
    /\ stored' = Unknown
    /\ UNCHANGED entries

End(c, pc, text) ==
    /\ call' = [call EXCEPT ![c] = Rest(pc)]
    /\ mixed' = mixed \ {c}
    /\ stored' = IF c \in mixed THEN Unknown ELSE text

Returns(c) == End(c, "done", call[c].text)
Raises(c) == End(c, "raised", Unknown)

Goto(c, new) ==
    /\ call' = [call EXCEPT ![c] = new]
    /\ UNCHANGED <<stored, mixed>>

-----------------------------------------------------------------------------
(* set_password *)

SetPassword(c, t) ==
    Begin(c, Storing("create", t, 1))

IsLast(c) == call[c].next \notin DOMAIN call[c].text
Content(c) == IF IsLast(c) THEN EndMark ELSE call[c].text[call[c].next]
WithEntry(c) == [entries EXCEPT ![call[c].next] = Content(c)]

\* Mutant of Store: the mark is stored twice.
StoreTwice(c) ==
    LET k == call[c]
    IN  /\ entries' = WithEntry(c)
        /\ IF IsLast(c) /\ k.next - 1 \notin DOMAIN k.text THEN Returns(c)
           ELSE Goto(c, Storing("create", k.text, k.next + 1))

\* An entry has been stored: on to the next one, or return after the mark.
Store(c) ==
    LET k == call[c]
    IN  /\ entries' = WithEntry(c)
        /\ IF IsLast(c) THEN Returns(c)
           ELSE Goto(c, Storing("create", k.text, k.next + 1))

\* storage_passwords.create: refused with 409 when the entry exists.
Create(c) ==
    /\ call[c].pc = "create"
    /\ \/ entries[call[c].next] = NoEntry /\ Store(c)
       \/ /\ entries[call[c].next] # NoEntry
          /\ Goto(c, Storing("find", call[c].text, call[c].next))
          /\ UNCHANGED entries

\* The entries are listed to find the one to update; an entry that has gone
\* since is a ValueError, which is not retried.
Find(c) ==
    /\ call[c].pc = "find"
    /\ IF entries[call[c].next] # NoEntry
       THEN Goto(c, Storing("update", call[c].text, call[c].next))
       ELSE Raises(c)
    /\ UNCHANGED entries

\* An entry that has gone since it was listed is an HTTPError: @retry creates
\* it again.
Update(c) ==
    /\ call[c].pc = "update"
    /\ \/ entries[call[c].next] # NoEntry /\ Store(c)
       \/ /\ entries[call[c].next] = NoEntry
          /\ Goto(c, Storing("create", call[c].text, call[c].next))
          /\ UNCHANGED entries

-----------------------------------------------------------------------------
(* delete_password *)

DeletePassword(c) == Begin(c, Rest("look"))

\* All entries of the user are listed.  With none of them the code raises
\* CredentialNotExistException, which every caller passes over.
Look(c) ==
    /\ call[c].pc = "look"
    /\ IF Present(entries) = {} THEN Returns(c)
       ELSE Goto(c, Deleting(Present(entries)))
    /\ UNCHANGED entries

\* Mutant of Delete: the rest is left when an entry with an end mark is gone.
DeleteToMark(c) ==
    LET k == call[c]
    IN  /\ k.pc = "delete"
        /\ \E i \in k.todo :
              /\ entries[i] # NoEntry
              /\ entries' = [entries EXCEPT ![i] = NoEntry]
              /\ IF k.todo = {i} \/ entries[i] = EndMark THEN Returns(c)
                 ELSE Goto(c, Deleting(k.todo \ {i}))

\* The listed entries are deleted one by one.  One that has gone since is an
\* HTTPError: @retry lists them again.
Delete(c) ==
    LET k == call[c]
    IN  /\ k.pc = "delete"
        /\ \E i \in k.todo :
              \/ /\ entries[i] # NoEntry
                 /\ entries' = [entries EXCEPT ![i] = NoEntry]
                 /\ IF k.todo = {i} THEN Returns(c)
                    ELSE Goto(c, Deleting(k.todo \ {i}))
              \/ /\ entries[i] = NoEntry
                 /\ Goto(c, Rest("look"))
                 /\ UNCHANGED entries

\* splunkd does not answer, whether or not it has done what was asked.  @retry
\* starts the call again from the first entry, and in the end it raises.  (That
\* _update_password first tries its one entry again changes nothing: it stores
\* the same piece in the same entry.)  A process that dies in the middle of a
\* call is a call that raises, as far as the entries can tell.
CallFails(c) ==
    LET k == call[c]
    IN  /\ Writing(c)
        /\ \/ UNCHANGED entries
           \/ /\ \/ k.pc = "create" /\ entries[k.next] = NoEntry
                 \/ k.pc = "update" /\ entries[k.next] # NoEntry
              /\ entries' = WithEntry(c)
           \/ /\ k.pc = "delete"
              /\ \E i \in k.todo : entries' = [entries EXCEPT ![i] = NoEntry]
        /\ \/ Raises(c)
           \/ /\ k.pc \in {"create", "find", "update"}
              /\ Goto(c, Storing("create", k.text, 1))
           \/ /\ k.pc \in {"look", "delete"}
              /\ Goto(c, Rest("look"))

\* The caller has looked at the outcome of its call.
Handled(c) ==
    /\ ~Writing(c)
    /\ call' = [call EXCEPT ![c] = Rest("done")]
    /\ UNCHANGED <<entries, stored, mixed>>

CallStep(c) == Create(c) \/ Find(c) \/ Update(c) \/ Look(c) \/ Delete(c)

\* Any caller may write or delete at any time.
CredNext ==
    \E c \in Callers :
       \/ \E t \in Texts : SetPassword(c, t)
       \/ DeletePassword(c)
       \/ CallStep(c)
       \/ CallFails(c)
       \/ Handled(c)

CredSpec == CredInit /\ [][CredNext]_credVars

-----------------------------------------------------------------------------
(* Properties *)

CallTypes == [pc : {"create", "find", "update", "look", "delete", "done",
                    "raised"},
              text : Texts \union {NoText}, next : Indices,
              todo : SUBSET Indices]

CredTypeOK ==
    /\ entries \in [Indices -> Pieces \union {EndMark, NoEntry}]
    /\ call \in [Callers -> CallTypes]
    /\ stored \in Texts \union {NoText, Unknown}
    /\ mixed \subseteq Callers

\* The entries, read as get_password reads them, are a safe register: when no
\* call is running they give the last text that was set, nothing after a
\* deletion, and something else only after a call that failed or overlapped
\* another one; whatever longer or shorter text was stored before.
Register ==
    INSTANCE SafeRegister WITH
        Writers <- Callers, Values <- Texts \union {NoText}, Idle <- NoCall,
        pending <- [c \in Callers |-> IF Writing(c) THEN call[c].text
                                      ELSE NoCall],
        value <- stored, content <- Clear(entries)
RegisterSpec == Register!Spec
=============================================================================
