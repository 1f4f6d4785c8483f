---------------------------- MODULE SafeRegister ----------------------------
(***************************************************************************)
(* What a store that its writers change in several steps promises to its   *)
(* readers: a read that overlaps no write returns the value of the last    *)
(* write, if that one succeeded and overlapped no other write.  Any other  *)
(* read may return anything.                                               *)
(***************************************************************************)
CONSTANTS Writers, Values, Unknown, Idle

VARIABLES
    pending,  \* the value a writer is writing, or Idle
    mixed,    \* writers whose write has overlapped another one
    value,    \* what was written last, or Unknown
    content   \* what a read would return now

vars == <<pending, mixed, value, content>>

Writing == {w \in Writers : pending[w] # Idle}

Init ==
    /\ pending = [w \in Writers |-> Idle]
    /\ mixed = {}
    /\ value \in Values
    /\ content = value

\* A writer starts writing some value.
Begin(w) ==
    /\ w \notin Writing
    /\ pending'[w] \in Values
    /\ pending' = [pending EXCEPT ![w] = pending'[w]]
    /\ mixed' = IF Writing = {} THEN mixed ELSE Writing \union {w}
    /\ value' = Unknown

Work == Writing # {} /\ UNCHANGED <<pending, mixed, value>>

Stop(w) ==
    /\ w \in Writing
    /\ pending' = [pending EXCEPT ![w] = Idle]
    /\ mixed' = mixed \ {w}

End(w) ==
    /\ Stop(w)
    /\ value' = IF w \in mixed THEN Unknown ELSE pending[w]

Fail(w) == Stop(w) /\ value' = Unknown

\* While nothing is being written, the content is the known value.
Settled == Writing = {} /\ value # Unknown => content = value

Next == /\ \/ Work
           \/ \E w \in Writers : Begin(w) \/ End(w) \/ Fail(w)
        /\ Settled'

Spec == Init /\ [][Next]_vars
=============================================================================
