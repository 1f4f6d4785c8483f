------------------------- MODULE AlertActionsProofs -------------------------
(***************************************************************************)
(* Proofs about AlertActions, for all rows, tenants and indexes, every     *)
(* size of the cache and of a file, and any number of failures.            *)
(***************************************************************************)
EXTENDS AlertActions, SequenceTheorems, FiniteSetTheorems, TLAPS

USE AlertAssumption, AlertBoundAssumption

-----------------------------------------------------------------------------
(* Sequences *)

LEMMA RemoveAtProperties ==
    ASSUME NEW S, NEW s \in Seq(S), NEW i \in 1..Len(s)
    PROVE  /\ RemoveAt(s, i) \in Seq(S)
           /\ Len(RemoveAt(s, i)) = Len(s) - 1
           /\ \A j \in 1 .. Len(s) - 1 :
                RemoveAt(s, i)[j] = IF j < i THEN s[j] ELSE s[j + 1]
<1> DEFINE a == SubSeq(s, 1, i - 1)
           b == SubSeq(s, i + 1, Len(s))
<1>1. Len(s) \in Nat /\ \A j \in 1..Len(s) : s[j] \in S
    BY LenProperties, ElementOfSeq
<1>2. /\ a \in Seq(S) /\ Len(a) = i - 1
      /\ \A j \in 1 .. i - 1 : a[j] = s[j]
  <2>1. \A j \in 1 .. i - 1 : s[j] \in S
      BY <1>1
  <2>2. i - 1 \in Int
      OBVIOUS
  <2> HIDE DEF a
  <2>3. /\ a \in Seq(S)
        /\ Len(a) = IF 1 <= i - 1 THEN (i - 1) - 1 + 1 ELSE 0
        /\ \A j \in 1 .. (i - 1) - 1 + 1 : a[j] = s[1 + j - 1]
      BY <2>1, <2>2, SubSeqProperties DEF a
  <2>4. QED
      BY <1>1, <2>3
<1>3. /\ b \in Seq(S) /\ Len(b) = Len(s) - i
      /\ \A j \in 1 .. Len(s) - i : b[j] = s[i + j]
  <2>1. \A j \in i + 1 .. Len(s) : s[j] \in S
      BY <1>1
  <2> HIDE DEF b
  <2>2. /\ b \in Seq(S)
        /\ Len(b) = IF i + 1 <= Len(s) THEN Len(s) - (i + 1) + 1 ELSE 0
        /\ \A j \in 1 .. Len(s) - (i + 1) + 1 : b[j] = s[i + 1 + j - 1]
      BY <1>1, <2>1, SubSeqProperties DEF b
  <2>3. QED
      BY <1>1, <2>2
<1>4. RemoveAt(s, i) = a \o b
    BY DEF RemoveAt
<1> HIDE DEF a, b
<1>5. QED
  <2>1. /\ a \o b \in Seq(S) /\ Len(a \o b) = Len(a) + Len(b)
        /\ \A j \in 1 .. Len(a) + Len(b) :
             (a \o b)[j] = IF j <= Len(a) THEN a[j] ELSE b[j - Len(a)]
    <3>1. a \in Seq(S) /\ b \in Seq(S)
        BY <1>2, <1>3
    <3>2. QED
        BY ONLY <3>1, ConcatProperties, Zenon
  <2>2. ASSUME NEW j \in 1 .. Len(s) - 1
        PROVE  (a \o b)[j] = IF j < i THEN s[j] ELSE s[j + 1]
    <3>1. CASE j < i
        BY <1>1, <1>2, <1>3, <2>1, <3>1
    <3>2. CASE j >= i
      <4>1. b[j - (i - 1)] = s[j + 1]
          BY <1>1, <1>3, <3>2
      <4>2. QED
          BY <1>1, <1>2, <1>3, <2>1, <3>2, <4>1
    <3>3. j < i \/ j >= i
        OBVIOUS
    <3>4. CASE j >= i /\ ~(j < i)
        BY <3>2, <3>4
    <3>5. QED
        BY <3>1, <3>3, <3>4, Zenon
  <2>3. Len(a) + Len(b) = Len(s) - 1
      BY <1>1, <1>2, <1>3
  <2>4. a \o b \in Seq(S) /\ Len(a \o b) = Len(s) - 1
      BY <2>1, <2>3
  <2>5. QED
      BY <1>4, <2>2, <2>4, Zenon

LEMMA FrontProperties ==
    ASSUME NEW S, NEW s \in Seq(S), Len(s) > 0
    PROVE  /\ Front(s) \in Seq(S)
           /\ Len(Front(s)) = Len(s) - 1
           /\ \A j \in 1 .. Len(s) - 1 : Front(s)[j] = s[j]
<1>1. Len(s) \in Nat /\ \A j \in 1..Len(s) : s[j] \in S
    BY LenProperties, ElementOfSeq
<1>2. \A j \in 1 .. Len(s) - 1 : s[j] \in S
    BY <1>1
<1>3. /\ Front(s) \in Seq(S)
      /\ Len(Front(s)) = IF 1 <= Len(s) - 1 THEN (Len(s) - 1) - 1 + 1 ELSE 0
      /\ \A j \in 1 .. (Len(s) - 1) - 1 + 1 : Front(s)[j] = s[1 + j - 1]
    BY <1>1, <1>2, SubSeqProperties DEF Front
<1>4. Len(Front(s)) = Len(s) - 1
  <2>1. Len(Front(s)) = IF 1 <= Len(s) - 1 THEN (Len(s) - 1) - 1 + 1 ELSE 0
      BY <1>3
  <2>2. \A n \in Nat : \A m : n > 0 /\ m = (IF 1 <= n - 1 THEN (n - 1) - 1 + 1 ELSE 0)
                              => m = n - 1
      OBVIOUS
  <2>3. QED
      BY <1>1, <2>1, <2>2, Zenon
<1>5. ASSUME NEW j \in 1 .. Len(s) - 1
      PROVE  Front(s)[j] = s[j]
  <2>1. j \in 1 .. (Len(s) - 1) - 1 + 1 /\ 1 + j - 1 = j
      BY <1>1
  <2>2. QED
      BY <1>3, <2>1
<1>6. QED
    BY <1>3, <1>4, <1>5

-----------------------------------------------------------------------------
(* The cache of tokens *)

CacheOK(c) == c \in Seq(Tenants) /\ Len(c) <= CacheSize /\ IsInjective(c)

LEMMA Consed ==
    ASSUME NEW c \in Seq(Tenants), NEW t \in Tenants, IsInjective(c),
           Len(c) < CacheSize, \A j \in 1..Len(c) : c[j] # t
    PROVE  CacheOK(<<t>> \o c)
<1> DEFINE d == <<t>> \o c
<1>1. Len(c) \in Nat /\ DOMAIN c = 1..Len(c)
    BY LenProperties
<1>2. /\ d \in Seq(Tenants) /\ Len(d) = Len(c) + 1
      /\ \A j \in 1 .. Len(c) + 1 : d[j] = IF j = 1 THEN t ELSE c[j - 1]
  <2>1. /\ d \in Seq(Tenants) /\ Len(d) = 1 + Len(c)
        /\ \A j \in 1 .. 1 + Len(c) :
             d[j] = IF j <= 1 THEN <<t>>[j] ELSE c[j - 1]
    <3>1. <<t>> \in Seq(Tenants) /\ Len(<<t>>) = 1
        OBVIOUS
    <3>2. QED
        BY <3>1, ConcatProperties
  <2> HIDE DEF d
  <2>2. QED
      BY <1>1, <2>1
<1>3. DOMAIN d = 1 .. Len(c) + 1
    BY <1>2, LenProperties
<1> HIDE DEF d
<1>4. ASSUME NEW a \in DOMAIN d, NEW b \in DOMAIN d, d[a] = d[b]
      PROVE  a = b
  <2>1. CASE a = 1
    <3>1. b # 1 => c[b - 1] # t
        BY <1>1, <1>3
    <3>2. QED
        BY <1>2, <1>3, <1>4, <2>1, <3>1
  <2>2. CASE b = 1
    <3>1. a # 1 => c[a - 1] # t
        BY <1>1, <1>3
    <3>2. QED
        BY <1>2, <1>3, <1>4, <2>2, <3>1
  <2>3. CASE a # 1 /\ b # 1
    <3>1. a - 1 \in DOMAIN c /\ b - 1 \in DOMAIN c
        BY <1>1, <1>3, <2>3
    <3>2. c[a - 1] = c[b - 1]
        BY <1>2, <1>3, <1>4, <2>3
    <3>3. a - 1 = b - 1
        BY <3>1, <3>2 DEF IsInjective
    <3>4. QED
        BY <1>1, <1>3, <3>3
  <2>4. QED
      BY <2>1, <2>2, <2>3
<1>5. QED
    BY <1>1, <1>2, <1>4 DEF CacheOK, IsInjective, d

\* lru_cache keeps a tenant once, the last used first, and not more than it may.
LEMMA Remembered ==
    ASSUME CacheOK(tokens), NEW t \in Tenants
    PROVE  /\ CacheOK(Remember(t))
           /\ Remember(t) # <<>> /\ Head(Remember(t)) = t
<1>1. Len(tokens) \in Nat /\ DOMAIN tokens = 1..Len(tokens)
    BY LenProperties DEF CacheOK
<1>2. \E c \in Seq(Tenants) :
        /\ Remember(t) = <<t>> \o c /\ Len(c) < CacheSize
        /\ IsInjective(c) /\ \A j \in 1..Len(c) : c[j] # t
  <2>1. CASE Position(t) # {}
    <3> DEFINE k == CHOOSE k \in Position(t) : TRUE
               c == RemoveAt(tokens, k)
    <3>1. k \in 1..Len(tokens) /\ tokens[k] = t
        BY <2>1 DEF Position
    <3>2. Remember(t) = <<t>> \o c
        BY <2>1 DEF Remember
    <3> HIDE DEF k
    <3>3. /\ c \in Seq(Tenants) /\ Len(c) = Len(tokens) - 1
          /\ \A j \in 1 .. Len(tokens) - 1 :
               c[j] = IF j < k THEN tokens[j] ELSE tokens[j + 1]
        BY <3>1, RemoveAtProperties DEF CacheOK
    <3>4. DOMAIN c = 1 .. Len(tokens) - 1
        BY <3>3, LenProperties
    <3> DEFINE at(j) == IF j < k THEN j ELSE j + 1
    <3> HIDE DEF c
    <3>5. \A j \in DOMAIN c : at(j) \in DOMAIN tokens /\ c[j] = tokens[at(j)]
        BY <1>1, <3>1, <3>3, <3>4
    <3>6. \A j \in DOMAIN c : c[j] # t
      <4>1. \A j \in DOMAIN c : at(j) # k
          BY <1>1, <3>1, <3>4
      <4>2. QED
          BY <1>1, <3>1, <3>5, <4>1 DEF CacheOK, IsInjective
    <3>7. IsInjective(c)
      <4>1. \A a, b \in DOMAIN c : at(a) = at(b) => a = b
          BY <1>1, <3>1, <3>4
      <4>2. QED
          BY <3>5, <4>1 DEF CacheOK, IsInjective
    <3>8. Len(c) < CacheSize
        BY <1>1, <3>3 DEF CacheOK
    <3>9. QED
        BY <3>2, <3>3, <3>4, <3>6, <3>7, <3>8
  <2>2. CASE Position(t) = {} /\ Len(tokens) < CacheSize
    <3>1. Remember(t) = <<t>> \o tokens
        BY <2>2 DEF Remember
    <3>2. QED
        BY <2>2, <3>1 DEF CacheOK, Position
  <2>3. CASE Position(t) = {} /\ ~(Len(tokens) < CacheSize)
    <3> DEFINE c == Front(tokens)
    <3>1. Remember(t) = <<t>> \o c
        BY <2>3 DEF Remember
    <3>2. Len(tokens) > 0
        BY <1>1, <2>3
    <3>3. /\ c \in Seq(Tenants) /\ Len(c) = Len(tokens) - 1
          /\ \A j \in 1 .. Len(tokens) - 1 : c[j] = tokens[j]
        BY <3>2, FrontProperties DEF CacheOK
    <3>4. DOMAIN c = 1 .. Len(tokens) - 1
        BY <3>3, LenProperties
    <3> HIDE DEF c
    <3>5. IsInjective(c)
        BY <1>1, <3>3, <3>4 DEF CacheOK, IsInjective
    <3>6. \A j \in 1..Len(c) : c[j] # t
        BY <1>1, <2>3, <3>3 DEF Position
    <3>7. Len(c) < CacheSize
        BY <1>1, <3>3 DEF CacheOK
    <3>8. QED
        BY <3>1, <3>3, <3>5, <3>6, <3>7
  <2>4. QED
      BY <2>1, <2>2, <2>3
<1>3. PICK c \in Seq(Tenants) :
        /\ Remember(t) = <<t>> \o c /\ Len(c) < CacheSize
        /\ IsInjective(c) /\ \A j \in 1..Len(c) : c[j] # t
    BY <1>2
<1>4. CacheOK(Remember(t))
    BY <1>3, Consed
<1>5. <<t>> \o c # <<>> /\ Head(<<t>> \o c) = t
    OBVIOUS
<1>6. QED
    BY <1>3, <1>4, <1>5

-----------------------------------------------------------------------------
(* The row and its values *)

Obeys(value, named) == named # Nothing => value = named

\* What the loop works with is what its row names, and an event is made while
\* the ids of that row are loaded.
LocalsOK ==
    /\ pc \in {"token", "ask"} => row >= 1 /\ loaded = row
    /\ row >= 1 => LET r == job.rows[row]
                   IN  /\ Obeys(subject, r.subject) /\ Obeys(tenant, r.tenant)
                       /\ Obeys(index, r.index)
    /\ row >= 1 /\ pc # "failed" => tenant # Nothing
    /\ pc = "write" => row >= 1
    /\ pc = "ask" => subject # Nothing /\ tokens # <<>> /\ Head(tokens) = tenant
    /\ applied # {} => row >= 1

RowInv == TypeOK /\ LocalsOK /\ EventHasIdsOfRow /\ RowOverrides

LEMMA RowsAreRows ==
    ASSUME job \in Job
    PROVE  /\ Len(job.rows) \in 0..MaxRows
           /\ \A i \in 1..Len(job.rows) : job.rows[i] \in Row
<1>1. PICK n \in 0..MaxRows : job.rows \in [1..n -> RowKinds]
    BY DEF Job, Rows
<1>2. Len(job.rows) = n
    BY <1>1
<1>3. QED
    BY <1>1, <1>2

LEMMA FaultType ==
    ASSUME TypeOK, Fault \/ UNCHANGED faults
    PROVE  faults' \in 0..MaxFaults
BY DEF TypeOK, Fault

LEMMA InitRow == Init => RowInv
<1> SUFFICES ASSUME Init
             PROVE  RowInv
    OBVIOUS
<1>1. job \in Job
    BY DEF Init
<1>2. Len(job.rows) \in 0..MaxRows
    BY <1>1, RowsAreRows
<1>3. IsInjective(tokens) /\ tokens \in Seq(Tenants) /\ Len(tokens) = 0
    BY EmptySeq DEF Init, IsInjective
<1>4. TypeOK
  <2>1. row \in 0..Len(job.rows) /\ loaded \in 0..Len(job.rows)
      BY <1>2 DEF Init
  <2>2. /\ subject \in Field(Subjects) /\ tenant \in Field(Tenants)
        /\ index \in Field(Indexes)
      BY <1>1 DEF Init, Job, Field
  <2>3. events = <<>> /\ spool = <<>> /\ written = 0 /\ faults = 0
      BY DEF Init
  <2>4. /\ events \in Seq(Event) /\ written \in 0..Len(events)
        /\ spool \in Seq([row : 1..MaxRows, tenant : Tenants,
                          index : Field(Indexes), events : Seq(Event)])
      BY <2>3
  <2>5. Len(tokens) <= CacheSize
      BY <1>3
  <2>6. QED
      BY <1>1, <1>3, <2>1, <2>2, <2>3, <2>4, <2>5 DEF Init, TypeOK
<1>5. LocalsOK /\ EventHasIdsOfRow /\ RowOverrides
    BY DEF Init, LocalsOK, EventHasIdsOfRow, RowOverrides
<1>6. QED
    BY <1>4, <1>5 DEF RowInv

\* The next row brings its values and its ids.
LEMMA NextRowStep ==
    ASSUME RowInv, NextRow
    PROVE  RowInv'
<1> DEFINE r == job.rows[row + 1]
<1>1. row + 1 \in 1..Len(job.rows) /\ r \in Row /\ Len(job.rows) \in 0..MaxRows
  <2>1. Len(job.rows) \in 0..MaxRows /\ row \in 0..Len(job.rows) /\ row < Len(job.rows)
      BY RowsAreRows DEF RowInv, TypeOK, NextRow
  <2>2. row + 1 \in 1..Len(job.rows)
      BY <2>1
  <2>3. QED
      BY <2>1, <2>2, RowsAreRows DEF RowInv, TypeOK
<1>2. /\ subject' = RowSubject(r) /\ tenant' = RowTenant(r) /\ index' = RowIndex(r)
      /\ row' = row + 1 /\ loaded' = row + 1
      /\ pc' = IF RowTenant(r) = Nothing THEN "failed" ELSE "token"
      /\ UNCHANGED <<job, tokens, events, files, history, faults>>
    BY DEF NextRow, PreHandle
<1> HIDE DEF r
<1>3. /\ RowSubject(r) \in Field(Subjects) /\ RowTenant(r) \in Field(Tenants)
      /\ RowIndex(r) \in Field(Indexes)
    BY <1>1 DEF RowInv, TypeOK, Job, Row, Field, Or, RowSubject, RowTenant, RowIndex
<1>4. /\ Obeys(subject', r.subject) /\ Obeys(tenant', r.tenant)
      /\ Obeys(index', r.index)
    BY <1>2 DEF Obeys, Or, RowSubject, RowTenant, RowIndex
<1>5. TypeOK'
  <2>1. /\ row' \in 0..Len(job.rows) /\ loaded' \in 0..Len(job.rows)
        /\ pc' \in {"next", "token", "ask", "write", "done", "failed"}
      BY <1>1, <1>2
  <2>2. QED
      BY <1>2, <1>3, <2>1 DEF RowInv, TypeOK, files, history
<1>6. LocalsOK'
  <2>1. job'.rows[row'] = r
      BY <1>2 DEF r
  <2>2. row' >= 1 /\ pc' \in {"token", "failed"}
      BY <1>1, <1>2
  <2>3. pc' # "failed" => tenant' # Nothing
      BY <1>2
  <2>4. QED
      BY <1>2, <1>4, <2>1, <2>2, <2>3 DEF LocalsOK
<1>7. (EventHasIdsOfRow /\ RowOverrides)'
    BY <1>2 DEF RowInv, EventHasIdsOfRow, RowOverrides, files, history
<1>8. QED
    BY <1>5, <1>6, <1>7 DEF RowInv

\* The token that is asked for, or found, is the one that is used.
LEMMA TokenStep ==
    ASSUME RowInv, GetAccessToken
    PROVE  RowInv'
<1>1. tenant \in Tenants /\ row >= 1 /\ loaded = row
    BY DEF RowInv, TypeOK, LocalsOK, GetAccessToken, Field
<1>2. CacheOK(tokens') /\ tokens' # <<>> /\ Head(tokens') = tenant
    BY <1>1, Remembered DEF RowInv, TypeOK, CacheOK, GetAccessToken
<1>3. /\ pc' \in {"next", "ask"} /\ (pc' = "ask" => subject # Nothing)
      /\ UNCHANGED <<job, row, loaded, locals, events, files, history, faults>>
    BY DEF GetAccessToken
<1>4. TypeOK'
    BY <1>2, <1>3 DEF RowInv, TypeOK, CacheOK, locals, files, history
<1>5. LocalsOK'
    BY <1>1, <1>2, <1>3, Zenon
       DEF RowInv, LocalsOK, GetAccessToken, locals, history
<1>6. (EventHasIdsOfRow /\ RowOverrides)'
    BY <1>3 DEF RowInv, EventHasIdsOfRow, RowOverrides, files, history
<1>7. QED
    BY <1>4, <1>5, <1>6 DEF RowInv

LEMMA PartsProperties ==
    ASSUME RowInv, pc = "ask", NEW n \in 0..MaxAnswers
    PROVE  /\ Parts(n) \in Seq(Event) /\ Len(Parts(n)) = n
           /\ \A k \in 1..n : Parts(n)[k] = [row |-> row, part |-> k, rid |-> row]
<1>1. row \in 1..MaxRows /\ loaded = row
    BY RowsAreRows DEF RowInv, TypeOK, LocalsOK
<1>2. \A k \in 1..n : [row |-> row, part |-> k, rid |-> row] \in Event
    BY <1>1 DEF Event
<1>3. Parts(n) = [k \in 1..n |-> [row |-> row, part |-> k, rid |-> row]]
    BY <1>1 DEF Parts
<1>4. QED
    BY <1>2, <1>3

\* An answer is added with the ids of its row, and the request has its values.
LEMMA AskStep ==
    ASSUME RowInv, Ask \/ AskFails
    PROVE  RowInv'
<1>1. /\ pc = "ask" /\ pc' \in {"next", "write", "failed"}
      /\ asked' = asked \union {Request} /\ applied' \subseteq applied \union {row}
      /\ UNCHANGED <<job, row, loaded, locals, tokens, files>>
      /\ faults' \in 0..MaxFaults
    BY FaultType DEF RowInv, Ask, AskFails
<1>2. /\ row \in 1..MaxRows /\ row \in 1..Len(job.rows) /\ row >= 1
      /\ tenant \in Tenants /\ subject \in Subjects /\ Head(tokens) = tenant
    BY <1>1, RowsAreRows DEF RowInv, TypeOK, LocalsOK, Field
<1>3. /\ events' \in Seq(Event) /\ Len(events) <= Len(events')
      /\ \A k \in 1..Len(events') : events'[k].rid = events'[k].row
      /\ got' \subseteq (1..MaxRows) \X (1..MaxAnswers)
  <2>1. CASE UNCHANGED <<events, got>>
      BY <2>1 DEF RowInv, TypeOK, EventHasIdsOfRow
  <2>2. CASE Ask
    <3>0. PICK n \in Answers :
            events' = events \o Parts(n) /\ got' = got \union {<<row, k>> : k \in 1..n}
        BY <2>2 DEF Ask
    <3>1. n \in 0..MaxAnswers
        BY DEF Answers
    <3>2. /\ Parts(n) \in Seq(Event) /\ Len(Parts(n)) = n
          /\ \A k \in 1..n : Parts(n)[k] = [row |-> row, part |-> k, rid |-> row]
        BY <1>1, <3>1, PartsProperties
    <3>3. events \in Seq(Event) /\ Len(events) \in Nat
        BY LenProperties DEF RowInv, TypeOK
    <3>4. /\ events' \in Seq(Event) /\ Len(events') = Len(events) + n
          /\ \A k \in 1 .. Len(events) + n :
               events'[k] = IF k <= Len(events) THEN events[k]
                            ELSE Parts(n)[k - Len(events)]
        BY <3>0, <3>2, <3>3, ConcatProperties
    <3>5. ASSUME NEW k \in 1..Len(events')
          PROVE  events'[k].rid = events'[k].row
      <4>1. CASE k <= Len(events)
          BY <3>3, <3>4, <4>1 DEF RowInv, EventHasIdsOfRow
      <4>2. CASE ~(k <= Len(events))
        <5>1. k - Len(events) \in 1..n
            BY <3>1, <3>3, <3>4, <4>2
        <5>2. events'[k] = Parts(n)[k - Len(events)]
            BY <3>4, <4>2
        <5>3. QED
            BY <3>2, <5>1, <5>2
      <4>3. QED
          BY <4>1, <4>2
    <3>6. got' \subseteq (1..MaxRows) \X (1..MaxAnswers)
        BY <1>2, <3>0, <3>1 DEF RowInv, TypeOK
    <3>7. QED
        BY <3>1, <3>3, <3>4, <3>5, <3>6
  <2>3. QED
      BY <1>1, <2>1, <2>2 DEF AskFails
<1>4. written' \in 0..Len(events')
  <2>1. Len(events) \in Nat /\ Len(events') \in Nat
      BY <1>3, LenProperties DEF RowInv, TypeOK
  <2>2. QED
      BY <1>1, <1>3, <2>1 DEF RowInv, TypeOK, files
<1>5. Request \in [row : 1..MaxRows, subject : Subjects, tenant : Tenants]
    BY <1>2 DEF Request
<1>6. TypeOK'
  <2>1. asked' \subseteq [row : 1..MaxRows, subject : Subjects, tenant : Tenants]
        /\ applied' \subseteq 1..MaxRows
      BY <1>1, <1>2, <1>5 DEF RowInv, TypeOK
  <2>2. QED
      BY <1>1, <1>3, <1>4, <2>1 DEF RowInv, TypeOK, locals, files
<1>7. LocalsOK'
    BY <1>1, <1>2 DEF RowInv, LocalsOK, locals
<1>8. EventHasIdsOfRow'
    BY <1>3 DEF EventHasIdsOfRow
<1>9. RowOverrides'
  <2>1. LET r == job.rows[row]
        IN  /\ r.subject # Nothing => Request.subject = r.subject
            /\ r.tenant # Nothing => Request.tenant = r.tenant
      BY <1>2 DEF RowInv, LocalsOK, Obeys, Request
  <2>2. Request.row = row
      BY DEF Request
  <2>3. QED
      BY <1>1, <2>1, <2>2 DEF RowInv, RowOverrides
<1>10. QED
    BY <1>6, <1>7, <1>8, <1>9 DEF RowInv

-----------------------------------------------------------------------------
(* Files *)

FileType == [row : 1..MaxRows, tenant : Tenants, index : Field(Indexes),
             events : Seq(Event)]

LEMMA FileProperties ==
    ASSUME RowInv, pc = "write"
    PROVE  /\ File \in FileType
           /\ File.row = row /\ File.index = index
           /\ \A n \in 1..Len(events) : written < n /\ n <= written + Chunk =>
                /\ n - written \in 1..Chunk /\ n - written <= Len(File.events)
                /\ File.events[n - written] = events[n]
<1>1. /\ row \in 1..MaxRows /\ tenant \in Tenants /\ index \in Field(Indexes)
      /\ written \in Nat /\ written <= Len(events) /\ Len(events) \in Nat
      /\ events \in Seq(Event) /\ \A n \in 1..Len(events) : events[n] \in Event
    BY RowsAreRows, LenProperties, ElementOfSeq DEF RowInv, TypeOK, LocalsOK, Field
<1> DEFINE end == IF IsLast THEN Len(events) ELSE written + Chunk
           part == SubSeq(events, written + 1, end)
<1>2. /\ end \in Nat /\ end <= Len(events) /\ written <= end
      /\ \A n \in 1..Len(events) : n <= written + Chunk => n <= end
    BY <1>1 DEF IsLast
<1> HIDE DEF end
<1>3. \A n \in written + 1 .. end : events[n] \in Event
    BY <1>1, <1>2
<1>4. /\ part \in Seq(Event)
      /\ Len(part) = IF written + 1 <= end THEN end - (written + 1) + 1 ELSE 0
      /\ \A k \in 1 .. end - (written + 1) + 1 : part[k] = events[written + 1 + k - 1]
    BY <1>1, <1>2, <1>3, SubSeqProperties
<1> HIDE DEF part
<1>5. File = [row |-> row, tenant |-> tenant, index |-> index, events |-> part]
    BY DEF File, part, end
<1>6. ASSUME NEW n \in 1..Len(events), written < n, n <= written + Chunk
      PROVE  /\ n - written \in 1..Chunk /\ n - written <= Len(part)
             /\ part[n - written] = events[n]
  <2>1. n <= end /\ n - written \in 1..Chunk
      BY <1>1, <1>2, <1>6
  <2>2. n - written \in 1 .. end - (written + 1) + 1 /\ written + 1 <= end
      BY <1>1, <1>2, <1>6, <2>1
  <2>3. n - written <= Len(part)
      BY <1>1, <1>2, <1>4, <2>1, <2>2
  <2>4. written + 1 + (n - written) - 1 = n
      BY <1>1
  <2>5. QED
      BY <1>4, <2>1, <2>2, <2>3, <2>4
<1>7. QED
    BY <1>1, <1>4, <1>5, <1>6 DEF FileType

\* A chunk goes on with the next, or was the last.
LEMMA ChunkProperties ==
    ASSUME RowInv, NextChunk
    PROVE  /\ written' \in 0..Len(events) /\ pc' \in {"write", "next", "done"}
           /\ pc' = "write" <=> ~IsLast
BY LenProperties DEF RowInv, TypeOK, NextChunk, IsLast, Written

\* Writing changes the files only.
LEMMA WriteStep ==
    ASSUME RowInv, WriteChunk \/ WriteNothing \/ WriteOver \/ WriteFails
    PROVE  RowInv'
<1>1. /\ pc = "write" /\ WriteAside
      /\ faults' \in 0..MaxFaults
    BY FaultType DEF RowInv, WriteChunk, WriteNothing, WriteOver, WriteFails
<1>2. row \in 1..MaxRows /\ row >= 1 /\ Len(events) \in Nat
    BY <1>1, RowsAreRows, LenProperties DEF RowInv, TypeOK, LocalsOK
<1>3. spool \in Seq(FileType) /\ File \in FileType
    BY <1>1, FileProperties DEF RowInv, TypeOK, FileType
<1>4. /\ written' \in 0..Len(events) /\ pc' \in {"write", "next", "done"}
      /\ spool' \in Seq(FileType) /\ lost' \subseteq 1..MaxRows
  <2>1. CASE WriteChunk
    <3>1. spool' \in Seq(FileType)
        BY <1>3, <2>1, AppendProperties DEF WriteChunk
    <3>2. QED
        BY <2>1, <3>1, ChunkProperties DEF RowInv, TypeOK, WriteChunk
  <2>2. CASE WriteNothing
      BY <1>2, <1>3, <2>2 DEF RowInv, TypeOK, WriteNothing, Written, files
  <2>3. CASE WriteOver
    <3>1. PICK k \in 1..Len(spool) :
            spool' = Append(RemoveAt(spool, k), File) /\ lost' = lost \union {spool[k].row}
        BY <2>3 DEF WriteOver
    <3>2. RemoveAt(spool, k) \in Seq(FileType)
        BY <1>3, RemoveAtProperties
    <3>3. spool' \in Seq(FileType)
        BY <1>3, <3>1, <3>2, AppendProperties
    <3>4. spool[k].row \in 1..MaxRows
      <4>1. spool[k] \in FileType
          BY <1>3, ElementOfSeq
      <4>2. QED
          BY <4>1 DEF FileType
    <3>5. QED
        BY <2>3, <3>1, <3>3, <3>4, ChunkProperties DEF RowInv, TypeOK, WriteOver
  <2>4. CASE WriteFails
      BY <1>2, <1>3, <2>4 DEF RowInv, TypeOK, WriteFails, Written
  <2>5. QED
      BY <2>1, <2>2, <2>3, <2>4
<1>5. TypeOK'
    BY <1>1, <1>4 DEF RowInv, TypeOK, WriteAside, locals, history, FileType
<1>6. (LocalsOK /\ EventHasIdsOfRow /\ RowOverrides)'
    BY <1>1, <1>2, <1>4 DEF RowInv, LocalsOK, EventHasIdsOfRow, RowOverrides,
                           WriteAside, locals, history
<1>7. QED
    BY <1>5, <1>6 DEF RowInv

LEMMA RowStep == RowInv /\ [Next]_vars => RowInv'
<1> SUFFICES ASSUME RowInv, [Next]_vars
             PROVE  RowInv'
    OBVIOUS
<1>1. CASE LastRow
  <2>1. TypeOK'
      BY <1>1 DEF RowInv, TypeOK, LastRow, locals, files, history
  <2>2. (LocalsOK /\ EventHasIdsOfRow /\ RowOverrides)'
      BY <1>1 DEF RowInv, LocalsOK, EventHasIdsOfRow, RowOverrides, LastRow,
                  locals, history
  <2>3. QED
      BY <2>1, <2>2 DEF RowInv
<1>2. CASE Fails
  <2>1. TypeOK'
      BY <1>2, FaultType DEF RowInv, TypeOK, Fails, locals, files, history
  <2>2. (LocalsOK /\ EventHasIdsOfRow /\ RowOverrides)'
      BY <1>2 DEF RowInv, LocalsOK, EventHasIdsOfRow, RowOverrides, Fails,
                  locals, history
  <2>3. QED
      BY <2>1, <2>2 DEF RowInv
<1>3. CASE UNCHANGED vars
  <2>1. TypeOK'
      BY <1>3 DEF RowInv, TypeOK, vars, locals, files, history
  <2>2. (LocalsOK /\ EventHasIdsOfRow /\ RowOverrides)'
      BY <1>3 DEF RowInv, LocalsOK, EventHasIdsOfRow, RowOverrides, vars,
                  locals, history
  <2>3. QED
      BY <2>1, <2>2 DEF RowInv
<1>4. QED
    BY <1>1, <1>2, <1>3, NextRowStep, TokenStep, AskStep, WriteStep DEF Next

THEOREM RowsInvariant == Spec => []RowInv
BY InitRow, RowStep, PTL DEF Spec

\* Type correctness.
THEOREM TypeCorrect == Spec => []TypeOK
<1>1. RowInv => TypeOK
    BY DEF RowInv
<1>2. QED
    BY <1>1, RowsInvariant, PTL

\* Every event has the ids of its row.
THEOREM EventsHaveIds == Spec => []EventHasIdsOfRow
<1>1. RowInv => EventHasIdsOfRow
    BY DEF RowInv
<1>2. QED
    BY <1>1, RowsInvariant, PTL

\* What a row names is what its request is about.
THEOREM RowsOverride == Spec => []RowOverrides
<1>1. RowInv => RowOverrides
    BY DEF RowInv
<1>2. QED
    BY <1>1, RowsInvariant, PTL

-----------------------------------------------------------------------------
(* What the files hold *)

Holds(file, k, a) == k <= Len(file.events) /\ Answer(file.events[k]) = a

\* An event is in the list once, and was made of an answer to a request.
AnswersOK ==
    /\ \A m, n \in 1..Len(events) : Answer(events[m]) = Answer(events[n]) => m = n
    /\ \A n \in 1..Len(events) :
         /\ events[n].row <= row
         /\ pc \in {"token", "ask"} => events[n].row < row
    /\ \A a \in got : /\ a[1] \in applied /\ a[1] \in 1..row
                      /\ \E n \in 1..Len(events) : Answer(events[n]) = a

\* A file has the index of its row, and events that were there by then.
FileRow(file) ==
    /\ file.row \in 1..row
    /\ Obeys(file.index, job.rows[file.row].index)
    /\ file.row = row => file.index = index
    /\ pc \in {"token", "ask"} => file.row < row

Source(a, j, n) ==
    /\ Answer(events[n]) = a /\ events[n].row <= j
    /\ j = row /\ pc = "write" => n <= written

FileEvents(file) ==
    \A k \in 1..Chunk : k <= Len(file.events) =>
        \E n \in 1..Len(events) : Source(Answer(file.events[k]), file.row, n)

Once(s) ==
    \A f, g \in 1..Len(s) : \A k, l \in 1..Chunk :
        /\ s[f].row = s[g].row
        /\ k <= Len(s[f].events) /\ l <= Len(s[g].events)
        /\ Answer(s[f].events[k]) = Answer(s[g].events[l])
        => f = g /\ k = l

FilesOK ==
    /\ \A f \in 1..Len(spool) : FileRow(spool[f]) /\ FileEvents(spool[f])
    /\ Once(spool)

In(s, j, a) == \E f \in 1..Len(s) : \E k \in 1..Chunk :
                  s[f].row = j /\ Holds(s[f], k, a)

\* The events that the files of the row j have by now.
IsWritten(j, n) ==
    \/ Hunt /\ j < row /\ events[n].row <= j
    \/ Hunt /\ j = row /\ pc = "next"
    \/ Update /\ j = row /\ pc = "done" /\ applied # {}
    \/ j = row /\ pc = "write" /\ n <= written

ReportOK ==
    \A j \in (1..row) \ lost : \A n \in 1..Len(events) :
        IsWritten(j, n) => In(spool, j, Answer(events[n]))

\* The index is that of the last row that names one.
IndexOK ==
    \A i \in 1..row :
        LET own == job.rows[i].index
        IN  /\ own # Nothing
            /\ \A m \in i + 1 .. row : job.rows[m].index \in {own, Nothing}
            => index = own

\* A hunt has a query.  An update writes once, after the last row.
ActionOK ==
    /\ Hunt => subject # Nothing
    /\ pc \in {"next", "token", "ask"} => written = 0
    /\ Update /\ pc \in {"write", "done"} => row = Len(job.rows)
    /\ Update /\ pc # "done" /\ written = 0 => spool = <<>>

\* An update has asked for each row before, if that has an incident.
Incident(i) == Or(job.rows[i].subject, job.subject)
Settled(i) == Incident(i) = Nothing \/ i \in applied

UpdateOK ==
    Update => /\ pc \in {"token", "ask"} => subject = Incident(row)
              /\ pc # "failed" => \A i \in 1..row :
                   (i = row /\ pc \in {"token", "ask"}) \/ Settled(i)

ReportInv ==
    RowInv /\ AnswersOK /\ FilesOK /\ ReportOK /\ IndexOK /\ ActionOK /\ UpdateOK

LEMMA ReportTypes ==
    ASSUME RowInv
    PROVE  /\ row \in Nat /\ Len(job.rows) \in Nat /\ row <= Len(job.rows)
           /\ written \in Nat /\ Len(events) \in Nat /\ written <= Len(events)
           /\ Len(spool) \in Nat /\ spool \in Seq(FileType)
           /\ \A n \in 1..Len(events) : events[n] \in Event /\ events[n].row \in Nat
           /\ \A f \in 1..Len(spool) : spool[f] \in FileType /\ spool[f].row \in Nat
           /\ job \in Job /\ job.action \in {"update", "hunt"}
<1>1. spool \in Seq(FileType) /\ events \in Seq(Event) /\ job \in Job
    BY DEF RowInv, TypeOK, FileType
<1>2. /\ \A n \in 1..Len(events) : events[n] \in Event
      /\ \A f \in 1..Len(spool) : spool[f] \in FileType
      /\ Len(events) \in Nat /\ Len(spool) \in Nat
    BY <1>1, ElementOfSeq, LenProperties
<1>3. Len(job.rows) \in Nat /\ job.action \in {"update", "hunt"}
    BY <1>1, RowsAreRows DEF Job
<1>4. \A n \in 1..Len(events) : events[n].row \in Nat
    BY <1>2 DEF Event
<1>5. \A f \in 1..Len(spool) : spool[f].row \in Nat
    BY <1>2 DEF FileType
<1>6. row \in 0..Len(job.rows) /\ written \in 0..Len(events)
    BY DEF RowInv, TypeOK
<1>7. /\ row \in Nat /\ row <= Len(job.rows)
      /\ written \in Nat /\ written <= Len(events)
    BY ONLY <1>2, <1>3, <1>6
<1>8. QED
    BY ONLY <1>1, <1>2, <1>3, <1>4, <1>5, <1>7, Zenon

LEMMA InitReport == Init => ReportInv
<1> SUFFICES ASSUME Init
             PROVE  ReportInv
    OBVIOUS
<1>1. RowInv /\ row = 0 /\ Len(events) = 0 /\ Len(spool) = 0 /\ got = {} /\ written = 0
    BY InitRow DEF Init
<1>2. AnswersOK /\ FilesOK /\ ReportOK /\ IndexOK
    BY <1>1 DEF AnswersOK, FilesOK, Once, ReportOK, IndexOK
<1>3. ActionOK /\ UpdateOK
    BY <1>1 DEF Init, ActionOK, UpdateOK, Hunt, Update
<1>4. QED
    BY <1>1, <1>2, <1>3 DEF ReportInv

LEMMA NextRowReport ==
    ASSUME ReportInv, NextRow
    PROVE  ReportInv'
<1> DEFINE r == job.rows[row + 1]
<1>1. /\ RowInv' /\ row' = row + 1 /\ pc = "next" /\ pc' \in {"token", "failed"}
      /\ subject' = RowSubject(r) /\ index' = RowIndex(r)
      /\ UNCHANGED <<job, events, written, spool, lost, applied, got>>
    BY NextRowStep DEF ReportInv, NextRow, files, history
<1>2. /\ row \in Nat /\ Len(spool) \in Nat /\ Len(events) \in Nat
      /\ \A n \in 1..Len(events) : events[n].row \in Nat
      /\ \A f \in 1..Len(spool) : spool[f].row \in Nat
      /\ job.action \in {"update", "hunt"}
    BY ReportTypes DEF ReportInv
<1> HIDE DEF r
<1>3. AnswersOK'
    BY <1>1, <1>2 DEF ReportInv, AnswersOK, Answer
<1>4. FilesOK'
  <2>1. ASSUME NEW f \in 1..Len(spool)
        PROVE  FileRow(spool[f])' /\ FileEvents(spool[f])'
    <3>1. FileRow(spool[f]) /\ FileEvents(spool[f])
        BY DEF ReportInv, FilesOK
    <3>2. spool[f].row < row + 1 /\ spool[f].row \in 1 .. row + 1
        BY <1>2, <3>1 DEF FileRow
    <3>3. FileRow(spool[f])'
        BY <1>1, <3>1, <3>2 DEF FileRow, Obeys
    <3>4. \A n \in 1..Len(events) : \A a, j : Source(a, j, n) => Source(a, j, n)'
        BY <1>1 DEF Source
    <3>5. FileEvents(spool[f])'
        BY <1>1, <3>1, <3>4 DEF FileEvents
    <3>6. QED
        BY <3>3, <3>5
  <2>2. Once(spool')
      BY <1>1 DEF ReportInv, FilesOK
  <2>3. QED
      BY <1>1, <2>1, <2>2 DEF FilesOK
<1>5. ReportOK'
  <2>1. ASSUME NEW j \in (1 .. row + 1) \ lost, NEW n \in 1..Len(events),
               IsWritten(j, n)'
        PROVE  In(spool, j, Answer(events[n]))
    <3>1. Hunt /\ j < row + 1 /\ events[n].row <= j
        BY <1>1, <2>1 DEF IsWritten, Hunt
    <3>2. j \in (1..row) \ lost /\ (j < row \/ j = row)
        BY <1>2, <3>1
    <3>3. IsWritten(j, n)
        BY <1>1, <3>1, <3>2 DEF IsWritten
    <3>4. QED
        BY <3>2, <3>3 DEF ReportInv, ReportOK
  <2>2. QED
      BY <1>1, <2>1 DEF ReportOK
<1>6. IndexOK'
  <2> DEFINE named(i) == job.rows[i].index
  <2>1. ASSUME NEW i \in 1 .. row + 1, named(i) # Nothing,
               \A m \in i + 1 .. row + 1 : named(m) \in {named(i), Nothing}
        PROVE  index' = named(i)
    <3>1. CASE i = row + 1
        BY <1>1, <2>1, <3>1 DEF RowIndex, Or, r
    <3>2. CASE i # row + 1
      <4>1. i \in 1..row /\ row + 1 \in i + 1 .. row + 1
          BY <1>2, <3>2
      <4>2. \A m \in i + 1 .. row : m \in i + 1 .. row + 1
          BY <1>2
      <4>3. index = named(i)
          BY <2>1, <4>1, <4>2 DEF ReportInv, IndexOK
      <4>4. r.index \in {named(i), Nothing}
          BY <2>1, <4>1 DEF r
      <4>5. QED
          BY <1>1, <4>3, <4>4 DEF RowIndex, Or
    <3>3. QED
        BY <3>1, <3>2
  <2>2. QED
      BY <1>1, <2>1 DEF IndexOK
<1>7. ActionOK'
  <2>1. Hunt => subject' # Nothing
      BY <1>1 DEF ReportInv, ActionOK, RowSubject, Or
  <2>2. written' = 0 /\ (Update => spool' = <<>>)
      BY <1>1 DEF ReportInv, ActionOK
  <2>3. (Hunt' <=> Hunt) /\ (Update' <=> Update)
      BY <1>1 DEF Hunt, Update
  <2>4. ~(pc' \in {"write", "done"})
      BY <1>1
  <2>5. QED
      BY <2>1, <2>2, <2>3, <2>4 DEF ActionOK
<1>8. UpdateOK'
  <2>1. Update => subject' = Incident(row + 1)
      BY <1>1 DEF RowSubject, Update, Hunt, Incident, r
  <2>2. Update => \A i \in 1..row : Settled(i)
      BY <1>1 DEF ReportInv, UpdateOK
  <2>3. \A i \in 1 .. row + 1 : i \in 1..row \/ i = row + 1
      BY <1>2
  <2>4. /\ Update' <=> Update
        /\ \A i : Incident(i)' = Incident(i) /\ (Settled(i)' <=> Settled(i))
      BY <1>1, Zenon DEF Settled, Incident, Update
  <2>5. Update' /\ pc' # "failed" => \A i \in 1 .. row + 1 :
          (i = row + 1 /\ pc' \in {"token", "ask"}) \/ Settled(i)'
      BY <1>1, <2>2, <2>3, <2>4
  <2>6. Update' => subject' = Incident(row)'
      BY <1>1, <2>1, <2>4 DEF Incident
  <2>7. QED
      BY <1>1, <2>5, <2>6 DEF UpdateOK
<1>9. QED
    BY <1>1, <1>3, <1>4, <1>5, <1>6, <1>7, <1>8 DEF ReportInv

\* The steps that neither add events nor write them.
Quiet ==
    /\ UNCHANGED <<job, row, subject, index, events, written, spool, lost, got>>
    /\ applied \subseteq applied'
    /\ \/ pc' = pc /\ applied' = applied
       \/ pc \in {"next", "token", "ask", "write"} /\ pc' = "failed"
       \/ pc = "token" /\ pc' = IF subject = Nothing THEN "next" ELSE "ask"
       \/ pc = "next" /\ pc' = "write" /\ Update /\ row = Len(job.rows)
       \/ /\ pc = "next" /\ pc' = "done" /\ row = Len(job.rows)
          /\ Update => applied' = {}

LEMMA StepsAreQuiet ==
    ASSUME ReportInv,
           GetAccessToken \/ LastRow \/ Fails \/ AskFails \/ UNCHANGED vars
    PROVE  Quiet
<1>1. CASE GetAccessToken
    BY <1>1 DEF Quiet, GetAccessToken, locals, files, history
<1>2. CASE LastRow
    BY <1>2 DEF Quiet, LastRow, locals, files, history
<1>3. CASE Fails
    BY <1>3 DEF Quiet, Fails, locals, files, history
<1>4. CASE AskFails
    BY <1>4 DEF Quiet, AskFails, locals, files
<1>5. CASE UNCHANGED vars
    BY <1>5 DEF Quiet, vars, locals, files, history
<1>6. QED
    BY <1>1, <1>2, <1>3, <1>4, <1>5

LEMMA QuietReport ==
    ASSUME ReportInv, Quiet, RowInv'
    PROVE  ReportInv'
<1>1. /\ UNCHANGED <<job, row, subject, index, events, written, spool, lost, got>>
      /\ applied \subseteq applied'
    BY DEF Quiet
<1>2. /\ row \in Nat /\ Len(spool) \in Nat /\ Len(events) \in Nat
      /\ \A n \in 1..Len(events) : events[n].row \in Nat
      /\ job.action \in {"update", "hunt"}
    BY ReportTypes DEF ReportInv
<1>3. (Hunt' <=> Hunt) /\ (Update' <=> Update) /\ ~(Hunt /\ Update)
    BY <1>1 DEF Hunt, Update
<1>4. pc' \in {"token", "ask"} => pc \in {"token", "ask"}
    BY DEF Quiet
<1>5. AnswersOK'
    BY <1>1, <1>4 DEF ReportInv, AnswersOK, Answer
<1>6. FilesOK'
  <2>1. ASSUME NEW f \in 1..Len(spool)
        PROVE  FileRow(spool[f])' /\ FileEvents(spool[f])'
    <3>1. FileRow(spool[f]) /\ FileEvents(spool[f])
        BY DEF ReportInv, FilesOK
    <3>2. FileRow(spool[f])'
        BY <1>1, <1>4, <3>1 DEF FileRow, Obeys
    <3>3. pc' = "write" => pc = "write"
      <4>1. CASE pc = "next" /\ pc' = "write" /\ Update
        <5>1. spool = <<>>
            BY <4>1 DEF ReportInv, ActionOK
        <5>2. QED
            BY <5>1
      <4>2. QED
          BY <4>1 DEF Quiet
    <3>4. \A n \in 1..Len(events) : \A a, j : Source(a, j, n) => Source(a, j, n)'
        BY <1>1, <3>3 DEF Source
    <3>5. FileEvents(spool[f])'
        BY <1>1, <3>1, <3>4 DEF FileEvents
    <3>6. QED
        BY <3>2, <3>5
  <2>2. Once(spool')
      BY <1>1 DEF ReportInv, FilesOK
  <2>3. QED
      BY <1>1, <2>1, <2>2 DEF FilesOK
<1>7. ReportOK'
  <2>1. ASSUME NEW j \in (1..row) \ lost, NEW n \in 1..Len(events),
               IsWritten(j, n)'
        PROVE  IsWritten(j, n)
    <3>1. CASE pc' = pc /\ applied' = applied
        BY <1>1, <1>3, <2>1, <3>1 DEF IsWritten
    <3>2. CASE pc' \in {"failed", "ask"}
        BY <1>1, <1>3, <2>1, <3>2 DEF IsWritten
    <3>3. CASE pc = "token" /\ subject = Nothing
        BY <1>1, <1>3, <2>1, <3>3 DEF IsWritten, ReportInv, ActionOK, Quiet
    <3>4. CASE pc = "next" /\ pc' = "write"
      <4>1. ~(n <= written)
          BY <3>4 DEF ReportInv, ActionOK
      <4>2. QED
          BY <1>1, <1>3, <2>1, <3>4, <4>1 DEF IsWritten
    <3>5. CASE pc = "next" /\ pc' = "done" /\ (Update => applied' = {})
        BY <1>1, <1>3, <2>1, <3>5 DEF IsWritten
    <3>6. QED
        BY <3>1, <3>2, <3>3, <3>4, <3>5 DEF Quiet
  <2>2. QED
      BY <1>1, <2>1 DEF ReportInv, ReportOK
<1>8. IndexOK'
    BY <1>1 DEF ReportInv, IndexOK
<1>9. ActionOK'
  <2>1. written' = 0 \/ (pc' \notin {"next", "token", "ask"})
      BY <1>1 DEF ReportInv, ActionOK, Quiet
  <2>2. Update /\ pc' \in {"write", "done"} => row = Len(job.rows)
      BY DEF ReportInv, ActionOK, Quiet
  <2>3. Update /\ pc' # "done" /\ written = 0 => spool = <<>>
      BY DEF ReportInv, ActionOK, Quiet
  <2>4. QED
      BY <1>1, <1>3, <2>1, <2>2, <2>3 DEF ReportInv, ActionOK
<1>10. UpdateOK'
  <2>1. \A i : Incident(i)' = Incident(i) /\ (Settled(i) => Settled(i)')
      BY <1>1, Zenon DEF Settled, Incident
  <2>2. Update /\ pc' \in {"token", "ask"} => subject = Incident(row)
      BY <1>4 DEF ReportInv, UpdateOK
  <2>3. ASSUME Update, pc' # "failed", NEW i \in 1..row
        PROVE  (i = row /\ pc' \in {"token", "ask"}) \/ Settled(i)
    <3>1. (i = row /\ pc \in {"token", "ask"}) \/ Settled(i)
        BY <2>3 DEF ReportInv, UpdateOK, Quiet
    <3>2. CASE i = row /\ pc = "token" /\ subject = Nothing
        BY <2>3, <3>2 DEF ReportInv, UpdateOK, Settled
    <3>3. QED
        BY <2>3, <3>1, <3>2 DEF Quiet
  <2>4. Update' => subject' = Incident(row)' \/ pc' \notin {"token", "ask"}
      BY <1>1, <1>3, <2>2 DEF Incident
  <2>5. Update' /\ pc' # "failed" => \A i \in 1..row' :
          (i = row' /\ pc' \in {"token", "ask"}) \/ Settled(i)'
      BY <1>1, <1>3, <2>1, <2>3
  <2>6. QED
      BY <2>4, <2>5 DEF UpdateOK
<1>11. QED
    BY <1>5, <1>6, <1>7, <1>8, <1>9, <1>10 DEF ReportInv

LEMMA AskReport ==
    ASSUME ReportInv, Ask
    PROVE  ReportInv'
<1>1. /\ RowInv' /\ pc = "ask" /\ pc' = IF Hunt THEN "write" ELSE "next"
      /\ applied' = applied \union {row}
      /\ UNCHANGED <<job, row, subject, index, written, spool, lost>>
    BY AskStep DEF ReportInv, Ask, locals, files
<1>2. /\ row \in Nat /\ Len(spool) \in Nat /\ Len(events) \in Nat
      /\ \A n \in 1..Len(events) : events[n].row \in Nat
      /\ job.action \in {"update", "hunt"} /\ row >= 1
    BY <1>1, ReportTypes DEF ReportInv, RowInv, LocalsOK
<1>3. (Hunt' <=> Hunt) /\ (Update' <=> Update) /\ ~(Hunt /\ Update)
    BY <1>1 DEF Hunt, Update
<1>4. PICK c \in Answers :
        events' = events \o Parts(c) /\ got' = got \union {<<row, k>> : k \in 1..c}
    BY DEF Ask
<1>5. c \in 0..MaxAnswers
    BY DEF Answers
<1>6. /\ Parts(c) \in Seq(Event) /\ Len(Parts(c)) = c
      /\ \A k \in 1..c : Parts(c)[k] = [row |-> row, part |-> k, rid |-> row]
    BY <1>1, <1>5, PartsProperties DEF ReportInv
<1>7. /\ Len(events') = Len(events) + c
      /\ \A n \in 1..Len(events) : n \in 1..Len(events') /\ events'[n] = events[n]
      /\ \A k \in 1..c : /\ Len(events) + k \in 1..Len(events')
                         /\ Answer(events'[Len(events) + k]) = <<row, k>>
                         /\ events'[Len(events) + k].row = row
      /\ \A n \in 1..Len(events') :
           n \in 1..Len(events) \/ \E k \in 1..c : n = Len(events) + k
  <2>1. events \in Seq(Event)
      BY DEF ReportInv, RowInv, TypeOK
  <2>2. /\ Len(events') = Len(events) + c
        /\ \A n \in 1 .. Len(events) + c :
             events'[n] = IF n <= Len(events) THEN events[n]
                          ELSE Parts(c)[n - Len(events)]
      BY <1>4, <1>6, <2>1, ConcatProperties
  <2>3. \A n \in 1..Len(events) : n \in 1..Len(events') /\ events'[n] = events[n]
      BY <1>2, <1>5, <2>2
  <2>4. ASSUME NEW k \in 1..c
        PROVE  /\ Len(events) + k \in 1..Len(events')
               /\ events'[Len(events) + k] = [row |-> row, part |-> k, rid |-> row]
    <3>1. /\ Len(events) + k \in 1 .. Len(events) + c
          /\ ~(Len(events) + k <= Len(events))
          /\ (Len(events) + k) - Len(events) = k
        BY <1>2, <1>5
    <3>2. QED
        BY <1>6, <2>2, <3>1
  <2>5. ASSUME NEW n \in 1..Len(events'), n \notin 1..Len(events)
        PROVE  \E k \in 1..c : n = Len(events) + k
    <3>1. n - Len(events) \in 1..c /\ n = Len(events) + (n - Len(events))
        BY <1>2, <1>5, <2>2, <2>5
    <3>2. QED
        BY <3>1
  <2>6. \A k \in 1..c :
          /\ events'[Len(events) + k].row = row
          /\ Answer(events'[Len(events) + k]) = <<row, k>>
    <3>1. \A e, k : e = [row |-> row, part |-> k, rid |-> row] =>
                      e.row = row /\ Answer(e) = <<row, k>>
        BY DEF Answer
    <3>2. QED
        BY <2>4, <3>1, Zenon
  <2>7. QED
      BY <2>2, <2>3, <2>4, <2>5, <2>6
<1>8. \A n \in 1..Len(events) : Answer(events'[n]) = Answer(events[n])
    BY <1>7
<1>9. AnswersOK'
  <2>1. ASSUME NEW n \in 1..Len(events)
        PROVE  \A k : Answer(events[n]) # <<row, k>>
    <3>1. events[n].row < row
        BY <1>1, <2>1 DEF ReportInv, AnswersOK
    <3>2. QED
        BY <1>2, <3>1 DEF Answer
  <2>2. ASSUME NEW m \in 1..Len(events'), NEW n \in 1..Len(events'),
               Answer(events'[m]) = Answer(events'[n])
        PROVE  m = n
    <3>1. CASE m \in 1..Len(events) /\ n \in 1..Len(events)
        BY <1>8, <2>2, <3>1 DEF ReportInv, AnswersOK
    <3>2. CASE m \in 1..Len(events) /\ n \notin 1..Len(events)
        BY <1>7, <1>8, <2>1, <2>2, <3>2
    <3>3. CASE m \notin 1..Len(events) /\ n \in 1..Len(events)
        BY <1>7, <1>8, <2>1, <2>2, <3>3
    <3>4. CASE m \notin 1..Len(events) /\ n \notin 1..Len(events)
      <4>1. PICK k, l \in 1..c : m = Len(events) + k /\ n = Len(events) + l
          BY <1>7, <3>4
      <4>2. <<row, k>> = <<row, l>>
          BY <1>7, <2>2, <4>1
      <4>3. QED
          BY <4>1, <4>2
    <3>5. QED
        BY <3>1, <3>2, <3>3, <3>4
  <2>3. ASSUME NEW n \in 1..Len(events')
        PROVE  events'[n].row <= row
    <3>1. CASE n \in 1..Len(events)
        BY <1>7, <3>1 DEF ReportInv, AnswersOK
    <3>2. CASE n \notin 1..Len(events)
        BY <1>2, <1>7, <3>2
    <3>3. QED
        BY <3>1, <3>2
  <2>4. ASSUME NEW a \in got'
        PROVE  /\ a[1] \in applied' /\ a[1] \in 1..row
               /\ \E n \in 1..Len(events') : Answer(events'[n]) = a
    <3>1. CASE a \in got
      <4>1. /\ a[1] \in applied /\ a[1] \in 1..row
            /\ \E n \in 1..Len(events) : Answer(events[n]) = a
          BY <3>1 DEF ReportInv, AnswersOK
      <4>2. QED
          BY <1>1, <1>7, <1>8, <4>1
    <3>2. CASE \E k \in 1..c : a = <<row, k>>
      <4>1. PICK k \in 1..c : a = <<row, k>>
          BY <3>2
      <4>2. a[1] = row /\ row \in applied' /\ row \in 1..row
          BY <1>1, <1>2, <4>1
      <4>3. Len(events) + k \in 1..Len(events') /\ Answer(events'[Len(events) + k]) = a
          BY <1>7, <4>1
      <4>4. QED
          BY <4>2, <4>3
    <3>3. QED
        BY <1>4, <2>4, <3>1, <3>2
  <2>5. pc' \notin {"token", "ask"}
      BY <1>1
  <2>6. QED
      BY <1>1, <2>2, <2>3, <2>4, <2>5 DEF AnswersOK, Answer
<1>10. FilesOK'
  <2>1. ASSUME NEW f \in 1..Len(spool)
        PROVE  FileRow(spool[f])' /\ FileEvents(spool[f])'
    <3>1. FileRow(spool[f]) /\ FileEvents(spool[f])
        BY DEF ReportInv, FilesOK
    <3>2. spool[f].row < row /\ spool[f].row # row
        BY <1>1, <1>2, <3>1 DEF FileRow
    <3>3. FileRow(spool[f])'
        BY <1>1, <3>1, <3>2 DEF FileRow, Obeys
    <3>4. \A n \in 1..Len(events) : \A a :
            Source(a, spool[f].row, n) => Source(a, spool[f].row, n)'
        BY <1>1, <1>7, <3>2 DEF Source, Answer
    <3>5. FileEvents(spool[f])'
        BY <1>1, <1>7, <3>1, <3>4 DEF FileEvents
    <3>6. QED
        BY <3>3, <3>5
  <2>2. Once(spool')
      BY <1>1 DEF ReportInv, FilesOK
  <2>3. QED
      BY <1>1, <2>1, <2>2 DEF FilesOK
<1>11. ReportOK'
  <2>1. ASSUME NEW j \in (1..row) \ lost, NEW n \in 1..Len(events'),
               IsWritten(j, n)'
        PROVE  In(spool, j, Answer(events'[n]))
    <3>1. written = 0
        BY <1>1 DEF ReportInv, ActionOK
    <3>2. Hunt /\ j < row /\ events'[n].row <= j
        BY <1>1, <1>3, <2>1, <3>1 DEF IsWritten
    <3>3. n \in 1..Len(events)
      <4>1. events'[n].row # row
          BY <1>2, <3>2
      <4>2. QED
          BY <1>7, <4>1
    <3>4. IsWritten(j, n)
        BY <1>7, <3>2, <3>3 DEF IsWritten
    <3>5. In(spool, j, Answer(events[n]))
        BY <3>3, <3>4 DEF ReportInv, ReportOK
    <3>6. QED
        BY <1>8, <3>3, <3>5
  <2>2. QED
      BY <1>1, <2>1 DEF ReportOK
<1>12. IndexOK'
    BY <1>1 DEF ReportInv, IndexOK
<1>13. ActionOK'
    BY <1>1, <1>3 DEF ReportInv, ActionOK
<1>14. UpdateOK'
  <2>1. /\ \A i : Incident(i)' = Incident(i) /\ (Settled(i) => Settled(i)')
        /\ Settled(row)'
      BY <1>1 DEF Settled, Incident
  <2>2. Update => \A i \in 1..row : i = row \/ Settled(i)
      BY <1>1 DEF ReportInv, UpdateOK
  <2>3. QED
      BY <1>1, <1>3, <2>1, <2>2 DEF UpdateOK
<1>15. QED
    BY <1>1, <1>9, <1>10, <1>11, <1>12, <1>13, <1>14 DEF ReportInv

-----------------------------------------------------------------------------
(* Files that are written, fail, or take the place of another *)

\* t has the files of spool, in their order, but those of rows that are lost.
Kept(t) ==
    /\ t \in Seq(FileType)
    /\ \E at \in [1..Len(t) -> 1..Len(spool)] :
        /\ \A f, g \in 1..Len(t) : at[f] = at[g] => f = g
        /\ \A f \in 1..Len(t) : t[f] = spool[at[f]]
        /\ \A g \in 1..Len(spool) :
             spool[g].row \in lost' \/ \E f \in 1..Len(t) : at[f] = g

LEMMA AllKept ==
    ASSUME spool \in Seq(FileType)
    PROVE  Kept(spool)
<1> DEFINE at == [f \in 1..Len(spool) |-> f]
<1>1. at \in [1..Len(spool) -> 1..Len(spool)]
    OBVIOUS
<1>2. \A f \in 1..Len(spool) : at[f] = f
    OBVIOUS
<1> HIDE DEF at
<1>3. QED
    BY <1>1, <1>2 DEF Kept

LEMMA OneLost ==
    ASSUME spool \in Seq(FileType), NEW k \in 1..Len(spool), spool[k].row \in lost'
    PROVE  Kept(RemoveAt(spool, k))
<1> DEFINE t == RemoveAt(spool, k)
           at == [f \in 1 .. Len(spool) - 1 |-> IF f < k THEN f ELSE f + 1]
<1>1. /\ t \in Seq(FileType) /\ Len(t) = Len(spool) - 1 /\ Len(spool) \in Nat
      /\ \A f \in 1 .. Len(spool) - 1 :
           t[f] = IF f < k THEN spool[f] ELSE spool[f + 1]
    BY RemoveAtProperties, LenProperties
<1>2. \A f \in 1 .. Len(spool) - 1 : at[f] = IF f < k THEN f ELSE f + 1
    OBVIOUS
<1>3. at \in [1 .. Len(spool) - 1 -> 1..Len(spool)]
    BY <1>1
<1> HIDE DEF t, at
<1>4. \A f, g \in 1 .. Len(spool) - 1 : at[f] = at[g] => f = g
    BY <1>1, <1>2
<1>5. \A f \in 1 .. Len(spool) - 1 : t[f] = spool[at[f]]
    BY <1>1, <1>2
<1>6. ASSUME NEW g \in 1..Len(spool), g # k
      PROVE  \E f \in 1 .. Len(spool) - 1 : at[f] = g
  <2>1. CASE g < k
    <3>1. g \in 1 .. Len(spool) - 1 /\ at[g] = g
        BY <1>1, <1>2, <2>1
    <3>2. QED
        BY <3>1
  <2>2. CASE g > k
    <3>1. g - 1 \in 1 .. Len(spool) - 1 /\ at[g - 1] = g
        BY <1>1, <1>2, <2>2
    <3>2. QED
        BY <3>1
  <2>3. QED
      BY <1>1, <1>6, <2>1, <2>2
<1>7. \A g \in 1..Len(spool) :
        spool[g].row \in lost' \/ \E f \in 1 .. Len(spool) - 1 : at[f] = g
    BY <1>6
<1>8. Kept(t)
  <2>1. 1..Len(t) = 1 .. Len(spool) - 1 /\ t \in Seq(FileType)
      BY <1>1
  <2>2. /\ at \in [1..Len(t) -> 1..Len(spool)]
        /\ \A f, g \in 1..Len(t) : at[f] = at[g] => f = g
        /\ \A f \in 1..Len(t) : t[f] = spool[at[f]]
        /\ \A g \in 1..Len(spool) :
             spool[g].row \in lost' \/ \E f \in 1..Len(t) : at[f] = g
      BY <1>3, <1>4, <1>5, <1>7, <2>1, Zenon
  <2>3. QED
      BY <2>1, <2>2, Zenon DEF Kept
<1>9. QED
    BY <1>8 DEF t

\* The events that a file of the current row gets.
LEMMA FileHolds ==
    ASSUME ReportInv, pc = "write", NEW k \in 1..Chunk, k <= Len(File.events)
    PROVE  /\ written + k \in 1..Len(events)
           /\ written + k <= written + Chunk
           /\ Answer(File.events[k]) = Answer(events[written + k])
<1>1. /\ events \in Seq(Event) /\ Len(events) \in Nat /\ written \in Nat
      /\ written <= Len(events) /\ \A n \in 1..Len(events) : events[n] \in Event
    BY ReportTypes DEF ReportInv, RowInv, TypeOK
<1> DEFINE end == IF IsLast THEN Len(events) ELSE written + Chunk
<1>2. end \in Nat /\ end <= Len(events) /\ written <= end
    BY <1>1 DEF IsLast
<1> HIDE DEF end
<1>3. \A n \in written + 1 .. end : events[n] \in Event
    BY <1>1, <1>2
<1>4. File.events = SubSeq(events, written + 1, end)
    BY DEF File, end
<1>5. /\ Len(File.events) = IF written + 1 <= end THEN end - (written + 1) + 1 ELSE 0
      /\ \A i \in 1 .. end - (written + 1) + 1 :
           File.events[i] = events[written + 1 + i - 1]
    BY <1>1, <1>2, <1>3, <1>4, SubSeqProperties
<1>6. Len(File.events) = end - written
    BY <1>1, <1>2, <1>5
<1>7. k \in 1 .. end - (written + 1) + 1 /\ written + 1 + k - 1 = written + k
    BY <1>1, <1>2, <1>6
<1>8. File.events[k] = events[written + k]
    BY <1>5, <1>7
<1>9. QED
    BY <1>1, <1>2, <1>6, <1>8

\* One more file, with the next chunk of the events.
LEMMA ChunkReport ==
    ASSUME ReportInv, RowInv', pc = "write", events # <<>>, WriteAside, NextChunk,
           lost \subseteq lost', NEW t, Kept(t), spool' = Append(t, File)
    PROVE  ReportInv'
<1>1. /\ UNCHANGED <<job, row, subject, index, events, applied, got>>
      /\ written' = IF IsLast THEN 0 ELSE written + Chunk
      /\ pc' = IF IsLast THEN (IF Hunt THEN "next" ELSE "done") ELSE "write"
    BY DEF WriteAside, NextChunk, Written, locals, history
<1>2. /\ row \in Nat /\ Len(spool) \in Nat /\ Len(events) \in Nat /\ Chunk \in Nat \ {0}
      /\ written \in Nat /\ written <= Len(events) /\ row >= 1
      /\ \A n \in 1..Len(events) : events[n].row \in Nat
      /\ \A f \in 1..Len(spool) : spool[f].row \in Nat
      /\ job.action \in {"update", "hunt"}
    BY ReportTypes DEF ReportInv, RowInv, LocalsOK
<1>3. (Hunt' <=> Hunt) /\ (Update' <=> Update) /\ ~(Hunt /\ Update) /\ (Hunt \/ Update)
    BY <1>1, <1>2 DEF Hunt, Update
<1>4. PICK at \in [1..Len(t) -> 1..Len(spool)] :
        /\ \A f, g \in 1..Len(t) : at[f] = at[g] => f = g
        /\ \A f \in 1..Len(t) : t[f] = spool[at[f]]
        /\ \A g \in 1..Len(spool) :
             spool[g].row \in lost' \/ \E f \in 1..Len(t) : at[f] = g
    BY DEF Kept
<1>5. File \in FileType /\ File.row = row /\ File.index = index
    BY FileProperties DEF ReportInv
<1>6. /\ Len(t) \in Nat /\ Len(spool') = Len(t) + 1
      /\ \A f \in 1..Len(t) : spool'[f] = t[f]
      /\ spool'[Len(t) + 1] = File
    BY <1>5, AppendProperties, LenProperties DEF Kept
<1>7. \A f \in 1..Len(spool') : f \in 1..Len(t) \/ f = Len(t) + 1
    BY <1>6
<1>8. \A f \in 1..Len(t) : at[f] \in 1..Len(spool) /\ spool'[f] = spool[at[f]]
    BY <1>4, <1>6
<1>9. ASSUME NEW k \in 1..Chunk, k <= Len(File.events)
      PROVE  /\ written + k \in 1..Len(events)
             /\ written + k <= written + Chunk
             /\ Answer(File.events[k]) = Answer(events[written + k])
    BY <1>9, FileHolds
<1>10. AnswersOK'
    BY <1>1 DEF ReportInv, AnswersOK, Answer
<1>11. ASSUME NEW f \in 1..Len(spool')
       PROVE  FileRow(spool[f])' /\ FileEvents(spool[f])'
  <2>1. CASE f \in 1..Len(t)
    <3> DEFINE file == spool[at[f]]
    <3>1. FileRow(file) /\ FileEvents(file) /\ spool'[f] = file
        BY <1>8, <2>1 DEF ReportInv, FilesOK
    <3> HIDE DEF file
    <3>2. FileRow(spool[f])'
        BY <1>1, <3>1 DEF FileRow, Obeys
    <3>3. \A n \in 1..Len(events) : \A a, j : Source(a, j, n) => Source(a, j, n)'
      <4>1. pc' = "write" => written' = written + Chunk
          BY <1>1
      <4>2. \A n \in 1..Len(events) : n <= written => n <= written + Chunk
          BY <1>2
      <4>3. QED
          BY <1>1, <4>1, <4>2 DEF Source
    <3>4. FileEvents(spool[f])'
        BY <1>1, <3>1, <3>3 DEF FileEvents
    <3>5. QED
        BY <3>2, <3>4
  <2>2. CASE f = Len(t) + 1
    <3>1. spool'[f] = File
        BY <1>6, <2>2
    <3>2. FileRow(spool[f])'
        BY <1>1, <1>2, <1>5, <3>1 DEF FileRow, ReportInv, RowInv, LocalsOK
    <3>3. ASSUME NEW k \in 1..Chunk, k <= Len(spool'[f].events)
          PROVE  \E n \in 1..Len(events) :
                    Source(Answer(spool[f].events[k]), spool[f].row, n)'
      <4>1. /\ written + k \in 1..Len(events) /\ written + k <= written + Chunk
            /\ Answer(spool'[f].events[k]) = Answer(events[written + k])
          BY <1>9, <3>1, <3>3
      <4>2. PICK n \in 1..Len(events) : n = written + k
          BY <4>1
      <4>3. events[n].row <= row /\ (pc' = "write" => n <= written')
          BY <1>1, <4>1, <4>2 DEF ReportInv, AnswersOK
      <4>4. spool'[f].row = row
          BY <1>5, <3>1
      <4>5. Source(Answer(spool[f].events[k]), spool[f].row, n)'
          BY <1>1, <4>1, <4>2, <4>3, <4>4 DEF Source, Answer
      <4>6. QED
          BY <4>5
    <3>4. FileEvents(spool[f])'
        BY <1>1, <3>3 DEF FileEvents
    <3>5. QED
        BY <3>2, <3>4
  <2>3. QED
      BY <1>7, <2>1, <2>2
<1>12. Once(spool')
  <2> DEFINE Same(f, g, k, l) ==
               /\ spool'[f].row = spool'[g].row
               /\ k <= Len(spool'[f].events) /\ l <= Len(spool'[g].events)
               /\ Answer(spool'[f].events[k]) = Answer(spool'[g].events[l])
  <2>1. ASSUME NEW f \in 1..Len(t), NEW g \in 1..Len(t),
               NEW k \in 1..Chunk, NEW l \in 1..Chunk, Same(f, g, k, l)
        PROVE  f = g /\ k = l
    <3>0. /\ at[f] \in 1..Len(spool) /\ spool'[f] = spool[at[f]]
          /\ at[g] \in 1..Len(spool) /\ spool'[g] = spool[at[g]]
          /\ Once(spool)
        BY <1>8 DEF ReportInv, FilesOK
    <3> DEFINE i == at[f]
               j == at[g]
    <3> HIDE DEF i, j
    <3>1. /\ spool[i].row = spool[j].row
          /\ k <= Len(spool[i].events) /\ l <= Len(spool[j].events)
          /\ Answer(spool[i].events[k]) = Answer(spool[j].events[l])
        BY <2>1, <3>0 DEF i, j
    <3>2. i \in 1..Len(spool) /\ j \in 1..Len(spool)
        BY <3>0 DEF i, j
    <3>3. i = j /\ k = l
        BY <2>1, <3>0, <3>1, <3>2 DEF Once
    <3>4. at[f] = at[g]
        BY <3>3 DEF i, j
    <3>5. QED
        BY <1>4, <3>3, <3>4
  <2>2. ASSUME NEW f \in 1..Len(t), NEW k \in 1..Chunk, NEW l \in 1..Chunk,
               spool'[f].row = row, k <= Len(spool'[f].events),
               l <= Len(File.events)
        PROVE  Answer(spool'[f].events[k]) # Answer(File.events[l])
    <3>1. spool'[f] = spool[at[f]] /\ at[f] \in 1..Len(spool)
        BY <1>8
    <3>2. FileEvents(spool'[f])
        BY <3>1 DEF ReportInv, FilesOK
    <3>3. PICK n \in 1..Len(events) : Source(Answer(spool'[f].events[k]), row, n)
        BY <2>2, <3>2 DEF FileEvents
    <3>4. Answer(events[n]) = Answer(spool'[f].events[k]) /\ n <= written
        BY <3>3 DEF Source
    <3>5. n # written + l
        BY <1>2, <3>4
    <3>6. QED
        BY <1>9, <2>2, <3>4, <3>5 DEF ReportInv, AnswersOK
  <2>3. ASSUME NEW k \in 1..Chunk, NEW l \in 1..Chunk,
               k <= Len(File.events), l <= Len(File.events),
               Answer(File.events[k]) = Answer(File.events[l])
        PROVE  k = l
    <3>1. written + k = written + l
        BY <1>9, <2>3 DEF ReportInv, AnswersOK
    <3>2. QED
        BY <1>2, <3>1
  <2>4. ASSUME NEW f \in 1..Len(spool'), NEW g \in 1..Len(spool'),
               NEW k \in 1..Chunk, NEW l \in 1..Chunk, Same(f, g, k, l)
        PROVE  f = g /\ k = l
    <3>1. CASE f \in 1..Len(t) /\ g \in 1..Len(t)
        BY <2>1, <2>4, <3>1
    <3>2. CASE f \in 1..Len(t) /\ g = Len(t) + 1
        BY <1>5, <1>6, <2>2, <2>4, <3>2
    <3>3. CASE f = Len(t) + 1 /\ g \in 1..Len(t)
        BY <1>5, <1>6, <2>2, <2>4, <3>3
    <3>4. CASE f = Len(t) + 1 /\ g = Len(t) + 1
        BY <1>6, <2>3, <2>4, <3>4
    <3>5. QED
        BY <1>7, <3>1, <3>2, <3>3, <3>4
  <2>5. QED
      BY <2>4 DEF Once
<1>13. FilesOK'
    BY <1>11, <1>12 DEF FilesOK
<1>14. ReportOK'
  <2>1. ASSUME NEW j \in (1..row) \ lost', NEW n \in 1..Len(events),
               IsWritten(j, n)
        PROVE  In(spool', j, Answer(events[n]))
    <3>1. PICK g \in 1..Len(spool), k \in 1..Chunk :
            spool[g].row = j /\ Holds(spool[g], k, Answer(events[n]))
        BY <2>1 DEF ReportInv, ReportOK, In
    <3>2. PICK f \in 1..Len(t) : at[f] = g
        BY <1>4, <2>1, <3>1
    <3>3. f \in 1..Len(spool') /\ spool'[f] = spool[g]
        BY <1>6, <1>8, <3>2
    <3>4. QED
        BY <3>1, <3>3 DEF In
  <2>2. ASSUME NEW n \in 1..Len(events), written < n, n <= written + Chunk
        PROVE  In(spool', row, Answer(events[n]))
    <3> DEFINE k == n - written
    <3>1. /\ k \in 1..Chunk /\ k <= Len(File.events)
          /\ File.events[k] = events[n]
        BY <2>2, FileProperties DEF ReportInv
    <3>2. Len(t) + 1 \in 1..Len(spool')
        BY <1>6
    <3>3. Holds(File, k, Answer(events[n]))
        BY <3>1 DEF Holds
    <3> HIDE DEF k
    <3>4. QED
        BY <1>5, <1>6, <3>1, <3>2, <3>3 DEF In
  <2>3. ASSUME NEW j \in (1..row) \ lost', NEW n \in 1..Len(events),
               IsWritten(j, n)'
        PROVE  In(spool', j, Answer(events[n]))
    <3>1. CASE j < row
      <4>1. IsWritten(j, n)
          BY <1>1, <1>2, <1>3, <2>3, <3>1 DEF IsWritten
      <4>2. QED
          BY <2>1, <2>3, <4>1
    <3>2. CASE j = row /\ n <= written
        BY <2>1, <2>3, <3>2 DEF IsWritten
    <3>3. CASE j = row /\ written < n
      <4>1. n <= written + Chunk
        <5>1. CASE IsLast
            BY <1>2, <5>1 DEF IsLast
        <5>2. CASE ~IsLast
            BY <1>1, <1>2, <2>3, <3>3, <5>2 DEF IsWritten
        <5>3. QED
            BY <5>1, <5>2
      <4>2. QED
          BY <2>2, <2>3, <3>3, <4>1
    <3>4. j < row \/ (j = row /\ n <= written) \/ (j = row /\ written < n)
        BY <1>2
    <3>5. QED
        BY <3>1, <3>2, <3>3, <3>4
  <2>4. QED
      BY <1>1, <2>3 DEF ReportOK
<1>15. IndexOK'
    BY <1>1 DEF ReportInv, IndexOK
<1>16. ActionOK'
  <2>1. Hunt => subject # Nothing
      BY DEF ReportInv, ActionOK
  <2>2. Update => row = Len(job.rows)
      BY DEF ReportInv, ActionOK
  <2>3. pc' \in {"next", "token", "ask"} => written' = 0
      BY <1>1
  <2>4. Update /\ pc' # "done" => written' # 0
      BY <1>1, <1>2, <1>3
  <2>5. QED
      BY <1>1, <1>3, <2>1, <2>2, <2>3, <2>4 DEF ActionOK
<1>17. UpdateOK'
  <2>1. \A i : Incident(i)' = Incident(i) /\ (Settled(i)' <=> Settled(i))
      BY <1>1, Zenon DEF Settled, Incident
  <2>2. Update => \A i \in 1..row : Settled(i)
      BY DEF ReportInv, UpdateOK
  <2>3. pc' \notin {"token", "ask"}
      BY <1>1
  <2>4. QED
      BY <1>1, <1>3, <2>1, <2>2, <2>3 DEF UpdateOK
<1>18. QED
    BY <1>10, <1>13, <1>14, <1>15, <1>16, <1>17 DEF ReportInv

\* Nothing to write, or the rest given up.
LEMMA EndReport ==
    ASSUME ReportInv, RowInv', pc = "write", WriteAside, pc' = Written,
           written' = 0, spool' = spool, lost \subseteq lost',
           events = <<>> \/ row \in lost'
    PROVE  ReportInv'
<1>1. /\ UNCHANGED <<job, row, subject, index, events, applied, got, spool>>
      /\ pc' = IF Hunt THEN "next" ELSE "done"
    BY DEF WriteAside, Written, locals, history
<1>2. row \in Nat /\ job.action \in {"update", "hunt"}
    BY ReportTypes DEF ReportInv
<1>3. (Hunt' <=> Hunt) /\ (Update' <=> Update) /\ ~(Hunt /\ Update)
    BY <1>1 DEF Hunt, Update
<1>4. AnswersOK'
    BY <1>1 DEF ReportInv, AnswersOK, Answer
<1>5. FilesOK'
  <2>1. ASSUME NEW f \in 1..Len(spool)
        PROVE  FileRow(spool[f])' /\ FileEvents(spool[f])'
    <3>1. FileRow(spool[f]) /\ FileEvents(spool[f])
        BY DEF ReportInv, FilesOK
    <3>2. FileRow(spool[f])'
        BY <1>1, <3>1 DEF FileRow, Obeys
    <3>3. \A n \in 1..Len(events) : \A a, j : Source(a, j, n) => Source(a, j, n)'
        BY <1>1 DEF Source
    <3>4. FileEvents(spool[f])'
        BY <1>1, <3>1, <3>3 DEF FileEvents
    <3>5. QED
        BY <3>2, <3>4
  <2>2. Once(spool')
      BY <1>1 DEF ReportInv, FilesOK
  <2>3. QED
      BY <1>1, <2>1, <2>2 DEF FilesOK
<1>6. ReportOK'
  <2>1. ASSUME NEW j \in (1..row) \ lost', NEW n \in 1..Len(events),
               IsWritten(j, n)'
        PROVE  IsWritten(j, n)
    <3>1. j # row
        BY <2>1
    <3>2. QED
        BY <1>1, <1>3, <2>1, <3>1 DEF IsWritten
  <2>2. QED
      BY <1>1, <2>1 DEF ReportInv, ReportOK
<1>7. IndexOK'
    BY <1>1 DEF ReportInv, IndexOK
<1>8. ActionOK'
    BY <1>1, <1>2, <1>3 DEF ReportInv, ActionOK, Hunt, Update
<1>9. UpdateOK'
  <2>1. \A i : Incident(i)' = Incident(i) /\ (Settled(i)' <=> Settled(i))
      BY <1>1, Zenon DEF Settled, Incident
  <2>2. Update => \A i \in 1..row : Settled(i)
      BY DEF ReportInv, UpdateOK
  <2>3. pc' \notin {"token", "ask"}
      BY <1>1
  <2>4. QED
      BY <1>1, <1>3, <2>1, <2>2, <2>3 DEF UpdateOK
<1>10. QED
    BY <1>4, <1>5, <1>6, <1>7, <1>8, <1>9 DEF ReportInv

LEMMA ReportStep == ReportInv /\ [Next]_vars => ReportInv'
<1> SUFFICES ASSUME ReportInv, [Next]_vars
             PROVE  ReportInv'
    OBVIOUS
<1>1. RowInv'
    BY RowStep DEF ReportInv
<1>2. CASE GetAccessToken \/ LastRow \/ Fails \/ AskFails \/ UNCHANGED vars
    BY <1>1, <1>2, StepsAreQuiet, QuietReport
<1>3. CASE WriteChunk
  <2>1. Kept(spool)
      BY AllKept DEF ReportInv, RowInv, TypeOK, FileType
  <2>2. QED
      BY <1>1, <1>3, <2>1, ChunkReport DEF WriteChunk
<1>4. CASE WriteOver
  <2>1. PICK k \in 1..Len(spool) :
          spool' = Append(RemoveAt(spool, k), File) /\ lost' = lost \union {spool[k].row}
      BY <1>4 DEF WriteOver
  <2>2. Kept(RemoveAt(spool, k))
      BY <2>1, OneLost DEF ReportInv, RowInv, TypeOK, FileType
  <2>3. QED
      BY <1>1, <1>4, <2>1, <2>2, ChunkReport DEF WriteOver
<1>5. CASE WriteNothing
  <2>1. Len(events) = 0
      BY <1>5 DEF WriteNothing
  <2>2. written = 0
      BY <2>1, ReportTypes DEF ReportInv
  <2>3. QED
      BY <1>1, <1>5, <2>2, EndReport DEF WriteNothing, files
<1>6. CASE WriteFails
    BY <1>1, <1>6, EndReport DEF WriteFails
<1>7. QED
    BY <1>2, <1>3, <1>4, <1>5, <1>6, NextRowReport, AskReport DEF Next

THEOREM ReportInvariant == Spec => []ReportInv
BY InitReport, ReportStep, PTL DEF Spec

-----------------------------------------------------------------------------
(* What is reported *)

\* The source of an answer that was received.
LEMMA AnswerSource ==
    ASSUME ReportInv, NEW a \in got
    PROVE  /\ a[1] \in 1..row /\ a[1] \in applied
           /\ \E n \in 1..Len(events) : Answer(events[n]) = a /\ events[n].row = a[1]
<1>1. PICK n \in 1..Len(events) : Answer(events[n]) = a
    BY DEF ReportInv, AnswersOK
<1>2. events[n].row = a[1]
    BY <1>1 DEF Answer
<1>3. QED
    BY <1>1, <1>2 DEF ReportInv, AnswersOK

\* What is written to the files of a row is there in one place.
LEMMA OnePlace ==
    ASSUME ReportInv, NEW i \in (1..row) \ lost, NEW n \in 1..Len(events),
           IsWritten(i, n)
    PROVE  \E p \in (1..Len(spool)) \X (1..Chunk) : Places(Answer(events[n]), i) = {p}
<1> DEFINE a == Answer(events[n])
<1>1. PICK f \in 1..Len(spool), k \in 1..Chunk : spool[f].row = i /\ Holds(spool[f], k, a)
    BY DEF ReportInv, ReportOK, In
<1>2. <<f, k>> \in Places(a, i)
    BY <1>1 DEF Places, Holds
<1> HIDE DEF a
<1>3. ASSUME NEW p \in Places(a, i)
      PROVE  p = <<f, k>>
  <2>1. /\ p \in (1..Len(spool)) \X (1..Chunk)
        /\ spool[p[1]].row = i /\ Holds(spool[p[1]], p[2], a)
      BY <1>3 DEF Places, Holds
  <2>2. p[1] \in 1..Len(spool) /\ p[2] \in 1..Chunk /\ p = <<p[1], p[2]>>
      BY <2>1
  <2>3. Once(spool)
      BY DEF ReportInv, FilesOK
  <2>4. p[1] = f /\ p[2] = k
      BY <1>1, <2>1, <2>2, <2>3 DEF Once, Holds
  <2>5. QED
      BY <2>2, <2>4
<1>4. Places(a, i) = {<<f, k>>}
    BY <1>2, <1>3
<1>5. QED
    BY <1>4 DEF a

LEMMA HuntReport == ReportInv => HuntIsReported
<1> SUFFICES ASSUME ReportInv, Hunt, pc = "next", NEW i \in (1..row) \ lost, NEW a \in got
             PROVE  Cardinality(Places(a, i)) = IF a[1] <= i THEN 1 ELSE 0
    BY DEF HuntIsReported
<1>1. a[1] \in 1..row /\ row \in Nat
    BY AnswerSource, ReportTypes DEF ReportInv
<1>2. PICK n \in 1..Len(events) : Answer(events[n]) = a /\ events[n].row = a[1]
    BY AnswerSource
<1>3. CASE a[1] <= i
  <2>1. IsWritten(i, n)
      BY <1>1, <1>2, <1>3 DEF IsWritten
  <2>2. PICK p : Places(a, i) = {p}
      BY <1>2, <2>1, OnePlace
  <2>3. Cardinality({p}) = 1
      BY FS_Singleton
  <2>4. QED
      BY <1>3, <2>2, <2>3
<1>4. CASE ~(a[1] <= i)
  <2>1. ASSUME NEW p \in Places(a, i)
        PROVE  FALSE
    <3>1. /\ p[1] \in 1..Len(spool) /\ p[2] \in 1..Chunk
          /\ spool[p[1]].row = i /\ p[2] <= Len(spool[p[1]].events)
          /\ Answer(spool[p[1]].events[p[2]]) = a
        BY <2>1 DEF Places
    <3>2. FileEvents(spool[p[1]])
        BY <3>1 DEF ReportInv, FilesOK
    <3>3. PICK m \in 1..Len(events) : Source(a, i, m)
        BY <3>1, <3>2 DEF FileEvents
    <3>4. events[m].row = a[1] /\ events[m].row <= i
        BY <3>3 DEF Source, Answer
    <3>5. QED
        BY <1>4, <3>4
  <2>2. Places(a, i) = {}
      BY <2>1
  <2>3. QED
      BY <1>4, <2>2, FS_EmptySet
<1>5. QED
    BY <1>3, <1>4

LEMMA UpdateReport == ReportInv => UpdateIsReported
<1> SUFFICES ASSUME ReportInv, Update
             PROVE  UpdateIsReported
    BY DEF UpdateIsReported
<1>1. pc = "failed" /\ written = 0 => spool = <<>>
    BY DEF ReportInv, ActionOK
<1>2. ASSUME pc = "done", NEW i \in 1..Len(job.rows),
             Or(job.rows[i].subject, job.subject) # Nothing
      PROVE  i \in applied
    BY <1>2 DEF ReportInv, ActionOK, UpdateOK, Settled, Incident
<1>3. ASSUME pc = "done", lost = {}, NEW a \in got
      PROVE  Cardinality(Places(a, row)) = 1
  <2>1. a[1] \in 1..row /\ a[1] \in applied /\ row \in Nat
      BY AnswerSource, ReportTypes DEF ReportInv
  <2>2. PICK n \in 1..Len(events) : Answer(events[n]) = a
      BY AnswerSource
  <2>3. row \in (1..row) \ lost /\ IsWritten(row, n)
      BY <1>3, <2>1 DEF IsWritten
  <2>4. PICK p : Places(a, row) = {p}
      BY <2>2, <2>3, OnePlace
  <2>5. QED
      BY <2>4, FS_Singleton
<1>4. QED
    BY <1>1, <1>2, <1>3 DEF UpdateIsReported

LEMMA IndexReport == ReportInv => ReportedInIndexOfRow
<1> SUFFICES ASSUME ReportInv, NEW a \in got,
                    job.rows[a[1]].index # Nothing,
                    \/ Hunt /\ pc = "next" /\ a[1] \notin lost
                    \/ /\ Update /\ pc = "done" /\ lost = {}
                       /\ {job.rows[i].index : i \in a[1] + 1 .. Len(job.rows)}
                            \subseteq {job.rows[a[1]].index, Nothing}
             PROVE  \E i \in 1..row : \E p \in Places(a, i) :
                       spool[p[1]].index = job.rows[a[1]].index
    BY DEF ReportedInIndexOfRow
<1> DEFINE own == job.rows[a[1]].index
<1>1. a[1] \in 1..row /\ a[1] \in applied /\ row \in Nat
    BY AnswerSource, ReportTypes DEF ReportInv
<1>2. PICK n \in 1..Len(events) : Answer(events[n]) = a /\ events[n].row = a[1]
    BY AnswerSource
<1>3. ASSUME NEW i \in (1..row) \ lost, IsWritten(i, n)
      PROVE  \E p \in Places(a, i) : /\ p[1] \in 1..Len(spool)
                                     /\ spool[p[1]].row = i /\ FileRow(spool[p[1]])
  <2>1. PICK p \in (1..Len(spool)) \X (1..Chunk) : Places(a, i) = {p}
      BY <1>2, <1>3, OnePlace
  <2>2. p \in Places(a, i) /\ p[1] \in 1..Len(spool)
      BY <2>1
  <2>3. spool[p[1]].row = i /\ FileRow(spool[p[1]])
      BY <2>2 DEF Places, ReportInv, FilesOK
  <2>4. QED
      BY <2>2, <2>3
<1>4. CASE Hunt /\ pc = "next" /\ a[1] \notin lost
  <2>1. a[1] \in (1..row) \ lost /\ IsWritten(a[1], n)
      BY <1>1, <1>2, <1>4 DEF IsWritten
  <2>2. PICK p \in Places(a, a[1]) : spool[p[1]].row = a[1] /\ FileRow(spool[p[1]])
      BY <1>3, <2>1
  <2>3. spool[p[1]].index = own
      BY <2>2 DEF FileRow, Obeys
  <2>4. QED
      BY <1>1, <2>3
<1>5. CASE /\ Update /\ pc = "done" /\ lost = {}
           /\ {job.rows[i].index : i \in a[1] + 1 .. Len(job.rows)}
                \subseteq {own, Nothing}
  <2>1. row \in (1..row) \ lost /\ IsWritten(row, n) /\ row = Len(job.rows)
      BY <1>1, <1>5 DEF IsWritten, ReportInv, ActionOK
  <2>2. PICK p \in Places(a, row) : spool[p[1]].row = row /\ FileRow(spool[p[1]])
      BY <1>3, <2>1
  <2>3. \A m \in a[1] + 1 .. row : job.rows[m].index \in {own, Nothing}
      BY <1>5, <2>1
  <2>4. index = own
      BY <1>1, <2>3 DEF ReportInv, IndexOK
  <2>5. spool[p[1]].index = own
      BY <2>2, <2>4 DEF FileRow
  <2>6. QED
      BY <2>1, <2>5
<1>6. QED
    BY <1>4, <1>5

\* The files of each row of a hunt hold every answer so far once, whatever was lost
\* with the rows before.
THEOREM HuntsAreReported == Spec => []HuntIsReported
BY ReportInvariant, HuntReport, PTL

\* An update that ends well has updated every incident and reports it once.
THEOREM UpdatesAreReported == Spec => []UpdateIsReported
BY ReportInvariant, UpdateReport, PTL

\* What was answered for a row is in the index that the row names.
THEOREM AnswersReachTheirIndex == Spec => []ReportedInIndexOfRow
BY ReportInvariant, IndexReport, PTL
=============================================================================
