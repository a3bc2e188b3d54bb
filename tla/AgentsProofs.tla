---------------------------- MODULE AgentsProofs ----------------------------
(***************************************************************************)
(* Agents.tla for every number of budgets, trees, controllers and events.  *)
(*                                                                         *)
(* The log only grows, and what the replay accepts of it is a fact about   *)
(* the history: most lemmas are about a history h, accepted so far.        *)
(***************************************************************************)
EXTENDS Agents, FiniteSetTheorems, SequenceTheorems, TLAPS

-----------------------------------------------------------------------------
\* Histories.

Statuses == {"failed", "invalid", "proposed", "abstained"}

Events ==
    [kind : {"question"}, parent : Nat \cup {None}, by : {None}]
    \cup [kind : {"set"}, question : Nat, parent : Nat \cup {None}, by : Nat \cup {None}]
    \cup [kind : {"node"}, tree : Tree, by : Nat \cup {None}]
    \cup [kind : {"evidence"}, tree : Tree, spends : BOOLEAN, by : {None}]
    \cup [kind : {"request"}, task : {"hypotheses", "experiment"}, budget : Budget, question : Nat,
          set : Nat \cup {None}, tree : Tree \cup {None}, context : SUBSET Nat]
    \cup [kind : {"dispatch", "application"}, request : Nat]
    \cup [kind : {"response"}, request : Nat, status : Statuses]

\* An event refers to earlier ones of the right kind.
Refers(h, e) ==
    /\ e.kind = "question" => e.parent \in Of(h, "question") \cup {None}
    /\ e.kind = "set" => e.parent \in Of(h, "set") \cup {None} /\ e.question \in Of(h, "question")
    /\ e.kind = "request" =>
         /\ e.question \in Of(h, "question")
         /\ e.task = "experiment" =>
              e.tree \in Tree /\ e.set \in Of(h, "set") /\ h[e.set].question = e.question
    /\ e.kind \in {"dispatch", "response", "application"} => e.request \in Of(h, "request")

Sound(h) ==
    /\ h \in Seq(Events)
    /\ \A i \in DOMAIN h : LET before == SubSeq(h, 1, i - 1)
                           IN  Refers(before, h[i]) /\ Accepts(before, h[i])
    /\ \A b \in Budget : Cardinality(RequestsOf(h, b)) =< MaxCalls[b]

\* The history g goes on where h ends.
Extends(g, h) == DOMAIN h \subseteq DOMAIN g /\ \A i \in DOMAIN h : g[i] = h[i]

LEMMA Tuples ==
  ASSUME NEW S, NEW x \in S, NEW y \in S
  PROVE  << x >> \o << y >> = << x, y >> /\ Append(<< >>, x) = << x >>
<1>1. Append(<< >>, x) = << x >>
  <2> DEFINE one == << x >>
             s == Append(<< >>, x)
  <2>1. one \in Seq(S) /\ Len(one) = 1 /\ one[1] = x
    OBVIOUS
  <2>2. s \in Seq(S) /\ Len(s) = 1 /\ s[1] = x
    <3>1. << >> \in Seq(S) /\ Len(<< >>) = 0
      OBVIOUS
    <3> QED BY <3>1, AppendProperties
  <2> HIDE DEF one, s
  <2>3. \A i \in 1 .. 1 : one[i] = s[i]
    BY <2>1, <2>2
  <2>4. one = s
    BY <2>1, <2>2, <2>3, SeqEqual
  <2> QED BY <2>4 DEF one, s
<1>2. << x >> \o << y >> = << x, y >>
  <2> DEFINE two == << x, y >>
             s == << x >> \o << y >>
  <2>1. two \in Seq(S) /\ Len(two) = 2 /\ two[1] = x /\ two[2] = y
    OBVIOUS
  <2>2. << x >> \in Seq(S) /\ Len(<< x >>) = 1 /\ << x >>[1] = x
    OBVIOUS
  <2>3. s \in Seq(S) /\ Len(s) = 2 /\ s[1] = x /\ s[2] = y
    BY <2>2, AppendProperties, AppendIsConcat
  <2> HIDE DEF two, s
  <2>4. \A i \in 1 .. 2 : i = 1 \/ i = 2
    OBVIOUS
  <2>5. \A i \in 1 .. 2 : two[i] = s[i]
    BY <2>1, <2>3, <2>4
  <2>6. two = s
    BY <2>1, <2>3, <2>5, SeqEqual
  <2> QED BY <2>6 DEF two, s
<1> QED BY <1>1, <1>2

LEMMA AppendExtends ==
  ASSUME NEW h \in Seq(Events), NEW e \in Events
  PROVE  LET g == Append(h, e)
             n == Len(h)
         IN  /\ g \in Seq(Events) /\ Extends(g, h)
             /\ n \in Nat /\ DOMAIN h = 1 .. n /\ DOMAIN g = DOMAIN h \cup {n + 1}
             /\ n + 1 \notin DOMAIN h /\ g[n + 1] = e
             /\ \A i \in DOMAIN g : SubSeq(g, 1, i - 1) = SubSeq(h, 1, i - 1)
             /\ SubSeq(g, 1, n) = h
             /\ \A kind : Of(g, kind) = Of(h, kind) \cup (IF e.kind = kind THEN {n + 1} ELSE {})
<1> DEFINE g == Append(h, e)
           n == Len(h)
<1>1. /\ g \in Seq(Events) /\ n \in Nat /\ DOMAIN h = 1 .. n /\ DOMAIN g = 1 .. n + 1
      /\ g[n + 1] = e /\ \A i \in 1 .. n : g[i] = h[i]
  BY AppendProperties
<1> HIDE DEF g, n
<1>2. DOMAIN g = DOMAIN h \cup {n + 1} /\ n + 1 \notin DOMAIN h
  BY <1>1
<1>3. Extends(g, h)
  BY <1>1, <1>2 DEF Extends
<1>4. ASSUME NEW i \in DOMAIN g
      PROVE  SubSeq(g, 1, i - 1) = SubSeq(h, 1, i - 1)
  <2>1. \A k \in 1 .. i - 1 : k \in 1 .. n /\ k \in 1 .. n + 1 /\ (i - 1) - 1 + 1 = i - 1
        /\ 1 + k - 1 = k
    BY <1>1
  <2> SUFFICES ASSUME 1 =< i - 1
               PROVE  SubSeq(g, 1, i - 1) = SubSeq(h, 1, i - 1)
    <3>1. i - 1 < 1 => SubSeq(g, 1, i - 1) = << >> /\ SubSeq(h, 1, i - 1) = << >>
      BY <1>1, SubSeqEmpty
    <3> QED BY <1>1, <3>1
  <2>2. /\ SubSeq(g, 1, i - 1) \in Seq(Events) /\ Len(SubSeq(g, 1, i - 1)) = i - 1
        /\ \A k \in 1 .. i - 1 : SubSeq(g, 1, i - 1)[k] = g[k]
    BY <1>1, SubSeqProperties
  <2>3. /\ SubSeq(h, 1, i - 1) \in Seq(Events) /\ Len(SubSeq(h, 1, i - 1)) = i - 1
        /\ \A k \in 1 .. i - 1 : SubSeq(h, 1, i - 1)[k] = h[k]
    BY <1>1, SubSeqProperties DEF n
  <2>4. \A k \in 1 .. i - 1 : g[k] = h[k]
    BY <1>1, <2>1
  <2> QED BY <2>2, <2>3, <2>4, SeqEqual
<1>5. SubSeq(g, 1, n) = h
  <2>1. PICK i \in DOMAIN g : i = n + 1
    BY <1>2
  <2>2. SubSeq(g, 1, i - 1) = SubSeq(h, 1, i - 1) /\ i - 1 = n
    BY <1>1, <1>4, <2>1
  <2>3. SubSeq(h, 1, n) = h
    BY SubSeqFull DEF n
  <2> QED BY <2>2, <2>3
<1>6. ASSUME NEW kind
      PROVE  Of(g, kind) = Of(h, kind) \cup (IF e.kind = kind THEN {n + 1} ELSE {})
  BY <1>1, <1>2 DEF Of
<1> QED BY <1>1, <1>2, <1>3, <1>4, <1>5, <1>6 DEF g, n

\* An accepted event that refers to earlier ones keeps the history sound.
LEMMA SoundGrows ==
  ASSUME NEW h, Sound(h), NEW e \in Events, Refers(h, e), Accepts(h, e)
  PROVE  Sound(Append(h, e)) /\ Extends(Append(h, e), h)
<1> DEFINE g == Append(h, e)
           n == Len(h)
<1>1. /\ h \in Seq(Events)
      /\ \A i \in DOMAIN h : Refers(SubSeq(h, 1, i - 1), h[i]) /\ Accepts(SubSeq(h, 1, i - 1), h[i])
      /\ \A b \in Budget : Cardinality(RequestsOf(h, b)) =< MaxCalls[b]
  BY DEF Sound
<1>2. /\ g \in Seq(Events) /\ Extends(g, h)
      /\ n \in Nat /\ DOMAIN h = 1 .. n /\ DOMAIN g = DOMAIN h \cup {n + 1}
      /\ n + 1 \notin DOMAIN h /\ g[n + 1] = e
      /\ \A i \in DOMAIN g : SubSeq(g, 1, i - 1) = SubSeq(h, 1, i - 1)
      /\ SubSeq(g, 1, n) = h
      /\ \A kind : Of(g, kind) = Of(h, kind) \cup (IF e.kind = kind THEN {n + 1} ELSE {})
  BY <1>1, AppendExtends
<1> HIDE DEF g, n
<1>3. \A i \in DOMAIN h : g[i] = h[i]
  BY <1>2 DEF Extends
<1>4. ASSUME NEW i \in DOMAIN g
      PROVE  Refers(SubSeq(g, 1, i - 1), g[i]) /\ Accepts(SubSeq(g, 1, i - 1), g[i])
  <2>1. CASE i \in DOMAIN h
    BY <1>1, <1>2, <1>3, <2>1
  <2>2. CASE i = n + 1
    <3>1. i - 1 = n
      BY <1>2, <2>2
    <3> QED BY <1>2, <2>2, <3>1
  <2> QED BY <1>2, <2>1, <2>2
<1>5. ASSUME NEW b \in Budget
      PROVE  Cardinality(RequestsOf(g, b)) =< MaxCalls[b]
  <2>1. RequestsOf(g, b) = RequestsOf(h, b) \cup
          (IF e.kind = "request" /\ e.budget = b THEN {n + 1} ELSE {})
    BY <1>2, <1>3 DEF RequestsOf, Of
  <2>2. IsFiniteSet(RequestsOf(h, b)) /\ n + 1 \notin RequestsOf(h, b)
    <3>1. RequestsOf(h, b) \subseteq 1 .. n /\ IsFiniteSet(1 .. n)
      BY <1>2, FS_Interval DEF RequestsOf, Of
    <3> QED BY <1>2, <3>1, FS_Subset
  <2>3. MaxCalls[b] \in Nat /\ Cardinality(RequestsOf(h, b)) \in Nat
    BY <2>2, FS_CardinalityType, AgentsAssumption
  <2>4. CASE e.kind = "request" /\ e.budget = b
    <3>1. Cardinality(RequestsOf(h, b)) < MaxCalls[b]
      BY <2>4 DEF Accepts, WithinBudget
    <3>2. Cardinality(RequestsOf(g, b)) = Cardinality(RequestsOf(h, b)) + 1
      BY <2>1, <2>2, <2>4, FS_AddElement
    <3> QED BY <2>3, <3>1, <3>2
  <2> QED BY <1>1, <2>1, <2>4
<1> QED BY <1>2, <1>4, <1>5 DEF Sound, g

-----------------------------------------------------------------------------
\* What sound histories have in common.

LEMMA PrefixOf ==
  ASSUME NEW h \in Seq(Events), NEW m \in Nat, m =< Len(h)
  PROVE  LET p == SubSeq(h, 1, m)
         IN  /\ p \in Seq(Events) /\ Len(p) = m /\ DOMAIN p = 1 .. m /\ Extends(h, p)
             /\ \A kind : Of(p, kind) = {i \in Of(h, kind) : i =< m}
             /\ \A kind, r : Steps(p, kind, r) = {i \in Steps(h, kind, r) : i =< m}
<1> DEFINE p == SubSeq(h, 1, m)
<1>1. DOMAIN h = 1 .. Len(h) /\ Len(h) \in Nat
  OBVIOUS
<1>2. /\ p \in Seq(Events) /\ Len(p) = m /\ DOMAIN p = 1 .. m
      /\ \A i \in 1 .. m : p[i] = h[i]
  <2>1. CASE m = 0
    <3>1. p = << >>
      BY <2>1, SubSeqEmpty
    <3> QED BY <2>1, <3>1
  <2>2. CASE m # 0
    <3>1. 1 \in 1 .. Len(h) + 1 /\ m \in 1 - 1 .. Len(h)
      BY <1>1, <2>2
    <3>2. /\ p \in Seq(Events) /\ Len(p) = (IF 1 =< m THEN m - 1 + 1 ELSE 0)
          /\ \A i \in 1 .. m - 1 + 1 : p[i] = h[1 + i - 1]
      BY <1>1, <2>2, SubSeqProperties
    <3> QED BY <2>2, <3>2
  <2> QED BY <2>1, <2>2
<1> HIDE DEF p
<1>3. Extends(h, p)
  BY <1>1, <1>2 DEF Extends
<1>4. ASSUME NEW kind
      PROVE  Of(p, kind) = {i \in Of(h, kind) : i =< m}
  BY <1>1, <1>2 DEF Of
<1>5. ASSUME NEW kind, NEW r
      PROVE  Steps(p, kind, r) = {i \in Steps(h, kind, r) : i =< m}
  BY <1>1, <1>2, <1>4 DEF Steps, Of
<1> QED BY <1>2, <1>3, <1>4, <1>5 DEF p

LEMMA SoundEvent ==
  ASSUME NEW h, Sound(h), NEW i \in DOMAIN h
  PROVE  LET p == SubSeq(h, 1, i - 1)
         IN  /\ i \in Nat /\ i >= 1 /\ i =< Len(h)
             /\ p \in Seq(Events) /\ Len(p) = i - 1 /\ DOMAIN p = 1 .. i - 1 /\ Extends(h, p)
             /\ \A kind : Of(p, kind) = {j \in Of(h, kind) : j < i}
             /\ \A kind, r : Steps(p, kind, r) = {j \in Steps(h, kind, r) : j < i}
             /\ Refers(p, h[i]) /\ Accepts(p, h[i])
<1>1. h \in Seq(Events) /\ Refers(SubSeq(h, 1, i - 1), h[i]) /\ Accepts(SubSeq(h, 1, i - 1), h[i])
  BY DEF Sound
<1>2. i \in Nat /\ i >= 1 /\ i =< Len(h) /\ Len(h) \in Nat
  BY <1>1
<1> DEFINE m == i - 1
           p == SubSeq(h, 1, m)
<1>3. m \in Nat /\ m =< Len(h)
  BY <1>2
<1> HIDE DEF m
<1>4. /\ p \in Seq(Events) /\ Len(p) = m /\ DOMAIN p = 1 .. m /\ Extends(h, p)
      /\ \A kind : Of(p, kind) = {j \in Of(h, kind) : j =< m}
      /\ \A kind, r : Steps(p, kind, r) = {j \in Steps(h, kind, r) : j =< m}
  BY <1>1, <1>3, PrefixOf
<1>5. \A j \in DOMAIN h : j =< m <=> j < i
  BY <1>1, <1>2 DEF m
<1>6. \A kind : Of(p, kind) = {j \in Of(h, kind) : j < i}
  BY <1>4, <1>5 DEF Of
<1>7. \A kind, r : Steps(p, kind, r) = {j \in Steps(h, kind, r) : j < i}
  BY <1>4, <1>5 DEF Steps, Of
<1> QED BY <1>1, <1>2, <1>4, <1>6, <1>7 DEF m

\* A request is dispatched once and answered once.
LEMMA OneEach ==
  ASSUME NEW h, Sound(h), NEW kind \in {"dispatch", "response"},
         NEW i \in Of(h, kind), NEW j \in Of(h, kind), h[i].request = h[j].request
  PROVE  i = j
<1>1. ASSUME NEW k \in Of(h, kind), NEW m \in Of(h, kind), h[k].request = h[m].request, k < m
      PROVE  FALSE
  <2>1. m \in DOMAIN h /\ h[m].kind = kind
    BY DEF Of
  <2> DEFINE p == SubSeq(h, 1, m - 1)
  <2>2. Accepts(p, h[m]) /\ Steps(p, kind, h[m].request) = {x \in Steps(h, kind, h[m].request) : x < m}
    BY <2>1, SoundEvent
  <2> HIDE DEF p
  <2>3. Steps(p, kind, h[m].request) = {}
    BY <2>1, <2>2 DEF Accepts, Reached
  <2>4. k \in Steps(h, kind, h[m].request)
    BY <1>1 DEF Steps
  <2> QED BY <1>1, <2>2, <2>3, <2>4
<1>2. i \in Nat /\ j \in Nat
  BY SoundEvent DEF Of
<1> QED BY <1>1, <1>2

LEMMA DispatchIs ==
  ASSUME NEW h, Sound(h), NEW r, Reached(h, "dispatch", r)
  PROVE  /\ DispatchOf(h, r) \in Of(h, "dispatch") /\ h[DispatchOf(h, r)].request = r
         /\ \A d \in Steps(h, "dispatch", r) : d = DispatchOf(h, r)
<1>1. DispatchOf(h, r) \in Steps(h, "dispatch", r)
  BY DEF Reached, DispatchOf
<1>2. \A d, e \in Steps(h, "dispatch", r) : d = e
  BY OneEach DEF Steps
<1> QED BY <1>1, <1>2 DEF Steps

LEMMA DispatchLasts ==
  ASSUME NEW h, Sound(h), NEW g, Sound(g), Extends(g, h), NEW r, Reached(h, "dispatch", r)
  PROVE  Reached(g, "dispatch", r) /\ DispatchOf(g, r) = DispatchOf(h, r)
<1>1. DispatchOf(h, r) \in Of(h, "dispatch") /\ h[DispatchOf(h, r)].request = r
  BY DispatchIs
<1>2. DispatchOf(h, r) \in Steps(g, "dispatch", r)
  BY <1>1 DEF Extends, Of, Steps
<1> QED BY <1>2, DispatchIs DEF Reached

\* An answer follows the dispatch, and the dispatch the request.
LEMMA Order ==
  ASSUME NEW h, Sound(h), NEW i \in Of(h, "response")
  PROVE  /\ Reached(h, "dispatch", h[i].request) /\ DispatchOf(h, h[i].request) < i
         /\ h[i].request \in Of(h, "request") /\ h[i].request < i /\ i \in Nat /\ h[i].request \in Nat
<1>1. i \in DOMAIN h /\ h[i].kind = "response" /\ i \in Nat
  BY SoundEvent DEF Of
<1> DEFINE p == SubSeq(h, 1, i - 1)
           r == h[i].request
<1>2. /\ Accepts(p, h[i]) /\ Refers(p, h[i])
      /\ \A kind : Of(p, kind) = {j \in Of(h, kind) : j < i}
      /\ \A kind, x : Steps(p, kind, x) = {j \in Steps(h, kind, x) : j < i}
  BY <1>1, SoundEvent
<1> HIDE DEF p, r
<1>3. Reached(p, "dispatch", r) /\ r \in Of(p, "request")
  BY <1>1, <1>2 DEF Accepts, Refers, r
<1>4. PICK d \in Steps(h, "dispatch", r) : d < i
  BY <1>2, <1>3 DEF Reached
<1>5. Reached(h, "dispatch", r) /\ d = DispatchOf(h, r)
  BY <1>4, DispatchIs DEF Reached
<1>6. r \in Of(h, "request") /\ r < i
  BY <1>2, <1>3
<1>7. r \in Nat
  BY <1>6, SoundEvent DEF Of
<1> QED BY <1>1, <1>4, <1>5, <1>6, <1>7 DEF r

\* What a history was before an application, and what the request was then.
LEMMA Application ==
  ASSUME NEW h, Sound(h), NEW a \in Of(h, "application")
  PROVE  \E n \in Nat :
           LET r == h[a].request
               m == SubSeq(h, 1, n)
           IN
             /\ n = a - 2
             /\ a \in Nat /\ n \in Nat /\ r \in Of(h, "request") /\ r \in Nat /\ r =< n
             /\ m \in Seq(Events) /\ Extends(h, m) /\ DOMAIN m = 1 .. n
             /\ \A kind : Of(m, kind) = {j \in Of(h, kind) : j =< n}
             /\ \A kind, x : Steps(m, kind, x) = {j \in Steps(h, kind, x) : j =< n}
             /\ Status(m, r) = "proposed" /\ Unchanged(m, r) /\ m[r] = h[r]
             /\ \E i \in Steps(h, "response", r) : i =< n
<1> DEFINE p == SubSeq(h, 1, a - 1)
           r == h[a].request
<1>0. a \in DOMAIN h /\ h[a].kind = "application" /\ h \in Seq(Events)
  BY DEF Of, Sound
<1>1. /\ a \in Nat /\ a >= 1 /\ a =< Len(h) /\ p \in Seq(Events) /\ Len(p) = a - 1
      /\ Accepts(p, h[a]) /\ Extends(h, p)
      /\ \A kind : Of(p, kind) = {j \in Of(h, kind) : j < a}
      /\ \A kind, x : Steps(p, kind, x) = {j \in Steps(h, kind, x) : j < a}
  BY <1>0, SoundEvent
<1> HIDE DEF p, r
<1>2. Status(SubSeq(p, 1, Len(p) - 1), r) = "proposed" /\ Unchanged(SubSeq(p, 1, Len(p) - 1), r)
  BY <1>0, <1>1 DEF Accepts, r
<1>3. a # 1
  <2> SUFFICES ASSUME a = 1
               PROVE  FALSE
    OBVIOUS
  <2>1. SubSeq(p, 1, Len(p) - 1) = << >>
    BY <1>1, SubSeqEmpty
  <2>2. \A kind, x : ~Reached(<< >>, kind, x)
    BY DEF Reached, Steps, Of
  <2> QED BY <1>2, <2>1, <2>2 DEF Status
<1> DEFINE n == a - 2
<1>4. n \in Nat /\ n =< Len(p) /\ Len(p) - 1 = n /\ Len(h) \in Nat /\ n =< Len(h) /\ n < a
  BY <1>0, <1>1, <1>3
<1>5. SubSeq(p, 1, n) = SubSeq(h, 1, n)
  <2>1. /\ SubSeq(p, 1, n) \in Seq(Events) /\ Len(SubSeq(p, 1, n)) = n
        /\ DOMAIN SubSeq(p, 1, n) = 1 .. n /\ Extends(p, SubSeq(p, 1, n))
    BY <1>1, <1>4, PrefixOf
  <2>2. /\ SubSeq(h, 1, n) \in Seq(Events) /\ Len(SubSeq(h, 1, n)) = n
        /\ DOMAIN SubSeq(h, 1, n) = 1 .. n /\ Extends(h, SubSeq(h, 1, n))
    BY <1>0, <1>4, PrefixOf
  <2>3. \A i \in 1 .. n : SubSeq(p, 1, n)[i] = SubSeq(h, 1, n)[i]
    BY <1>1, <2>1, <2>2 DEF Extends
  <2> QED BY <2>1, <2>2, <2>3, SeqEqual
<1> DEFINE m == SubSeq(h, 1, n)
<1>6. Status(m, r) = "proposed" /\ Unchanged(m, r)
  BY <1>2, <1>4, <1>5
<1>7. /\ m \in Seq(Events) /\ Extends(h, m) /\ DOMAIN m = 1 .. n
      /\ \A kind : Of(m, kind) = {j \in Of(h, kind) : j =< n}
      /\ \A kind, x : Steps(m, kind, x) = {j \in Steps(h, kind, x) : j =< n}
  BY <1>0, <1>4, PrefixOf
<1> HIDE DEF m
<1>8. PICK i \in Steps(h, "response", r) : i =< n
  BY <1>6, <1>7 DEF Status, Reached
<1>9. r \in Of(h, "request") /\ r < i /\ r \in Nat /\ i \in Nat
  BY <1>8, Order DEF Steps
<1>10. r =< n
  BY <1>4, <1>8, <1>9
<1>11. m[r] = h[r]
  <2>1. r \in Of(m, "request")
    BY <1>7, <1>9, <1>10
  <2> QED BY <1>7, <2>1 DEF Extends, Of
<1>12. n = a - 2
  OBVIOUS
<1> HIDE DEF n
<1> WITNESS n \in Nat
<1> QED BY <1>1, <1>4, <1>6, <1>7, <1>8, <1>9, <1>10, <1>11, <1>12 DEF m, r

\* What the replay accepts was applied to what the model was shown.
LEMMA SoundIsUnchanged ==
  ASSUME Sound(log)
  PROVE  AppliedToUnchanged
<1> SUFFICES ASSUME NEW a \in Of(log, "application"),
                    NEW i \in DOMAIN log, log[a].request < i, i < a - 1
             PROVE  LET q == log[log[a].request]
                    IN  /\ i \in Of(log, "question") \cup Of(log, "set") =>
                             log[i].parent \notin {q.question} \cup
                                 (IF q.task = "experiment" THEN {q.set} ELSE {})
                        /\ q.task = "experiment" => i \notin Seen(log, q.tree)
  BY DEF AppliedToUnchanged
<1> DEFINE r == log[a].request
           q == log[r]
<1>0. PICK n \in Nat :
        LET m == SubSeq(log, 1, n)
        IN  /\ n = a - 2
            /\ a \in Nat /\ r \in Of(log, "request") /\ r \in Nat /\ r =< n
            /\ Extends(log, m) /\ DOMAIN m = 1 .. n
            /\ \A kind : Of(m, kind) = {j \in Of(log, kind) : j =< n}
            /\ Unchanged(m, r) /\ m[r] = q
  BY Application
<1> DEFINE m == SubSeq(log, 1, n)
           p == SubSeq(log, 1, r - 1)
<1>1. /\ a \in Nat /\ n \in Nat /\ r \in Of(log, "request") /\ r \in Nat /\ r =< n
      /\ Extends(log, m) /\ DOMAIN m = 1 .. n
      /\ \A kind : Of(m, kind) = {j \in Of(log, kind) : j =< n}
      /\ Unchanged(m, r) /\ m[r] = q
  BY <1>0
<1>2. i \in Nat /\ r < i /\ i =< n
  <2>1. i \in Nat
    BY SoundEvent
  <2> QED BY <1>0, <1>1, <2>1
<1>3. r \in DOMAIN log /\ q.kind = "request"
  BY <1>1 DEF Of
<1>4. /\ DOMAIN p = 1 .. r - 1 /\ \A kind : Of(p, kind) = {j \in Of(log, kind) : j < r}
      /\ Extends(log, p) /\ Refers(p, q) /\ Accepts(p, q)
  BY <1>3, SoundEvent
<1> DEFINE before == SubSeq(log, 1, i - 1)
<1>5. Refers(before, log[i]) /\ \A kind : Of(before, kind) = {j \in Of(log, kind) : j < i}
  BY SoundEvent
<1> HIDE DEF m, p, q, r, before
<1>6. /\ q.question \in Of(log, "question") /\ q.question < r
      /\ q.task = "experiment" => q.set \in Of(log, "set") /\ q.set < r
  BY <1>3, <1>4 DEF Refers
<1>7. /\ Askable(m, q) /\ Context(m, q) = q.context /\ Context(p, q) = q.context
  BY <1>1, <1>3, <1>4 DEF Unchanged, Accepts
<1>8. ~Revised(m, q.question) /\ (q.task = "experiment" => ~Revised(m, q.set))
  <2>1. CASE q.task = "hypotheses"
    BY <1>7, <2>1 DEF Askable
  <2>2. CASE q.task # "hypotheses"
    BY <1>7, <2>2 DEF Askable, CurrentBinding
  <2> QED BY <2>1, <2>2
<1>9. \A k \in Of(log, "question") \cup Of(log, "set") : k \in Nat /\ k \in DOMAIN log
  BY SoundEvent DEF Of
<1>10. q.question \in Of(m, "question") /\ m[q.question].kind = "question"
       /\ (q.task = "experiment" => q.set \in Of(m, "set") /\ m[q.set].kind = "set")
  <2>1. q.question \in Of(m, "question")
    <3>1. q.question \in Nat /\ q.question < r
      BY <1>6, <1>9
    <3>2. q.question =< n
      BY <1>1, <3>1
    <3> QED BY <1>1, <1>6, <3>2
  <2>2. q.task = "experiment" => q.set \in Of(m, "set")
    <3> SUFFICES ASSUME q.task = "experiment"
                 PROVE  q.set \in Of(m, "set")
      OBVIOUS
    <3>1. q.set \in Nat /\ q.set < r
      BY <1>6, <1>9
    <3>2. q.set =< n
      BY <1>1, <3>1
    <3> QED BY <1>1, <1>6, <3>2
  <2> QED BY <2>1, <2>2 DEF Of
<1>11. None \notin Nat
  BY AgentsAssumption
<1>12. \A k : ~(k \in Of(log, "question") /\ k \in Of(log, "set"))
  BY DEF Of
<1>13. i \in DOMAIN m /\ m[i] = log[i]
  BY <1>1, <1>2, SoundEvent DEF Extends
<1>14. ASSUME i \in Of(log, "question")
       PROVE  log[i].parent # q.question /\ (q.task = "experiment" => log[i].parent # q.set)
  <2>1. i \in Of(m, "question")
    BY <1>1, <1>2, <1>14
  <2>2. log[i].parent # q.question
    BY <1>8, <1>10, <1>13, <2>1 DEF Revised
  <2>3. log[i].parent \in Of(log, "question") \cup {None}
    <3>1. log[i].kind = "question"
      BY <1>14 DEF Of
    <3> QED BY <1>5, <3>1 DEF Refers
  <2> QED BY <1>6, <1>9, <1>11, <1>12, <2>2, <2>3
<1>15. ASSUME i \in Of(log, "set")
       PROVE  log[i].parent # q.question /\ (q.task = "experiment" => log[i].parent # q.set)
  <2>1. i \in Of(m, "set")
    BY <1>1, <1>2, <1>15
  <2>2. q.task = "experiment" => log[i].parent # q.set
    BY <1>8, <1>10, <1>13, <2>1 DEF Revised
  <2>3. log[i].parent \in Of(log, "set") \cup {None}
    <3>1. log[i].kind = "set"
      BY <1>15 DEF Of
    <3> QED BY <1>5, <3>1 DEF Refers
  <2> QED BY <1>6, <1>9, <1>11, <1>12, <2>2, <2>3
<1>16. ASSUME q.task = "experiment", i \in Seen(log, q.tree)
       PROVE  FALSE
  <2>1. i \in Seen(m, q.tree)
    BY <1>1, <1>2, <1>13, <1>16 DEF Seen
  <2>2. i \in {q.question, q.set} \cup Seen(p, q.tree)
    BY <1>7, <1>16, <2>1 DEF Context
  <2>3. \A k \in Seen(p, q.tree) : k < r
    BY <1>4 DEF Seen
  <2> QED BY <1>1, <1>2, <1>6, <1>9, <1>16, <2>2, <2>3
<1> QED BY <1>14, <1>15, <1>16 DEF q, r
-----------------------------------------------------------------------------
\* What one or two accepted events do to a history.

\* What a later history g keeps of an earlier one.
Keeps(g, h) ==
    /\ Sound(g)
    /\ \A kind : Of(h, kind) \subseteq Of(g, kind)
    /\ \A i \in DOMAIN h : i \in DOMAIN g /\ g[i] = h[i]
    /\ \A r : Reached(h, "dispatch", r) =>
                Reached(g, "dispatch", r) /\ DispatchOf(g, r) = DispatchOf(h, r)

LEMMA ExtendsKeeps ==
  ASSUME NEW h, Sound(h), NEW g, Sound(g), Extends(g, h)
  PROVE  Keeps(g, h)
<1>1. \A kind : Of(h, kind) \subseteq Of(g, kind)
  BY DEF Extends, Of
<1>2. \A i \in DOMAIN h : i \in DOMAIN g /\ g[i] = h[i]
  BY DEF Extends
<1>3. \A r : Reached(h, "dispatch", r) =>
               Reached(g, "dispatch", r) /\ DispatchOf(g, r) = DispatchOf(h, r)
  BY DispatchLasts
<1> QED BY <1>1, <1>2, <1>3 DEF Keeps

LEMMA OneEvent ==
  ASSUME NEW h, Sound(h), NEW e \in Events, Refers(h, e), Accepts(h, e)
  PROVE  LET g == h \o << e >>
             n == Len(h)
         IN  /\ Keeps(g, h) /\ g \in Seq(Events) /\ n \in Nat
             /\ DOMAIN h = 1 .. n /\ DOMAIN g = DOMAIN h \cup {n + 1}
             /\ n + 1 \notin DOMAIN h /\ g[n + 1] = e /\ SubSeq(g, 1, n) = h /\ Len(g) = n + 1
             /\ \A kind : Of(g, kind) = Of(h, kind) \cup (IF e.kind = kind THEN {n + 1} ELSE {})
<1>1. h \in Seq(Events)
  BY DEF Sound
<1>2. h \o << e >> = Append(h, e)
  BY <1>1, AppendIsConcat
<1> DEFINE g == Append(h, e)
<1>3. Sound(g) /\ Extends(g, h)
  BY SoundGrows
<1>4. LET n == Len(h)
      IN  /\ g \in Seq(Events) /\ n \in Nat
          /\ DOMAIN h = 1 .. n /\ DOMAIN g = DOMAIN h \cup {n + 1}
          /\ n + 1 \notin DOMAIN h /\ g[n + 1] = e /\ SubSeq(g, 1, n) = h
          /\ \A kind : Of(g, kind) = Of(h, kind) \cup (IF e.kind = kind THEN {n + 1} ELSE {})
  BY <1>1, AppendExtends
<1>5. Len(g) = Len(h) + 1
  BY <1>1, AppendProperties
<1>6. Keeps(g, h)
  BY <1>3, ExtendsKeeps
<1> QED BY <1>2, <1>4, <1>5, <1>6

\* An event that is neither a dispatch nor a response.
LEMMA OtherEvent ==
  ASSUME NEW h, Sound(h), NEW e \in Events, Refers(h, e), Accepts(h, e),
         NEW g, g = h \o << e >>, e.kind \notin {"dispatch", "response"}
  PROVE  Keeps(g, h) /\ \A kind \in {"dispatch", "response"} : Of(g, kind) = Of(h, kind)
<1>1. /\ Keeps(g, h)
      /\ \A kind : Of(g, kind) = Of(h, kind) \cup (IF e.kind = kind THEN {Len(h) + 1} ELSE {})
  BY OneEvent
<1>2. ASSUME NEW kind \in {"dispatch", "response"}
      PROVE  Of(g, kind) = Of(h, kind)
  <2>1. e.kind # kind
    OBVIOUS
  <2> QED BY <1>1, <2>1
<1> QED BY <1>1, <1>2

-----------------------------------------------------------------------------
\* The commands write what the replay accepts.

LEMMA QuestionWritten ==
  ASSUME Sound(log), NEW parent \in Of(log, "question") \cup {None}, Question(parent)
  PROVE  /\ Keeps(log', log)
         /\ \A kind \in {"dispatch", "response"} : Of(log', kind) = Of(log, kind)
<1> DEFINE e == [kind |-> "question", parent |-> parent, by |-> None]
<1>1. log' = log \o << e >> /\ ValidQuestion(log, parent)
  BY DEF Question, Write
<1>2. e \in Events
  BY SoundEvent DEF Events, Of
<1>3. Refers(log, e)
  BY DEF Refers
<1>4. Accepts(log, e)
  BY <1>1 DEF Accepts
<1>5. e.kind = "question"
  OBVIOUS
<1> HIDE DEF e
<1> QED BY <1>1, <1>2, <1>3, <1>4, <1>5, OtherEvent

LEMMA SetWritten ==
  ASSUME Sound(log), NEW question \in Of(log, "question"), NEW parent \in Of(log, "set") \cup {None},
         ExplanationSet(question, parent)
  PROVE  /\ Keeps(log', log)
         /\ \A kind \in {"dispatch", "response"} : Of(log', kind) = Of(log, kind)
<1> DEFINE e == [kind |-> "set", question |-> question, parent |-> parent, by |-> None]
<1>1. log' = log \o << e >> /\ ValidSet(log, question, parent)
  BY DEF ExplanationSet, Write
<1>2. e \in Events
  BY SoundEvent DEF Events, Of
<1>3. Refers(log, e)
  BY DEF Refers
<1>4. Accepts(log, e)
  BY <1>1 DEF Accepts
<1>5. e.kind = "set"
  OBVIOUS
<1> HIDE DEF e
<1> QED BY <1>1, <1>2, <1>3, <1>4, <1>5, OtherEvent

LEMMA TreeEventWritten ==
  ASSUME Sound(log), NEW e \in TreeEvents, TreeEvent(e)
  PROVE  /\ Keeps(log', log)
         /\ \A kind \in {"dispatch", "response"} : Of(log', kind) = Of(log, kind)
<1>1. log' = log \o << e >>
  BY DEF TreeEvent, Write
<1>2. e \in Events /\ e.kind \in {"node", "evidence"}
  BY DEF Events, TreeEvents
<1>3. Refers(log, e)
  BY <1>2 DEF Refers
<1>4. Accepts(log, e)
  BY <1>2 DEF Accepts
<1> QED BY <1>1, <1>2, <1>3, <1>4, OtherEvent

LEMMA RequestWritten ==
  ASSUME Sound(log), NEW q \in Requested, WellFormed(q), Request(q)
  PROVE  /\ Keeps(log', log)
         /\ \A kind \in {"dispatch", "response"} : Of(log', kind) = Of(log, kind)
<1> DEFINE e == [q EXCEPT !.context = Context(log, q)]
<1>1. log' = log \o << e >> /\ WithinBudget(log, q.budget) /\ Askable(log, q)
  BY DEF Request, Write
<1>2. /\ q.task \in {"hypotheses", "experiment"} /\ q.budget \in Budget
      /\ q.question \in Of(log, "question") /\ q.set \in Of(log, "set") \cup {None}
      /\ q.tree \in Tree \cup {None} /\ q.kind = "request"
      /\ q.task = "experiment" =>
           q.set \in Of(log, "set") /\ q.tree \in Tree /\ log[q.set].question = q.question
  BY DEF Requested, WellFormed
<1>3. \A kind : Of(log, kind) \subseteq Nat
  BY SoundEvent DEF Of
<1>4. Context(log, q) \subseteq Nat
  BY <1>2, <1>3 DEF Context, Seen
<1>5. e = [kind |-> "request", task |-> q.task, budget |-> q.budget, question |-> q.question,
           set |-> q.set, tree |-> q.tree, context |-> Context(log, q)]
  BY DEF Requested
<1> HIDE DEF e
<1>6. e \in Events
  BY <1>2, <1>3, <1>4, <1>5 DEF Events
<1>7. Refers(log, e)
  BY <1>2, <1>5 DEF Refers
<1>8. Askable(log, e) /\ Context(log, e) = Context(log, q)
  BY <1>1, <1>5 DEF Askable, Context
<1>9. Accepts(log, e)
  BY <1>1, <1>5, <1>8 DEF Accepts
<1>10. e.kind = "request"
  BY <1>5
<1> QED BY <1>1, <1>6, <1>7, <1>9, <1>10, OtherEvent
-----------------------------------------------------------------------------
\* Requests, controllers and workers.

\* The worker of the request's dispatch left a completion file.
Captured(r) ==
    /\ Reached(log, "dispatch", r)
    /\ DispatchOf(log, r) \in DOMAIN worker
    /\ captured[DispatchOf(log, r)] # None

ActorsTyped ==
    /\ ctl \in [Controller ->
         [at : {"idle", "dispatching", "dispatched", "finalizing", "applying"},
          request : Of(log, "request") \cup {None}]]
    /\ \A c \in Controller : ctl[c].at # "idle" => ctl[c].request \in Of(log, "request")
    /\ fresh \subseteq Controller
    /\ DOMAIN worker \subseteq Of(log, "dispatch")
    /\ worker \in [DOMAIN worker -> {"calling", "gone"}]
    /\ captured \in [DOMAIN worker -> Completion \cup {None}]
    /\ calls \in [DOMAIN worker -> {1}]

\* A controller that is about to launch a worker owns a dispatch that has none.
Launches ==
    \A c \in Controller : ctl[c].at = "dispatched" =>
       /\ Reached(log, "dispatch", ctl[c].request)
       /\ DispatchOf(log, ctl[c].request) \notin DOMAIN worker
       /\ \A e \in Controller \ {c} : ctl[e].at = "dispatched" => ctl[e].request # ctl[c].request

\* A completion file is final, and a response says what it amounts to.
Captures ==
    /\ \A d \in DOMAIN worker : captured[d] # None => worker[d] = "gone"
    /\ \A c \in Controller : ctl[c].at = "finalizing" => Captured(ctl[c].request)
    /\ \A i \in Of(log, "response") :
         /\ Captured(log[i].request)
         /\ log[i].status = Assessment(log[log[i].request].task, captured[DispatchOf(log, log[i].request)])

IInv == Sound(log) /\ ActorsTyped /\ Launches /\ Captures

LEMMA AssessmentTyped ==
  ASSUME NEW task, NEW c \in Completion
  PROVE  Assessment(task, c) \in Statuses
  BY AgentsAssumption DEF CompletionShape, Assessment, Statuses

LEMMA DispatchWritten ==
  ASSUME IInv, NEW c \in Controller, Dispatch(c)
  PROVE  LET r == ctl[c].request
         IN  /\ Keeps(log', log) /\ Of(log', "response") = Of(log, "response")
             /\ ~Reached(log, "dispatch", r)
             /\ Reached(log', "dispatch", r) /\ DispatchOf(log', r) \notin Of(log, "dispatch")
<1> DEFINE r == ctl[c].request
           e == [kind |-> "dispatch", request |-> r]
           n == Len(log)
<1>1. /\ log' = log \o << e >> /\ ~Reached(log, "dispatch", r) /\ Unchanged(log, r)
      /\ ctl[c].at = "dispatching"
  BY DEF Dispatch, MayDispatch, Write
<1>2. r \in Of(log, "request") /\ Sound(log)
  BY <1>1 DEF IInv, ActorsTyped
<1>3. e \in Events
  <2>1. r \in Nat
    BY <1>2, SoundEvent DEF Of
  <2> QED BY <2>1 DEF Events
<1>4. e.kind = "dispatch" /\ e.request = r
  OBVIOUS
<1> HIDE DEF e, r
<1>5. Refers(log, e)
  BY <1>2, <1>4 DEF Refers
<1>6. Accepts(log, e)
  BY <1>1, <1>2, <1>4 DEF Accepts
<1>7. /\ Keeps(log', log) /\ DOMAIN log = 1 .. n /\ n + 1 \notin DOMAIN log /\ log'[n + 1] = e
      /\ n + 1 \in DOMAIN log'
      /\ \A kind : Of(log', kind) = Of(log, kind) \cup (IF e.kind = kind THEN {n + 1} ELSE {})
  BY <1>1, <1>2, <1>3, <1>5, <1>6, OneEvent
<1> HIDE DEF n
<1>8. Of(log', "response") = Of(log, "response") /\ Of(log', "dispatch") = Of(log, "dispatch") \cup {n + 1}
  BY <1>4, <1>7
<1>9. n + 1 \in Steps(log', "dispatch", r)
  BY <1>4, <1>7, <1>8 DEF Steps
<1>10. Reached(log', "dispatch", r) /\ n + 1 = DispatchOf(log', r)
  BY <1>7, <1>9, DispatchIs DEF Reached, Keeps
<1>11. n + 1 \notin Of(log, "dispatch")
  BY <1>7 DEF Of
<1> QED BY <1>1, <1>7, <1>8, <1>10, <1>11 DEF r

LEMMA ResponseWritten ==
  ASSUME IInv, NEW c \in Controller, Finalize(c)
  PROVE  LET r == ctl[c].request
             n == Len(log)
         IN  /\ Keeps(log', log) /\ Of(log', "dispatch") = Of(log, "dispatch")
             /\ Of(log', "response") = Of(log, "response") \cup {n + 1}
             /\ log'[n + 1].request = r
             /\ log'[n + 1].status = Assessment(log[r].task, captured[DispatchOf(log, r)])
             /\ Captured(r)
<1> DEFINE r == ctl[c].request
           status == Assessment(log[r].task, captured[DispatchOf(log, r)])
           e == [kind |-> "response", request |-> r, status |-> status]
           n == Len(log)
<1>1. /\ log' = log \o << e >> /\ Reached(log, "dispatch", r) /\ ~Reached(log, "response", r)
      /\ ctl[c].at = "finalizing"
  BY DEF Finalize, MayFinalize, Write
<1>2. r \in Of(log, "request") /\ Sound(log) /\ Captured(r)
  BY <1>1 DEF IInv, ActorsTyped, Captures
<1>3. status \in Statuses
  <2>1. captured[DispatchOf(log, r)] \in Completion
    BY <1>2 DEF IInv, ActorsTyped, Captured
  <2> QED BY <2>1, AssessmentTyped
<1> HIDE DEF status
<1>4. e \in Events
  <2>1. r \in Nat
    BY <1>2, SoundEvent DEF Of
  <2> QED BY <1>3, <2>1 DEF Events
<1>5. e.kind = "response" /\ e.request = r /\ e.status = status
  OBVIOUS
<1> HIDE DEF e, r
<1>6. Refers(log, e)
  BY <1>2, <1>5 DEF Refers
<1>7. Accepts(log, e)
  BY <1>1, <1>5 DEF Accepts
<1>8. /\ Keeps(log', log) /\ log'[n + 1] = e
      /\ \A kind : Of(log', kind) = Of(log, kind) \cup (IF e.kind = kind THEN {n + 1} ELSE {})
  BY <1>1, <1>2, <1>4, <1>6, <1>7, OneEvent
<1>9. /\ Of(log', "response") = Of(log, "response") \cup {n + 1}
      /\ Of(log', "dispatch") = Of(log, "dispatch")
  BY <1>5, <1>8
<1> QED BY <1>2, <1>5, <1>8, <1>9 DEF r, status

LEMMA ApplicationWritten ==
  ASSUME IInv, NEW c \in Controller, Apply(c)
  PROVE  /\ Keeps(log', log)
         /\ \A kind \in {"dispatch", "response"} : Of(log', kind) = Of(log, kind)
<1> DEFINE r == ctl[c].request
           made == Created(r)
           e == [kind |-> "application", request |-> r]
           g == log \o << made >>
           n == Len(log)
<1>1. /\ log' = log \o << made, e >> /\ Status(log, r) = "proposed" /\ Unchanged(log, r)
      /\ ctl[c].at = "applying"
  BY DEF Apply, MayApply, Write
<1>2. r \in Of(log, "request") /\ Sound(log) /\ r \in DOMAIN log /\ log[r].kind = "request"
  BY <1>1 DEF IInv, ActorsTyped, Of
<1>3. r \in Nat
  BY <1>2, SoundEvent
<1>4. e \in Events /\ e.kind = "application" /\ e.request = r
  BY <1>3 DEF Events
<1> HIDE DEF e, r
<1> DEFINE q == log[r]
<1>5. /\ q.task \in {"hypotheses", "experiment"}
      /\ q.question \in Of(log, "question") /\ q.question \in Nat
      /\ q.task = "experiment" => q.tree \in Tree
  <2> DEFINE p == SubSeq(log, 1, r - 1)
  <2>1. Refers(p, q) /\ (\A kind : Of(p, kind) = {j \in Of(log, kind) : j < r}) /\ q \in Events
    BY <1>2, SoundEvent DEF Sound
  <2> HIDE DEF p, q
  <2>2. q.kind = "request"
    BY <1>2 DEF q
  <2>3. /\ q.question \in Of(log, "question")
        /\ q.task = "experiment" => q.tree \in Tree
    BY <2>1, <2>2 DEF Refers
  <2>4. q.task \in {"hypotheses", "experiment"}
    BY <2>1, <2>2 DEF Events
  <2>5. q.question \in Nat
    BY <1>2, <2>3, SoundEvent DEF Of
  <2> QED BY <2>3, <2>4, <2>5
<1>6. /\ made \in Events /\ Refers(log, made) /\ Accepts(log, made)
      /\ made.kind \in {"set", "node"} /\ made.by = r
      /\ IF q.task = "hypotheses"
         THEN made.kind = "set" /\ made.question = q.question /\ made.parent = None
         ELSE made.kind = "node" /\ made.tree = q.tree
  <2>1. CASE q.task = "hypotheses"
    <3>1. made = [kind |-> "set", question |-> q.question, parent |-> None, by |-> r]
      BY <2>1 DEF Created
    <3>2. ~Revised(log, q.question)
      BY <1>1, <2>1 DEF Unchanged, Askable
    <3> HIDE DEF made, q
    <3>3. made.kind = "set" /\ made.question = q.question /\ made.parent = None /\ made.by = r
      BY <3>1
    <3>4. made \in Events
      BY <1>3, <1>5, <3>1 DEF Events
    <3>5. Refers(log, made)
      BY <1>5, <3>3 DEF Refers
    <3>6. Accepts(log, made)
      BY <1>5, <3>2, <3>3 DEF Accepts, ValidSet
    <3> QED BY <2>1, <3>3, <3>4, <3>5, <3>6
  <2>2. CASE q.task = "experiment"
    <3>1. made = [kind |-> "node", tree |-> q.tree, by |-> r]
      BY <2>2 DEF Created
    <3> HIDE DEF made, q
    <3>2. made.kind = "node" /\ made.tree = q.tree /\ made.by = r
      BY <3>1
    <3>3. made \in Events
      BY <1>3, <1>5, <2>2, <3>1 DEF Events
    <3>4. Refers(log, made) /\ Accepts(log, made)
      BY <3>2 DEF Refers, Accepts
    <3> QED BY <2>2, <3>2, <3>3, <3>4
  <2> QED BY <1>5, <2>1, <2>2
<1> HIDE DEF made
<1>7. /\ Keeps(g, log) /\ \A kind \in {"dispatch", "response"} : Of(g, kind) = Of(log, kind)
      /\ n \in Nat /\ g \in Seq(Events) /\ g[n + 1] = made /\ SubSeq(g, 1, n) = log /\ Len(g) = n + 1
      /\ DOMAIN g = DOMAIN log \cup {n + 1}
  <2>1. made.kind \notin {"dispatch", "response"}
    BY <1>6
  <2>2. Keeps(g, log) /\ \A kind \in {"dispatch", "response"} : Of(g, kind) = Of(log, kind)
    BY <1>2, <1>6, <2>1, OtherEvent
  <2> QED BY <1>2, <1>6, <2>2, OneEvent
<1>8. log' = g \o << e >>
  <2>1. log \in Seq(Events) /\ << made >> \in Seq(Events) /\ << e >> \in Seq(Events)
    BY <1>2, <1>4, <1>6 DEF Sound
  <2>2. (log \o << made >>) \o << e >> = log \o (<< made >> \o << e >>)
    BY <2>1, ConcatAssociative
  <2>3. << made >> \o << e >> = << made, e >>
    BY <1>4, <1>6, Tuples
  <2> QED BY <1>1, <2>2, <2>3
<1> HIDE DEF g, n
<1>9. Sound(g) /\ g[r] = q /\ r \in Of(g, "request")
  BY <1>2, <1>7 DEF Keeps
<1>10. Refers(g, e)
  BY <1>4, <1>9 DEF Refers
<1>11. Accepts(g, e)
  <2>1. Len(g) - 1 = n
    BY <1>7
  <2>2. SubSeq(g, 1, Len(g) - 1) = log /\ g[Len(g)] = made
    BY <1>7, <2>1
  <2>3. MadeFor(made, g, r)
    BY <1>6, <1>9 DEF MadeFor
  <2> QED BY <1>1, <1>4, <2>2, <2>3 DEF Accepts
<1>12. /\ Keeps(log', g)
       /\ \A kind \in {"dispatch", "response"} : Of(log', kind) = Of(g, kind)
  <2>1. e.kind \notin {"dispatch", "response"}
    BY <1>4
  <2> QED BY <1>4, <1>8, <1>9, <1>10, <1>11, <2>1, OtherEvent
<1> QED BY <1>7, <1>12 DEF Keeps

-----------------------------------------------------------------------------
\* What every step does to the log.

\* A step that writes neither a dispatch nor a response.
Quiet == /\ Keeps(log', log)
         /\ \A kind \in {"dispatch", "response"} : Of(log', kind) = Of(log, kind)

LEMMA KeepsItself ==
  ASSUME NEW h, Sound(h)
  PROVE  Keeps(h, h)
  BY DEF Keeps

LEMMA PlannerQuiet ==
  ASSUME IInv, Planner
  PROVE  Quiet /\ UNCHANGED <<ctl, worker, captured, calls>> /\ fresh' \subseteq fresh
<1> USE DEF Quiet
<1>0. Sound(log)
  BY DEF IInv
<1>1. CASE \E parent \in Of(log, "question") \cup {None} : Question(parent)
  BY <1>0, <1>1, QuestionWritten DEF Question, Write
<1>2. CASE \E question \in Of(log, "question"), parent \in Of(log, "set") \cup {None} :
             ExplanationSet(question, parent)
  BY <1>0, <1>2, SetWritten DEF ExplanationSet, Write
<1>3. CASE \E e \in TreeEvents : TreeEvent(e)
  BY <1>0, <1>3, TreeEventWritten DEF TreeEvent, Write
<1>4. CASE \E q \in Requested : WellFormed(q) /\ Request(q)
  BY <1>0, <1>4, RequestWritten DEF Request, Write
<1> QED BY <1>1, <1>2, <1>3, <1>4 DEF Planner

LEMMA LogKept ==
  ASSUME IInv, [Next]_vars
  PROVE  Keeps(log', log)
<1>0. Sound(log)
  BY DEF IInv
<1>1. CASE log' = log
  BY <1>0, <1>1, KeepsItself
<1>2. CASE Planner
  BY <1>2, PlannerQuiet DEF Quiet
<1>3. ASSUME NEW c \in Controller, ControllerStep(c) \/ Crash(c)
      PROVE  Keeps(log', log)
  BY <1>1, <1>3, DispatchWritten, ResponseWritten, ApplicationWritten
     DEF ControllerStep, DispatchRefused, Launch, FinalizeConflicts, ApplyRefused, Crash
<1> QED BY <1>1, <1>2, <1>3 DEF Next, vars, Work, WorkerDies, Capture

-----------------------------------------------------------------------------
\* The invariant.

\* As long as the actors stand still, the log may grow.
LEMMA ActorsKept ==
  ASSUME IInv, Keeps(log', log), UNCHANGED <<worker, captured, calls>>, fresh' \subseteq Controller,
         ctl' \in [Controller ->
           [at : {"idle", "dispatching", "dispatched", "finalizing", "applying"},
            request : Of(log', "request") \cup {None}]],
         \A c \in Controller : ctl'[c].at # "idle" => ctl'[c].request \in Of(log', "request")
  PROVE  ActorsTyped'
<1>1. Of(log, "dispatch") \subseteq Of(log', "dispatch")
  BY DEF Keeps
<1> QED BY <1>1 DEF IInv, ActorsTyped

\* Only a request can have a worker.
LEMMA CapturedIsRequest ==
  ASSUME Sound(log), NEW r, Captured(r)
  PROVE  r \in Of(log, "request")
<1> DEFINE d == DispatchOf(log, r)
           p == SubSeq(log, 1, d - 1)
<1>1. d \in Of(log, "dispatch") /\ log[d].request = r
  BY DispatchIs DEF Captured
<1> HIDE DEF d
<1>2. d \in DOMAIN log /\ log[d].kind = "dispatch"
  BY <1>1 DEF Of
<1>3. Refers(p, log[d]) /\ \A kind : Of(p, kind) = {j \in Of(log, kind) : j < d}
  BY <1>2, SoundEvent
<1> HIDE DEF p
<1>4. log[d].request \in Of(p, "request")
  BY <1>2, <1>3 DEF Refers
<1> QED BY <1>1, <1>3, <1>4

LEMMA CapturedLasts ==
  ASSUME Sound(log), Keeps(log', log), UNCHANGED <<worker, captured>>, NEW r, Captured(r)
  PROVE  /\ Captured(r)' /\ log'[r].task = log[r].task
         /\ captured'[DispatchOf(log', r)] = captured[DispatchOf(log, r)]
<1>1. Reached(log', "dispatch", r) /\ DispatchOf(log', r) = DispatchOf(log, r)
  BY DEF Keeps, Captured
<1>2. r \in DOMAIN log
  BY CapturedIsRequest DEF Of
<1>3. log'[r] = log[r]
  BY <1>2 DEF Keeps
<1> QED BY <1>1, <1>3 DEF Captured

\* No controller came to own a dispatch.
LEMMA LaunchesKept ==
  ASSUME IInv, Keeps(log', log), UNCHANGED worker,
         \A e \in Controller : ctl'[e].at = "dispatched" => ctl'[e] = ctl[e]
  PROVE  Launches'
<1> SUFFICES ASSUME NEW e \in Controller, ctl'[e].at = "dispatched"
             PROVE  /\ Reached(log', "dispatch", ctl'[e].request)
                    /\ DispatchOf(log', ctl'[e].request) \notin DOMAIN worker'
                    /\ \A k \in Controller \ {e} : ctl'[k].at = "dispatched" =>
                         ctl'[k].request # ctl'[e].request
  BY DEF Launches
<1>1. ctl'[e] = ctl[e] /\ ctl[e].at = "dispatched"
  OBVIOUS
<1>2. /\ Reached(log, "dispatch", ctl[e].request)
      /\ DispatchOf(log, ctl[e].request) \notin DOMAIN worker
  BY <1>1 DEF IInv, Launches
<1>3. /\ Reached(log', "dispatch", ctl[e].request)
      /\ DispatchOf(log', ctl[e].request) = DispatchOf(log, ctl[e].request)
  BY <1>2 DEF Keeps
<1>4. \A k \in Controller \ {e} : ctl'[k].at = "dispatched" => ctl'[k].request # ctl'[e].request
  BY <1>1 DEF IInv, Launches
<1> QED BY <1>1, <1>2, <1>3, <1>4

\* What is finalized, or was answered, was captured before the step.
LEMMA CapturesKept ==
  ASSUME IInv, Keeps(log', log), UNCHANGED <<worker, captured>>,
         \A e \in Controller : ctl'[e].at = "finalizing" => Captured(ctl'[e].request),
         \A i \in Of(log', "response") :
           /\ Captured(log'[i].request)
           /\ log'[i].status = Assessment(log[log'[i].request].task, captured[DispatchOf(log, log'[i].request)])
  PROVE  Captures'
<1>0. Sound(log)
  BY DEF IInv
<1>1. \A d \in DOMAIN worker' : captured'[d] # None => worker'[d] = "gone"
  BY DEF IInv, Captures
<1>2. ASSUME NEW e \in Controller, ctl'[e].at = "finalizing"
      PROVE  /\ Reached(log', "dispatch", ctl'[e].request)
             /\ DispatchOf(log', ctl'[e].request) \in DOMAIN worker'
             /\ captured'[DispatchOf(log', ctl'[e].request)] # None
  <2>1. PICK r : r = ctl'[e].request
    OBVIOUS
  <2>2. Captured(r)'
    BY <1>0, <1>2, <2>1, CapturedLasts
  <2> QED BY <2>1, <2>2 DEF Captured
<1>3. ASSUME NEW i \in Of(log', "response")
      PROVE  /\ Reached(log', "dispatch", log'[i].request)
             /\ DispatchOf(log', log'[i].request) \in DOMAIN worker'
             /\ captured'[DispatchOf(log', log'[i].request)] # None
             /\ log'[i].status = Assessment(log'[log'[i].request].task, captured'[DispatchOf(log', log'[i].request)])
  <2>1. PICK r : r = log'[i].request
    OBVIOUS
  <2>2. Captured(r)' /\ log'[r].task = log[r].task /\ captured'[DispatchOf(log', r)] = captured[DispatchOf(log, r)]
    BY <1>0, <2>1, CapturedLasts
  <2> QED BY <2>1, <2>2 DEF Captured
<1> QED BY <1>1, <1>2, <1>3 DEF Captures, Captured

\* The controller c moves on to `now`; the workers stand still.
LEMMA ControllerMoves ==
  ASSUME IInv, Keeps(log', log), UNCHANGED <<worker, captured, calls>>, fresh' \subseteq Controller,
         NEW c \in Controller, NEW now, ctl' = [ctl EXCEPT ![c] = now],
         now = Idle \/ (now.request \in Of(log, "request")
                        /\ now \in [at : {"dispatching", "finalizing", "applying"}, request : Nat]),
         now.at = "finalizing" => Captured(now.request),
         \A i \in Of(log', "response") :
           /\ Captured(log'[i].request)
           /\ log'[i].status = Assessment(log[log'[i].request].task, captured[DispatchOf(log, log'[i].request)])
  PROVE  IInv'
<1>1. Of(log, "request") \subseteq Of(log', "request")
  BY DEF Keeps
<1>2. ctl'[c] = now /\ \A e \in Controller \ {c} : ctl'[e] = ctl[e]
  BY DEF IInv, ActorsTyped
<1>3. now.at # "dispatched" /\ (now.at # "idle" => now.request \in Of(log, "request"))
  BY DEF Idle
<1>4. ActorsTyped'
  <2>1. now \in [at : {"idle", "dispatching", "dispatched", "finalizing", "applying"},
                 request : Of(log', "request") \cup {None}]
    BY <1>1 DEF Idle
  <2>2. ctl' \in [Controller ->
           [at : {"idle", "dispatching", "dispatched", "finalizing", "applying"},
            request : Of(log', "request") \cup {None}]]
    <3>1. ctl' = [e \in Controller |-> IF e = c THEN now ELSE ctl[e]]
      BY <1>2 DEF IInv, ActorsTyped
    <3>2. \A e \in Controller : ctl[e] \in
            [at : {"idle", "dispatching", "dispatched", "finalizing", "applying"},
             request : Of(log', "request") \cup {None}]
      BY <1>1 DEF IInv, ActorsTyped
    <3> QED BY <2>1, <3>1, <3>2
  <2>3. \A e \in Controller : ctl'[e].at # "idle" => ctl'[e].request \in Of(log', "request")
    BY <1>1, <1>2, <1>3 DEF IInv, ActorsTyped
  <2> QED BY <2>2, <2>3, ActorsKept
<1>5. Launches'
  BY <1>2, <1>3, LaunchesKept
<1>6. Captures'
  <2>1. \A e \in Controller : ctl'[e].at = "finalizing" => Captured(ctl'[e].request)
    BY <1>2 DEF IInv, Captures
  <2> QED BY <2>1, CapturesKept
<1> QED BY <1>4, <1>5, <1>6 DEF IInv, Keeps

\* An idle controller, or none, moves while the log grows quietly.
LEMMA QuietStep ==
  ASSUME IInv, Quiet, UNCHANGED <<worker, captured, calls>>, fresh' \subseteq Controller,
         ctl' = ctl \/ \E c \in Controller : ctl' = [ctl EXCEPT ![c] = Idle]
  PROVE  IInv'
<1>1. Keeps(log', log) /\ Of(log', "response") = Of(log, "response")
  BY DEF Quiet
<1>2. ASSUME NEW i \in Of(log', "response")
      PROVE  /\ Captured(log'[i].request)
             /\ log'[i].status = Assessment(log[log'[i].request].task, captured[DispatchOf(log, log'[i].request)])
  BY <1>1 DEF IInv, Captures, Keeps, Of
<1>3. CASE ctl' = ctl
  <2>1. ActorsTyped'
    <3>1. Of(log, "request") \subseteq Of(log', "request")
      BY <1>1 DEF Keeps
    <3>2. ctl' \in [Controller ->
           [at : {"idle", "dispatching", "dispatched", "finalizing", "applying"},
            request : Of(log', "request") \cup {None}]]
      BY <1>3, <3>1 DEF IInv, ActorsTyped
    <3>3. \A e \in Controller : ctl'[e].at # "idle" => ctl'[e].request \in Of(log', "request")
      BY <1>3, <3>1 DEF IInv, ActorsTyped
    <3> QED BY <1>1, <3>2, <3>3, ActorsKept
  <2>2. Launches'
    BY <1>1, <1>3, LaunchesKept
  <2>3. Captures'
    <3>1. \A e \in Controller : ctl'[e].at = "finalizing" => Captured(ctl'[e].request)
      BY <1>3 DEF IInv, Captures
    <3> QED BY <1>1, <1>2, <3>1, CapturesKept
  <2> QED BY <1>1, <2>1, <2>2, <2>3 DEF IInv, Keeps
<1>4. ASSUME NEW c \in Controller, ctl' = [ctl EXCEPT ![c] = Idle]
      PROVE  IInv'
  <2>1. Idle.at # "finalizing"
    BY DEF Idle
  <2> QED BY <1>1, <1>2, <1>4, <2>1, ControllerMoves
<1> QED BY <1>3, <1>4

LEMMA DispatchStep ==
  ASSUME IInv, NEW c \in Controller, Dispatch(c)
  PROVE  IInv'
<1> DEFINE r == ctl[c].request
           now == [at |-> "dispatched", request |-> r]
<1>0. Sound(log) /\ r \in Of(log, "request")
  BY DEF IInv, ActorsTyped, Dispatch
<1>1. /\ Keeps(log', log) /\ Of(log', "response") = Of(log, "response")
      /\ ~Reached(log, "dispatch", r)
      /\ Reached(log', "dispatch", r) /\ DispatchOf(log', r) \notin Of(log, "dispatch")
  BY DispatchWritten
<1>2. /\ ctl[c].at = "dispatching" /\ ctl' = [ctl EXCEPT ![c] = [@ EXCEPT !.at = "dispatched"]]
      /\ fresh' = {} /\ UNCHANGED <<worker, captured, calls>>
  BY DEF Dispatch, Write
<1>3. ctl'[c] = now /\ \A e \in Controller \ {c} : ctl'[e] = ctl[e]
  BY <1>2 DEF IInv, ActorsTyped
<1>4. now.at = "dispatched" /\ now.request = r
  OBVIOUS
<1>5. Of(log, "request") \subseteq Of(log', "request")
  BY <1>1 DEF Keeps
<1> HIDE DEF now, r
<1>6. ActorsTyped'
  <2>1. now \in [at : {"idle", "dispatching", "dispatched", "finalizing", "applying"},
                 request : Of(log', "request") \cup {None}]
    BY <1>0, <1>5 DEF now
  <2>2. ctl' \in [Controller ->
           [at : {"idle", "dispatching", "dispatched", "finalizing", "applying"},
            request : Of(log', "request") \cup {None}]]
    <3>1. ctl' = [e \in Controller |-> IF e = c THEN now ELSE ctl[e]]
      BY <1>2, <1>3 DEF IInv, ActorsTyped
    <3>2. \A e \in Controller : ctl[e] \in
            [at : {"idle", "dispatching", "dispatched", "finalizing", "applying"},
             request : Of(log', "request") \cup {None}]
      BY <1>5 DEF IInv, ActorsTyped
    <3> QED BY <2>1, <3>1, <3>2
  <2>3. \A e \in Controller : ctl'[e].at # "idle" => ctl'[e].request \in Of(log', "request")
    BY <1>0, <1>3, <1>4, <1>5 DEF IInv, ActorsTyped
  <2> QED BY <1>1, <1>2, <2>2, <2>3, ActorsKept
<1>7. Launches'
  <2>1. DispatchOf(log', r) \notin DOMAIN worker
    BY <1>1 DEF IInv, ActorsTyped
  <2>2. ASSUME NEW e \in Controller, ctl'[e].at = "dispatched", e # c
        PROVE  /\ Reached(log', "dispatch", ctl'[e].request)
               /\ DispatchOf(log', ctl'[e].request) \notin DOMAIN worker'
               /\ ctl'[e].request # r
               /\ \A k \in Controller \ {e, c} : ctl'[k].at = "dispatched" =>
                    ctl'[k].request # ctl'[e].request
    <3>1. ctl'[e] = ctl[e]
      BY <1>3, <2>2
    <3>2. /\ Reached(log, "dispatch", ctl[e].request)
          /\ DispatchOf(log, ctl[e].request) \notin DOMAIN worker
      BY <2>2, <3>1 DEF IInv, Launches
    <3>3. /\ Reached(log', "dispatch", ctl[e].request)
          /\ DispatchOf(log', ctl[e].request) = DispatchOf(log, ctl[e].request)
      BY <1>1, <3>2 DEF Keeps
    <3>4. \A k \in Controller \ {e, c} : ctl'[k].at = "dispatched" =>
            ctl'[k].request # ctl'[e].request
      BY <1>3, <2>2, <3>1 DEF IInv, Launches
    <3> QED BY <1>1, <1>2, <3>1, <3>2, <3>3, <3>4
  <2> QED BY <1>1, <1>2, <1>3, <1>4, <2>1, <2>2 DEF Launches
<1>8. Captures'
  <2>1. \A e \in Controller : ctl'[e].at = "finalizing" => Captured(ctl'[e].request)
    BY <1>3, <1>4 DEF IInv, Captures
  <2>2. ASSUME NEW i \in Of(log', "response")
        PROVE  /\ Captured(log'[i].request)
               /\ log'[i].status = Assessment(log[log'[i].request].task, captured[DispatchOf(log, log'[i].request)])
    BY <1>1 DEF IInv, Captures, Keeps, Of
  <2> QED BY <1>1, <1>2, <2>1, <2>2, CapturesKept
<1> QED BY <1>1, <1>6, <1>7, <1>8 DEF IInv, Keeps
LEMMA FinalizeStep ==
  ASSUME IInv, NEW c \in Controller, Finalize(c)
  PROVE  IInv'
<1> DEFINE r == ctl[c].request
           n == Len(log)
<1>1. /\ Keeps(log', log) /\ Of(log', "response") = Of(log, "response") \cup {n + 1}
      /\ log'[n + 1].request = r
      /\ log'[n + 1].status = Assessment(log[r].task, captured[DispatchOf(log, r)])
      /\ Captured(r)
  BY ResponseWritten
<1>2. /\ ctl' = [ctl EXCEPT ![c] = Idle]
      /\ fresh' = {} /\ UNCHANGED <<worker, captured, calls>>
  BY DEF Finalize, Write
<1> HIDE DEF r, n
<1>3. ASSUME NEW i \in Of(log', "response")
      PROVE  /\ Captured(log'[i].request)
             /\ log'[i].status = Assessment(log[log'[i].request].task, captured[DispatchOf(log, log'[i].request)])
  <2>1. CASE i \in Of(log, "response")
    BY <1>1, <2>1 DEF IInv, Captures, Keeps, Of
  <2>2. CASE i = n + 1
    BY <1>1, <2>2
  <2> QED BY <1>1, <2>1, <2>2
<1>4. Idle.at # "finalizing"
  BY DEF Idle
<1> QED BY <1>1, <1>2, <1>3, <1>4, ControllerMoves

LEMMA WorkStep ==
  ASSUME IInv, NEW c \in Controller, NEW r \in Of(log, "request"), Work(c, r)
  PROVE  IInv'
<1>0. Sound(log) /\ r \in Nat
  BY SoundEvent DEF IInv, Of
<1>1. PICK at \in {"dispatching", "finalizing", "applying"} :
        Reads(c, at, r) /\ (at = "finalizing" => HasEvidence(r))
  BY DEF Work
<1>2. log' = log /\ UNCHANGED <<worker, captured, calls>>
  BY DEF Work
<1> DEFINE now == [at |-> at, request |-> r]
<1>3. ctl' = [ctl EXCEPT ![c] = now] /\ fresh' = fresh \cup {c}
  BY <1>1 DEF Reads
<1>4. /\ now.request = r /\ now.at = at
      /\ now \in [at : {"dispatching", "finalizing", "applying"}, request : Nat]
  BY <1>0
<1> HIDE DEF now
<1>5. at = "finalizing" => Captured(r)
  BY <1>1 DEF HasEvidence, Captured, IInv, ActorsTyped
<1>6. Keeps(log', log)
  BY <1>0, <1>2, KeepsItself
<1>7. fresh' \subseteq Controller
  BY <1>3 DEF IInv, ActorsTyped
<1>8. \A i \in Of(log', "response") :
           /\ Captured(log'[i].request)
           /\ log'[i].status = Assessment(log[log'[i].request].task, captured[DispatchOf(log, log'[i].request)])
  BY <1>2 DEF IInv, Captures
<1> QED BY <1>2, <1>3, <1>4, <1>5, <1>6, <1>7, <1>8, ControllerMoves

LEMMA LaunchStep ==
  ASSUME IInv, NEW c \in Controller, Launch(c)
  PROVE  IInv'
<1> DEFINE r == ctl[c].request
           d == DispatchOf(log, r)
<1>1. /\ ctl[c].at = "dispatched" /\ Sound(log)
      /\ ctl' = [ctl EXCEPT ![c] = Idle] /\ UNCHANGED <<log, fresh>>
      /\ worker' = [i \in DOMAIN worker \cup {d} |-> IF i = d THEN "calling" ELSE worker[i]]
      /\ captured' = [i \in DOMAIN captured \cup {d} |-> IF i = d THEN None ELSE captured[i]]
      /\ calls' = [i \in DOMAIN calls \cup {d} |->
                     IF i = d THEN (IF d \in DOMAIN calls THEN calls[d] + 1 ELSE 1) ELSE calls[i]]
  BY DEF Launch, IInv
<1>2. /\ Reached(log, "dispatch", r) /\ d \notin DOMAIN worker
      /\ DOMAIN captured = DOMAIN worker /\ DOMAIN calls = DOMAIN worker
  BY <1>1 DEF IInv, Launches, ActorsTyped
<1>3. d \in Of(log, "dispatch") /\ log[d].request = r
  BY <1>1, <1>2, DispatchIs
<1> HIDE DEF d
<1>4. /\ DOMAIN worker' = DOMAIN worker \cup {d}
      /\ \A i \in DOMAIN worker : worker'[i] = worker[i] /\ captured'[i] = captured[i]
      /\ worker'[d] = "calling" /\ captured'[d] = None
  BY <1>1, <1>2
<1>5. /\ \A e \in Controller \ {c} : ctl'[e] = ctl[e]
      /\ ctl'[c].at = "idle"
  BY <1>1 DEF IInv, ActorsTyped, Idle
<1>6. ActorsTyped'
  <2>1. calls' \in [DOMAIN worker' -> {1}]
    BY <1>1, <1>2, <1>4 DEF IInv, ActorsTyped
  <2>2. worker' \in [DOMAIN worker' -> {"calling", "gone"}]
    BY <1>1, <1>4 DEF IInv, ActorsTyped
  <2>3. captured' \in [DOMAIN worker' -> Completion \cup {None}]
    BY <1>1, <1>2, <1>4 DEF IInv, ActorsTyped
  <2>4. ctl' \in [Controller ->
           [at : {"idle", "dispatching", "dispatched", "finalizing", "applying"},
            request : Of(log, "request") \cup {None}]]
    BY <1>1 DEF IInv, ActorsTyped, Idle
  <2> QED BY <1>1, <1>3, <1>4, <1>5, <2>1, <2>2, <2>3, <2>4 DEF IInv, ActorsTyped
<1>7. Launches'
  <2> SUFFICES ASSUME NEW e \in Controller, ctl'[e].at = "dispatched"
               PROVE  /\ Reached(log, "dispatch", ctl'[e].request)
                      /\ DispatchOf(log, ctl'[e].request) \notin DOMAIN worker'
                      /\ \A k \in Controller \ {e} : ctl'[k].at = "dispatched" =>
                           ctl'[k].request # ctl'[e].request
    BY <1>1 DEF Launches
  <2>1. e # c /\ ctl'[e] = ctl[e]
    BY <1>5
  <2>2. /\ Reached(log, "dispatch", ctl[e].request)
        /\ DispatchOf(log, ctl[e].request) \notin DOMAIN worker
        /\ ctl[e].request # r
        /\ \A k \in Controller \ {e} : ctl[k].at = "dispatched" => ctl[k].request # ctl[e].request
    BY <1>1, <2>1 DEF IInv, Launches
  <2>3. DispatchOf(log, ctl[e].request) # d
    BY <1>1, <1>3, <2>2, DispatchIs
  <2> QED BY <1>4, <1>5, <2>1, <2>2, <2>3
<1>8. ASSUME NEW x, Captured(x)
      PROVE  /\ DispatchOf(log, x) \in DOMAIN worker' /\ Captured(x)'
             /\ captured'[DispatchOf(log, x)] = captured[DispatchOf(log, x)]
  BY <1>1, <1>4, <1>8 DEF Captured
<1>9. Captures'
  <2>1. ASSUME NEW e \in DOMAIN worker', captured'[e] # None
        PROVE  worker'[e] = "gone"
    BY <1>4, <2>1 DEF IInv, Captures
  <2>2. ASSUME NEW e \in Controller, ctl'[e].at = "finalizing"
        PROVE  /\ Reached(log', "dispatch", ctl'[e].request)
               /\ DispatchOf(log', ctl'[e].request) \in DOMAIN worker'
               /\ captured'[DispatchOf(log', ctl'[e].request)] # None
    <3>1. ctl'[e] = ctl[e] /\ Captured(ctl[e].request)
      BY <1>5, <2>2 DEF IInv, Captures
    <3> QED BY <1>1, <1>8, <3>1 DEF Captured
  <2>3. ASSUME NEW i \in Of(log', "response")
        PROVE  /\ Reached(log', "dispatch", log'[i].request)
               /\ DispatchOf(log', log'[i].request) \in DOMAIN worker'
               /\ captured'[DispatchOf(log', log'[i].request)] # None
               /\ log'[i].status = Assessment(log'[log'[i].request].task, captured'[DispatchOf(log', log'[i].request)])
    <3>1. /\ Captured(log[i].request)
          /\ log[i].status = Assessment(log[log[i].request].task, captured[DispatchOf(log, log[i].request)])
      BY <1>1, <2>3 DEF IInv, Captures
    <3> QED BY <1>1, <1>8, <3>1 DEF Captured
  <2> QED BY <2>1, <2>2, <2>3 DEF Captures, Captured
<1> QED BY <1>1, <1>6, <1>7, <1>9 DEF IInv
LEMMA WorkerStep ==
  ASSUME IInv, NEW d \in DOMAIN worker,
         WorkerDies(d) \/ \E completion \in Completion : Capture(d, completion)
  PROVE  IInv'
<1>1. /\ worker[d] = "calling" /\ worker' = [worker EXCEPT ![d] = "gone"]
      /\ UNCHANGED <<log, ctl, fresh, calls>>
  BY DEF WorkerDies, Capture
<1>2. /\ DOMAIN captured' = DOMAIN worker
      /\ captured' \in [DOMAIN worker -> Completion \cup {None}]
      /\ \A x \in DOMAIN worker : x # d => captured'[x] = captured[x]
  BY DEF WorkerDies, Capture, IInv, ActorsTyped
<1>3. /\ DOMAIN worker' = DOMAIN worker /\ worker'[d] = "gone"
      /\ \A x \in DOMAIN worker : x # d => worker'[x] = worker[x]
  BY <1>1
<1>4. captured[d] = None
  BY <1>1 DEF IInv, Captures
<1>5. ActorsTyped'
  <2>1. worker' \in [DOMAIN worker' -> {"calling", "gone"}]
    BY <1>1, <1>3 DEF IInv, ActorsTyped
  <2> QED BY <1>1, <1>2, <1>3, <2>1 DEF IInv, ActorsTyped, Of
<1>6. Launches'
  BY <1>1, <1>3 DEF IInv, Launches, Reached, Steps, Of, DispatchOf
<1>7. ASSUME NEW x, Captured(x)
      PROVE  /\ Captured(x)'
             /\ captured'[DispatchOf(log, x)] = captured[DispatchOf(log, x)]
  BY <1>1, <1>2, <1>3, <1>4, <1>7 DEF Captured
<1>8. Captures'
  <2>1. ASSUME NEW e \in DOMAIN worker', captured'[e] # None
        PROVE  worker'[e] = "gone"
    BY <1>2, <1>3, <2>1 DEF IInv, Captures
  <2>2. ASSUME NEW e \in Controller, ctl'[e].at = "finalizing"
        PROVE  /\ Reached(log', "dispatch", ctl'[e].request)
               /\ DispatchOf(log', ctl'[e].request) \in DOMAIN worker'
               /\ captured'[DispatchOf(log', ctl'[e].request)] # None
    <3>1. ctl'[e] = ctl[e] /\ Captured(ctl[e].request)
      BY <1>1, <2>2 DEF IInv, Captures
    <3> QED BY <1>1, <1>7, <3>1 DEF Captured
  <2>3. ASSUME NEW i \in Of(log', "response")
        PROVE  /\ Reached(log', "dispatch", log'[i].request)
               /\ DispatchOf(log', log'[i].request) \in DOMAIN worker'
               /\ captured'[DispatchOf(log', log'[i].request)] # None
               /\ log'[i].status = Assessment(log'[log'[i].request].task, captured'[DispatchOf(log', log'[i].request)])
    <3>1. /\ Captured(log[i].request)
          /\ log[i].status = Assessment(log[log[i].request].task, captured[DispatchOf(log, log[i].request)])
      BY <1>1, <2>3 DEF IInv, Captures
    <3> QED BY <1>1, <1>7, <3>1 DEF Captured
  <2> QED BY <2>1, <2>2, <2>3 DEF Captures, Captured
<1> QED BY <1>1, <1>5, <1>6, <1>8 DEF IInv

LEMMA Start == Init => IInv
<1> SUFFICES ASSUME Init
             PROVE  IInv
  OBVIOUS
<1> DEFINE e == [kind |-> "question", parent |-> None, by |-> None]
           f == [kind |-> "set", question |-> 1, parent |-> None, by |-> None]
           h == << e >>
<1>1. e \in Events /\ f \in Events /\ log = << e, f >>
  BY DEF Events, Init
<1>2. Sound(<< >>)
  <2>1. << >> \in Seq(Events) /\ DOMAIN << >> = {}
    OBVIOUS
  <2>2. ASSUME NEW b \in Budget
        PROVE  Cardinality(RequestsOf(<< >>, b)) =< MaxCalls[b]
    <3>1. RequestsOf(<< >>, b) = {}
      BY <2>1 DEF RequestsOf, Of
    <3>2. MaxCalls[b] \in Nat
      BY AgentsAssumption
    <3>3. Cardinality(RequestsOf(<< >>, b)) = 0
      BY <3>1, FS_EmptySet
    <3> QED BY <3>2, <3>3
  <2> QED BY <2>1, <2>2 DEF Sound
<1>3. Sound(h) /\ \A kind : Of(h, kind) = (IF kind = "question" THEN {1} ELSE {})
  <2>1. Append(<< >>, e) = h
    BY <1>1, Tuples
  <2>2. Refers(<< >>, e) /\ Accepts(<< >>, e)
    BY DEF Refers, Accepts, ValidQuestion
  <2>3. Sound(h)
    BY <1>1, <1>2, <2>1, <2>2, SoundGrows
  <2>4. DOMAIN h = {1} /\ h[1].kind = "question"
    OBVIOUS
  <2> HIDE DEF h
  <2> QED BY <2>3, <2>4 DEF Of
<1>4. /\ Keeps(log, h)
      /\ \A kind \in {"dispatch", "response"} : Of(log, kind) = Of(h, kind)
  <2>1. log = h \o << f >>
    BY <1>1, Tuples
  <2>2. Refers(h, f)
    BY <1>3 DEF Refers
  <2>3. h[1].parent = None /\ h[1].kind = "question" /\ None # 1
    BY AgentsAssumption
  <2> HIDE DEF h
  <2>4. ~Revised(h, 1)
    BY <1>3, <2>3 DEF Revised
  <2>5. Accepts(h, f)
    BY <1>3, <2>4 DEF Accepts, ValidSet
  <2>6. f.kind \notin {"dispatch", "response"}
    OBVIOUS
  <2> HIDE DEF f
  <2> QED BY <1>1, <1>3, <2>1, <2>2, <2>5, <2>6, OtherEvent
<1> HIDE DEF e, f, h
<1>5. Of(log, "dispatch") = {} /\ Of(log, "response") = {}
  BY <1>3, <1>4
<1>6. ActorsTyped
  BY <1>5 DEF Init, ActorsTyped, Idle
<1>7. Launches /\ Captures
  BY <1>5 DEF Init, Launches, Captures, Idle
<1> QED BY <1>4, <1>6, <1>7 DEF IInv, Keeps

LEMMA Step == IInv /\ [Next]_vars => IInv'
<1> SUFFICES ASSUME IInv, [Next]_vars
             PROVE  IInv'
  OBVIOUS
<1>0. Sound(log) /\ fresh \subseteq Controller
  BY DEF IInv, ActorsTyped
<1>1. ASSUME log' = log
      PROVE  Quiet
  BY <1>0, <1>1, KeepsItself DEF Quiet
<1>2. CASE Planner
  BY <1>0, <1>2, PlannerQuiet, QuietStep
<1>3. ASSUME NEW c \in Controller, DispatchRefused(c) \/ FinalizeConflicts(c) \/ ApplyRefused(c) \/ Crash(c)
      PROVE  IInv'
  <2>1. /\ log' = log /\ ctl' = [ctl EXCEPT ![c] = Idle] /\ fresh' \subseteq fresh
        /\ UNCHANGED <<worker, captured, calls>>
    BY <1>3 DEF DispatchRefused, FinalizeConflicts, ApplyRefused, Crash, Ends
  <2>2. Quiet
    BY <1>1, <2>1
  <2> QED BY <1>0, <2>1, <2>2, QuietStep
<1>4. ASSUME NEW c \in Controller, Apply(c)
      PROVE  IInv'
  <2>1. Quiet
    BY <1>4, ApplicationWritten DEF Quiet
  <2>2. /\ ctl' = [ctl EXCEPT ![c] = Idle] /\ fresh' = {}
        /\ UNCHANGED <<worker, captured, calls>>
    BY <1>4 DEF Apply, Write
  <2> QED BY <2>1, <2>2, QuietStep
<1>5. ASSUME NEW c \in Controller, ControllerStep(c) \/ Crash(c)
      PROVE  IInv'
  BY <1>3, <1>4, <1>5, DispatchStep, FinalizeStep, LaunchStep DEF ControllerStep
<1>6. CASE UNCHANGED vars
  <2>1. log' = log /\ ctl' = ctl /\ fresh' = fresh /\ UNCHANGED <<worker, captured, calls>>
    BY <1>6 DEF vars
  <2>2. Quiet
    BY <1>1, <2>1
  <2> QED BY <1>0, <2>1, <2>2, QuietStep
<1> QED BY <1>2, <1>5, <1>6, WorkStep, WorkerStep DEF Next

-----------------------------------------------------------------------------
\* What follows for every reachable state.

\* The log is one the replay accepts, dispatches without a worker belong to one
\* controller, and every answer is what was captured.
THEOREM AgentsInvariant == Spec => []IInv
  BY Start, Step, PTL DEF Spec

\* The shapes of the log, the controllers and the workers.
THEOREM AgentsTyped == Spec => []TypeOK
<1>1. IInv => TypeOK
  <2> SUFFICES ASSUME IInv
               PROVE  TypeOK
    OBVIOUS
  <2>1. \A i \in DOMAIN log : log[i] \in Events
    BY DEF IInv, Sound
  <2>2. \A i \in DOMAIN log :
          log[i].kind \in {"question", "set", "node", "evidence", "request", "dispatch",
                           "response", "application"}
    BY <2>1 DEF Events
  <2>3. calls \in [DOMAIN worker -> Nat]
    BY DEF IInv, ActorsTyped
  <2> QED BY <2>2, <2>3 DEF IInv, ActorsTyped, TypeOK
<1> QED BY <1>1, AgentsInvariant, PTL

\* No sequence of accepted commands writes a log the replay refuses
\* (agents.py _index): a controller's reading is current when it writes, and
\* what its command checked is what the replay checks.
THEOREM ReplayIsAccepted == Spec => []ReplayAccepts
<1>1. IInv => ReplayAccepts
  BY DEF IInv, Sound, ReplayAccepts
<1> QED BY <1>1, AgentsInvariant, PTL

\* A provider is called once for a request, and no more often than the budget
\* of the request admits (agent_controller.work_agent).
THEOREM CallsAreBudgeted == Spec => []CallsWithinBudget
<1>1. IInv => CallsWithinBudget
  <2> SUFFICES ASSUME IInv, NEW b \in Budget
               PROVE  LET called == {d \in DOMAIN calls :
                                       calls[d] > 0 /\ log[log[d].request].budget = b}
                      IN  /\ Cardinality(called) =< MaxCalls[b]
                          /\ \A d, e \in called :
                               /\ calls[d] = 1
                               /\ log[d].request = log[e].request => d = e
    BY DEF CallsWithinBudget
  <2> DEFINE called == {d \in DOMAIN calls : calls[d] > 0 /\ log[log[d].request].budget = b}
             requests == RequestsOf(log, b)
             asked == [d \in called |-> log[d].request]
  <2>0. Sound(log) /\ log \in Seq(Events)
    BY DEF IInv, Sound
  <2>1. ASSUME NEW d \in called
        PROVE  d \in Of(log, "dispatch") /\ calls[d] = 1 /\ log[d].request \in requests
    <3>1. d \in Of(log, "dispatch") /\ calls[d] = 1 /\ log[log[d].request].budget = b
      BY DEF IInv, ActorsTyped
    <3>2. d \in DOMAIN log /\ log[d].kind = "dispatch"
      BY <3>1 DEF Of
    <3> DEFINE p == SubSeq(log, 1, d - 1)
    <3>3. Refers(p, log[d]) /\ \A kind : Of(p, kind) = {j \in Of(log, kind) : j < d}
      BY <2>0, <3>2, SoundEvent
    <3> HIDE DEF p
    <3>4. log[d].request \in Of(log, "request")
      BY <3>2, <3>3 DEF Refers
    <3> QED BY <3>1, <3>4 DEF RequestsOf
  <2>2. \A d, e \in called : log[d].request = log[e].request => d = e
    BY <2>0, <2>1, OneEach
  <2>3. IsFiniteSet(requests)
    <3>1. requests \subseteq 1 .. Len(log) /\ Len(log) \in Nat
      BY <2>0 DEF RequestsOf, Of
    <3>2. IsFiniteSet(1 .. Len(log))
      BY <3>1, FS_Interval
    <3> HIDE DEF requests
    <3> QED BY <3>1, <3>2, FS_Subset
  <2>4. asked \in Injection(called, requests)
    <3> HIDE DEF called, requests
    <3> QED BY <2>1, <2>2 DEF Injection, IsInjective
  <2>5. Cardinality(requests) =< MaxCalls[b]
    BY <2>0 DEF Sound
  <2> HIDE DEF called, requests, asked
  <2>6. IsFiniteSet(called) /\ Cardinality(called) =< Cardinality(requests)
    BY <2>3, <2>4, FS_Injection
  <2>7. MaxCalls[b] \in Nat /\ Cardinality(called) \in Nat /\ Cardinality(requests) \in Nat
    BY <2>3, <2>6, FS_CardinalityType, AgentsAssumption
  <2>8. Cardinality(called) =< MaxCalls[b]
    BY <2>5, <2>6, <2>7
  <2> QED BY <2>1, <2>2, <2>8 DEF called
<1> QED BY <1>1, AgentsInvariant, PTL

\* Nothing happened to what the model was shown before its proposal was applied
\* (agents.py _experiment_current): it follows from what the replay accepts.
THEOREM ApplicationsAreCurrent == Spec => []AppliedToUnchanged
<1>1. IInv => AppliedToUnchanged
  BY SoundIsUnchanged DEF IInv
<1> QED BY <1>1, AgentsInvariant, PTL

\* An applied proposal is the file its own worker captured in its one call from
\* a clean stream, and an experiment's file is the provider's last message
\* (agents.py _completion).
THEOREM ApplicationsAreCaptured == Spec => []AppliedIsCaptured
<1>1. IInv => AppliedIsCaptured
  <2> SUFFICES ASSUME IInv, NEW a \in Of(log, "application")
               PROVE  LET d == DispatchOf(log, log[a].request)
                      IN  /\ d \in DOMAIN calls /\ calls[d] = 1
                          /\ captured[d].transport = "completed" /\ captured[d].sound
                          /\ captured[d].answer = "proposed"
                          /\ log[log[a].request].task = "experiment" => captured[d].same
    BY DEF AppliedIsCaptured
  <2> DEFINE r == log[a].request
             d == DispatchOf(log, r)
  <2>0. Sound(log)
    BY DEF IInv
  <2>1. PICK n \in Nat :
          LET m == SubSeq(log, 1, n)
          IN  /\ m \in Seq(Events) /\ Extends(log, m) /\ DOMAIN m = 1 .. n
              /\ \A kind, x : Steps(m, kind, x) = {j \in Steps(log, kind, x) : j =< n}
              /\ Status(m, r) = "proposed"
    BY <2>0, Application
  <2> DEFINE m == SubSeq(log, 1, n)
  <2>2. /\ m \in Seq(Events) /\ Extends(log, m) /\ DOMAIN m = 1 .. n
        /\ \A kind, x : Steps(m, kind, x) = {j \in Steps(log, kind, x) : j =< n}
        /\ Status(m, r) = "proposed"
    BY <2>1
  <2> DEFINE i == CHOOSE k \in Steps(m, "response", r) : TRUE
  <2> HIDE DEF m, r
  <2>3. Reached(m, "response", r) /\ m[i].status = "proposed"
    BY <2>2 DEF Status, ResponseOf
  <2>4. i \in Steps(m, "response", r)
    BY <2>3 DEF Reached
  <2> HIDE DEF i
  <2>5. i \in Of(log, "response") /\ log[i].request = r
    <3>1. i \in Steps(log, "response", r)
      BY <2>2, <2>4
    <3> QED BY <3>1 DEF Steps
  <2>6. log[i] = m[i]
    BY <2>2, <2>4 DEF Extends, Steps, Of
  <2>7. Captured(r) /\ Assessment(log[r].task, captured[d]) = "proposed"
    BY <2>3, <2>5, <2>6 DEF IInv, Captures
  <2>8. d \in DOMAIN worker /\ captured[d] \in Completion
    BY <2>7 DEF Captured, IInv, ActorsTyped
  <2>9. calls[d] = 1 /\ d \in DOMAIN calls
    BY <2>8 DEF IInv, ActorsTyped
  <2> DEFINE c == captured[d]
  <2>10. c.transport \in {"completed", "failed", "unknown"} /\ c.sound \in BOOLEAN /\ c.same \in BOOLEAN
    BY <2>8, AgentsAssumption DEF CompletionShape
  <2> HIDE DEF d, c
  <2>11. /\ c.transport = "completed" /\ c.sound /\ c.answer = "proposed"
         /\ log[r].task = "experiment" => c.same
    BY <2>7, <2>10 DEF Assessment, c
  <2> QED BY <2>9, <2>11 DEF d, c, r
<1> QED BY <1>1, AgentsInvariant, PTL
=============================================================================
