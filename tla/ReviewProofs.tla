---------------------------- MODULE ReviewProofs ----------------------------
(***************************************************************************)
(* Review.tla for every number of reviewers, claims and events.            *)
(*                                                                         *)
(* The log only grows, and a sound history is one that commands can have   *)
(* written.  All that next_action says of a claim is a fact about such a   *)
(* history; most of it rests on one observation: what a claim depends on   *)
(* (lineage, context, evidence) only grows with the history.               *)
(***************************************************************************)
EXTENDS Review, SequenceTheorems, WellFoundedInduction, TLAPS

-----------------------------------------------------------------------------
\* Histories.

\* The history g goes on where h ends.
Extends(g, h) ==
    /\ DOMAIN h \subseteq DOMAIN g
    /\ \A i \in DOMAIN h : g[i] = h[i] /\ Before(g, i) = Before(h, i)

LEMMA BeforeIs ==
  ASSUME NEW h \in Seq(Event), NEW i \in 1 .. Len(h) + 1
  PROVE  /\ Before(h, i) \in Seq(Event) /\ Len(Before(h, i)) = i - 1
         /\ DOMAIN Before(h, i) = {j \in DOMAIN h : j < i}
         /\ \A j \in DOMAIN Before(h, i) : Before(h, i)[j] = h[j]
<1> DEFINE m == i - 1
           b == SubSeq(h, 1, m)
<1>1. DOMAIN h = 1 .. Len(h) /\ Len(h) \in Nat /\ m \in Nat /\ m =< Len(h)
  OBVIOUS
<1> HIDE DEF m
<1>2. b \in Seq(Event) /\ Len(b) = m /\ \A j \in 1 .. m : b[j] = h[j]
  <2>1. CASE m = 0
    <3>1. b = << >>
      BY <2>1, SubSeqEmpty
    <3> QED BY <2>1, <3>1
  <2>2. CASE m # 0
    <3>1. 1 \in 1 .. Len(h) + 1 /\ m \in 1 - 1 .. Len(h)
      BY <1>1, <2>2
    <3>2. /\ b \in Seq(Event) /\ Len(b) = (IF 1 =< m THEN m - 1 + 1 ELSE 0)
          /\ \A j \in 1 .. m - 1 + 1 : b[j] = h[1 + j - 1]
      BY <1>1, <2>2, SubSeqProperties
    <3> QED BY <1>1, <2>2, <3>2
  <2> QED BY <2>1, <2>2
<1>3. Before(h, i) = b
  BY DEF Before, m
<1> HIDE DEF b
<1>4. DOMAIN b = 1 .. m
  BY <1>1, <1>2
<1>5. 1 .. m = {j \in DOMAIN h : j < i}
  BY <1>1 DEF m
<1> QED BY <1>2, <1>3, <1>4, <1>5 DEF m

LEMMA SamePrefix ==
  ASSUME NEW h \in Seq(Event), NEW g \in Seq(Event), DOMAIN h \subseteq DOMAIN g,
         \A i \in DOMAIN h : g[i] = h[i]
  PROVE  Extends(g, h)
<1> SUFFICES ASSUME NEW i \in DOMAIN h
             PROVE  Before(g, i) = Before(h, i)
  BY DEF Extends
<1>1. /\ DOMAIN h = 1 .. Len(h) /\ Len(h) \in Nat
      /\ DOMAIN g = 1 .. Len(g) /\ Len(g) \in Nat
  OBVIOUS
<1>2. i \in 1 .. Len(h) + 1 /\ i \in 1 .. Len(g) + 1
  BY <1>1
<1> DEFINE b == Before(h, i)
           c == Before(g, i)
<1>3. /\ b \in Seq(Event) /\ Len(b) = i - 1
      /\ DOMAIN b = {j \in DOMAIN h : j < i} /\ \A j \in DOMAIN b : b[j] = h[j]
  BY <1>2, BeforeIs
<1>4. /\ c \in Seq(Event) /\ Len(c) = i - 1
      /\ DOMAIN c = {j \in DOMAIN g : j < i} /\ \A j \in DOMAIN c : c[j] = g[j]
  BY <1>2, BeforeIs
<1> HIDE DEF b, c
<1>5. DOMAIN b = 1 .. Len(b) /\ DOMAIN c = 1 .. Len(b)
  BY <1>3, <1>4
<1>6. \A j \in 1 .. Len(b) : b[j] = c[j]
  BY <1>3, <1>4, <1>5
<1>7. b = c
  BY <1>3, <1>4, <1>6, SeqEqual
<1> QED BY <1>7 DEF b, c

\* One event more.
LEMMA AppendExtends ==
  ASSUME NEW h \in Seq(Event), NEW e \in Event, NEW g, g = Append(h, e)
  PROVE  /\ g \in Seq(Event) /\ Extends(g, h) /\ Before(g, Len(h) + 1) = h
         /\ Len(h) + 1 \in Nat /\ DOMAIN g = DOMAIN h \cup {Len(h) + 1}
         /\ Len(h) + 1 \notin DOMAIN h /\ g[Len(h) + 1] = e
<1> DEFINE n == Len(h) + 1
<1>1. /\ g \in Seq(Event) /\ n \in Nat /\ DOMAIN h = 1 .. n - 1 /\ DOMAIN g = 1 .. n
      /\ g[n] = e /\ \A i \in 1 .. n - 1 : g[i] = h[i] /\ Len(g) = n /\ Len(h) = n - 1
  BY AppendProperties
<1> HIDE DEF n
<1>2. DOMAIN g = DOMAIN h \cup {n} /\ n \notin DOMAIN h
  BY <1>1
<1>3. Extends(g, h)
  BY <1>1, <1>2, SamePrefix
<1> DEFINE b == Before(g, n)
<1>4. /\ b \in Seq(Event) /\ Len(b) = n - 1
      /\ DOMAIN b = {j \in DOMAIN g : j < n} /\ \A j \in DOMAIN b : b[j] = g[j]
  <2>1. n \in 1 .. Len(g) + 1
    BY <1>1
  <2> QED BY <1>1, <2>1, BeforeIs
<1> HIDE DEF b
<1>5. \A j \in 1 .. Len(b) : b[j] = h[j]
  <2>1. b \in Seq(Event) /\ Len(b) = n - 1
    BY <1>4
  <2>2. DOMAIN b = 1 .. Len(b)
    BY <2>1
  <2>3. \A j \in 1 .. Len(b) : j \in 1 .. n - 1
    BY <2>1
  <2> QED BY <1>1, <1>4, <2>2, <2>3
<1>6. b = h
  <2>1. Len(b) = Len(h) /\ b \in Seq(Event)
    BY <1>1, <1>4
  <2> QED BY <1>4, <1>5, <2>1, SeqEqual
<1> QED BY <1>1, <1>2, <1>3, <1>6 DEF n, b

\* An accepted event that refers to earlier ones keeps the history sound.
LEMMA SoundGrows ==
  ASSUME NEW h, Sound(h), NEW e \in Event, Refers(h, e), Accepts(h, e),
         NEW g, g = Append(h, e)
  PROVE  Sound(g) /\ Extends(g, h)
<1>1. h \in Seq(Event)
  BY DEF Sound
<1> DEFINE n == Len(h) + 1
<1>2. /\ g \in Seq(Event) /\ Extends(g, h) /\ Before(g, n) = h
      /\ DOMAIN g = DOMAIN h \cup {n} /\ g[n] = e
  BY <1>1, AppendExtends
<1> HIDE DEF n
<1>3. ASSUME NEW i \in DOMAIN g
      PROVE  Refers(Before(g, i), g[i]) /\ Accepts(Before(g, i), g[i])
  <2>1. CASE i \in DOMAIN h
    BY <1>2, <2>1 DEF Sound, Extends
  <2>2. CASE i = n
    BY <1>2, <2>2
  <2> QED BY <1>2, <2>1, <2>2
<1> QED BY <1>2, <1>3 DEF Sound

\* An event of a sound history, and the history before it.
LEMMA SoundEvent ==
  ASSUME NEW h, Sound(h), NEW i \in DOMAIN h
  PROVE  LET b == Before(h, i)
         IN  /\ i \in Nat /\ h[i] \in Event
             /\ Extends(h, b) /\ DOMAIN b = {j \in DOMAIN h : j < i}
             /\ \A kind : Of(b, kind) = {j \in Of(h, kind) : j < i}
             /\ Refers(b, h[i]) /\ Accepts(b, h[i])
<1> DEFINE b == Before(h, i)
<1>1. h \in Seq(Event) /\ Refers(b, h[i]) /\ Accepts(b, h[i])
  BY DEF Sound
<1>2. i \in Nat /\ i \in 1 .. Len(h) + 1 /\ h[i] \in Event
  BY <1>1
<1>3. /\ b \in Seq(Event) /\ DOMAIN b = {j \in DOMAIN h : j < i}
      /\ \A j \in DOMAIN b : b[j] = h[j]
  BY <1>1, <1>2, BeforeIs
<1>4. Extends(h, b)
  BY <1>1, <1>3, SamePrefix
<1>5. \A kind : Of(b, kind) = {j \in Of(h, kind) : j < i}
  BY <1>3 DEF Of
<1> QED BY <1>1, <1>2, <1>3, <1>4, <1>5

LEMMA SoundBefore ==
  ASSUME NEW h, Sound(h), NEW i \in DOMAIN h
  PROVE  Sound(Before(h, i))
<1> DEFINE b == Before(h, i)
<1>1. h \in Seq(Event) /\ i \in 1 .. Len(h) + 1
  BY DEF Sound
<1>2. b \in Seq(Event) /\ Extends(h, b)
  BY <1>1, BeforeIs, SoundEvent
<1>3. \A j \in DOMAIN b : Refers(Before(b, j), b[j]) /\ Accepts(Before(b, j), b[j])
  BY <1>2 DEF Sound, Extends
<1> QED BY <1>2, <1>3 DEF Sound

-----------------------------------------------------------------------------
\* What the events of a sound history name.

LEMMA Ranked ==
  ASSUME NEW h, Sound(h), NEW kind, NEW i \in Of(h, kind)
  PROVE  i \in DOMAIN h /\ i \in Nat /\ h[i] \in Event /\ h[i].kind = kind
BY SoundEvent DEF Of

LEMMA Protocols ==
  ASSUME NEW h, Sound(h), NEW p \in Of(h, "protocol")
  PROVE  /\ h[p].data \in Nat /\ h[p].seen \subseteq Nat /\ h[p].mode \in Mode
         /\ h[p].data # None
BY Ranked, StartAssumption DEF Event

LEMMA Runs ==
  ASSUME NEW h, Sound(h), NEW r \in Of(h, "run")
  PROVE  h[r].protocol \in Of(h, "protocol") /\ h[r].protocol < r /\ r \in Nat
<1>1. r \in DOMAIN h /\ r \in Nat /\ h[r].kind = "run"
  BY Ranked
<1> DEFINE b == Before(h, r)
<1>2. Refers(b, h[r]) /\ \A kind : Of(b, kind) = {j \in Of(h, kind) : j < r}
  BY <1>1, SoundEvent
<1> HIDE DEF b
<1>3. h[r].protocol \in Of(b, "protocol")
  BY <1>1, <1>2 DEF Refers
<1> QED BY <1>1, <1>2, <1>3

LEMMA Results ==
  ASSUME NEW h, Sound(h), NEW r \in Of(h, "result")
  PROVE  /\ h[r].run \in Of(h, "run") /\ h[r].run < r /\ r \in Nat
         /\ h[h[r].run].protocol \in Of(h, "protocol") /\ h[h[r].run].protocol < r
         /\ h[r].completed \in BOOLEAN
<1>1. r \in DOMAIN h /\ r \in Nat /\ h[r].kind = "result" /\ h[r] \in Event
  BY Ranked
<1> DEFINE b == Before(h, r)
<1>2. Refers(b, h[r]) /\ \A kind : Of(b, kind) = {j \in Of(h, kind) : j < r}
  BY <1>1, SoundEvent
<1> HIDE DEF b
<1>3. h[r].run \in Of(b, "run")
  BY <1>1, <1>2 DEF Refers
<1>4. h[r].run \in Of(h, "run") /\ h[r].run < r
  BY <1>2, <1>3
<1>5. /\ h[h[r].run].protocol \in Of(h, "protocol") /\ h[h[r].run].protocol < h[r].run
      /\ h[r].run \in Nat /\ h[h[r].run].protocol \in Nat
  BY <1>4, Runs, Ranked
<1>6. h[r].completed \in BOOLEAN
  BY <1>1 DEF Event
<1> QED BY <1>1, <1>4, <1>5, <1>6

LEMMA Claims ==
  ASSUME NEW h, Sound(h), NEW c \in Of(h, "claim")
  PROVE  /\ h[c].protocol \in Of(h, "protocol") /\ c \in Nat
         /\ h[c].protocol \in Of(Before(h, c), "protocol")
         /\ h[c].evidence = Completed(Before(h, c), h[c].protocol) /\ h[c].evidence # {}
         /\ h[c].confirmatory => h[h[c].protocol].mode = "confirmatory"
         /\ \A r \in h[c].evidence : r \in Of(h, "result") /\ r < c
<1> DEFINE b == Before(h, c)
<1>1. c \in DOMAIN h /\ c \in Nat /\ h[c].kind = "claim"
  BY Ranked
<1>2. /\ Refers(b, h[c]) /\ \A kind : Of(b, kind) = {j \in Of(h, kind) : j < c}
      /\ Extends(h, b)
  BY <1>1, SoundEvent
<1>3. /\ h[c].protocol \in Of(b, "protocol")
      /\ h[c].evidence = Completed(b, h[c].protocol) /\ h[c].evidence # {}
      /\ h[c].confirmatory => b[h[c].protocol].mode = "confirmatory"
  BY <1>1, <1>2 DEF Refers
<1>4. b[h[c].protocol] = h[h[c].protocol]
  BY <1>2, <1>3 DEF Extends, Of
<1>5. \A r \in h[c].evidence : r \in Of(b, "result")
  BY <1>3 DEF Completed, ResultsOf
<1> QED BY <1>1, <1>2, <1>3, <1>4, <1>5

LEMMA Links ==
  ASSUME NEW h, Sound(h), NEW l \in Of(h, "link")
  PROVE  h[l].source \in Of(h, "claim") /\ h[l].target \in Of(h, "claim")
<1>1. l \in DOMAIN h /\ h[l].kind = "link"
  BY Ranked
<1> DEFINE b == Before(h, l)
<1>2. Refers(b, h[l]) /\ \A kind : Of(b, kind) = {j \in Of(h, kind) : j < l}
  BY <1>1, SoundEvent
<1> HIDE DEF b
<1> QED BY <1>1, <1>2 DEF Refers

LEMMA Assignments ==
  ASSUME NEW h, Sound(h), NEW a \in Of(h, "assignment")
  PROVE  /\ h[a].claim \in Of(h, "claim") /\ h[a].claim \in Of(Before(h, a), "claim")
         /\ h[a].basis = Basis(Before(h, a), h[a].claim)
<1> DEFINE b == Before(h, a)
<1>1. a \in DOMAIN h /\ h[a].kind = "assignment"
  BY Ranked
<1>2. /\ Refers(b, h[a]) /\ Accepts(b, h[a])
      /\ \A kind : Of(b, kind) = {j \in Of(h, kind) : j < a}
  BY <1>1, SoundEvent
<1>3. h[a].claim \in Of(b, "claim")
  BY <1>1, <1>2 DEF Refers
<1>4. AcceptsAssignment(b, h[a])
  BY <1>1, <1>2 DEF Accepts
<1> QED BY <1>2, <1>3, <1>4 DEF AcceptsAssignment

LEMMA Responses ==
  ASSUME NEW h, Sound(h), NEW i \in Of(h, "response")
  PROVE  /\ h[i].assignment \in Of(h, "assignment") /\ h[i].assignment < i /\ i \in Nat
         /\ Admissible(h, h[i].assignment, h[i].answer)
         /\ h[i].answer \in Opinion
<1>1. i \in DOMAIN h /\ i \in Nat /\ h[i].kind = "response" /\ h[i] \in Event
  BY Ranked
<1> DEFINE b == Before(h, i)
<1>2. /\ Refers(b, h[i]) /\ \A kind : Of(b, kind) = {j \in Of(h, kind) : j < i}
      /\ Extends(h, b)
  BY <1>1, SoundEvent
<1> HIDE DEF b
<1>3. h[i].assignment \in Of(b, "assignment") /\ Admissible(b, h[i].assignment, h[i].answer)
  BY <1>1, <1>2 DEF Refers
<1>4. b[h[i].assignment] = h[h[i].assignment]
  BY <1>2, <1>3 DEF Extends, Of
<1>5. h[i].answer \in Opinion
  BY <1>1 DEF Event
<1> QED BY <1>1, <1>2, <1>3, <1>4, <1>5 DEF Admissible

LEMMA Reviews ==
  ASSUME NEW h, Sound(h), NEW i \in Of(h, "review")
  PROVE  /\ i \in Nat /\ h[i].claim \in Of(h, "claim")
         /\ h[i].claim \in Of(Before(h, i), "claim")
         /\ h[i].withdraws \cup h[i].resolves # {} =>
              /\ h[i].verdict = "approve" /\ h[i].assignment # None
              /\ h[h[i].assignment].policy = "reconsideration"
         /\ h[i].assignment = None => h[i].verdict = "reject"
         /\ h[i].assignment # None =>
              /\ h[i].assignment \in Of(h, "assignment") /\ h[i].assignment < i
              /\ h[i].assignment \in Of(Before(h, i), "assignment")
              /\ h[h[i].assignment].claim = h[i].claim /\ h[h[i].assignment].by = h[i].by
              /\ AcceptsSubmission(Before(h, i), h[i])
         /\ h[i].verdict \in {"approve", "reject"}
<1> DEFINE b == Before(h, i)
<1>1. i \in DOMAIN h /\ i \in Nat /\ h[i].kind = "review" /\ h[i] \in Event
  BY Ranked
<1>2. /\ Refers(b, h[i]) /\ Accepts(b, h[i]) /\ Extends(h, b)
      /\ \A kind : Of(b, kind) = {j \in Of(h, kind) : j < i}
  BY <1>1, SoundEvent
<1>3. h[i].claim \in Of(b, "claim")
  BY <1>1, <1>2 DEF Refers
<1>4. h[i].assignment # None =>
        /\ h[i].assignment \in Of(b, "assignment")
        /\ b[h[i].assignment].claim = h[i].claim /\ b[h[i].assignment].by = h[i].by
        /\ b[h[i].assignment] = h[h[i].assignment]
  BY <1>1, <1>2 DEF Refers, Extends, Of
<1>5. h[i].assignment # None => AcceptsSubmission(b, h[i])
  BY <1>1, <1>2 DEF Accepts
<1>6. /\ Admissible(b, h[i].assignment, h[i])
      /\ h[i].assignment = None => h[i].verdict = "reject"
  BY <1>1, <1>2 DEF Refers
<1>7. h[i].verdict \in {"approve", "reject"}
  BY <1>1 DEF Event
<1> QED BY <1>1, <1>2, <1>3, <1>4, <1>5, <1>6, <1>7 DEF Admissible

-----------------------------------------------------------------------------
\* What a claim depends on only grows with the history.

LEMMA ReachGrows ==
  ASSUME NEW S, NEW U, S \subseteq U, NEW E, NEW F, E \subseteq F, E \subseteq S \X S,
         NEW x \in S
  PROVE  Reach(x, S, E) \subseteq Reach(x, U, F)
<1> SUFFICES ASSUME NEW y \in Reach(x, S, E), NEW T \in SUBSET U, x \in T, y \notin T
             PROVE  \E e \in F : e[1] \in T /\ e[2] \notin T
  BY DEF Reach
<1>1. T \cap S \in SUBSET S /\ x \in T \cap S /\ y \notin T \cap S
  OBVIOUS
<1>2. PICK e \in E : e[1] \in T \cap S /\ e[2] \notin T \cap S
  BY <1>1 DEF Reach
<1>3. e[2] \in S /\ e \in F
  OBVIOUS
<1> QED BY <1>2, <1>3

LEMMA ReachStays ==
  ASSUME NEW S, NEW E, NEW x \in S
  PROVE  x \in Reach(x, S, E) /\ Reach(x, S, E) \subseteq S
BY DEF Reach

LEMMA EventsLast ==
  ASSUME NEW h, NEW g, Extends(g, h), NEW kind, NEW i \in Of(h, kind)
  PROVE  i \in Of(g, kind) /\ g[i] = h[i] /\ Before(g, i) = Before(h, i)
BY DEF Extends, Of

LEMMA ResultsGrow ==
  ASSUME NEW h, Sound(h), NEW g, Extends(g, h), NEW p
  PROVE  /\ RunsOf(h, p) \subseteq RunsOf(g, p)
         /\ ResultsOf(h, p) \subseteq ResultsOf(g, p)
<1>1. \A r \in RunsOf(h, p) : r \in RunsOf(g, p)
  BY EventsLast DEF RunsOf
<1>2. ASSUME NEW r \in ResultsOf(h, p) PROVE r \in ResultsOf(g, p)
  <2>1. r \in Of(h, "result") /\ h[h[r].run].protocol = p /\ h[r].run \in Of(h, "run")
    BY Results DEF ResultsOf
  <2>2. r \in Of(g, "result") /\ g[r] = h[r] /\ g[h[r].run] = h[h[r].run]
    BY <2>1, EventsLast
  <2> QED BY <2>1, <2>2 DEF ResultsOf
<1> QED BY <1>1, <1>2

LEMMA BytesGrow ==
  ASSUME NEW h, Sound(h), NEW g, Extends(g, h), NEW p \in Of(h, "protocol")
  PROVE  Bytes(h, p) \subseteq Bytes(g, p)
<1>1. g[p] = h[p]
  BY EventsLast
<1>2. \A r \in ResultsOf(h, p) : r \in ResultsOf(g, p) /\ g[r] = h[r]
  BY ResultsGrow, EventsLast DEF ResultsOf
<1> QED BY <1>1, <1>2 DEF Bytes

LEMMA JoinedLasts ==
  ASSUME NEW h, Sound(h), NEW g, Extends(g, h),
         NEW a \in Of(h, "protocol"), NEW b \in Of(h, "protocol"), Joined(h, a, b)
  PROVE  Joined(g, a, b)
<1>1. CASE a = h[b].parent
  BY <1>1, EventsLast DEF Joined
<1>2. CASE Bytes(h, a) \cap Bytes(h, b) # {}
  BY <1>2, BytesGrow DEF Joined
<1>3. ASSUME NEW l \in Of(h, "link"), h[l].relation = "supersedes",
             h[h[l].source].protocol = a, h[h[l].target].protocol = b
      PROVE  Joined(g, a, b)
  <2>1. l \in Of(g, "link") /\ g[l] = h[l]
    BY EventsLast
  <2>2. h[l].source \in Of(h, "claim") /\ h[l].target \in Of(h, "claim")
    BY Links
  <2>3. g[h[l].source] = h[h[l].source] /\ g[h[l].target] = h[h[l].target]
    BY <2>2, EventsLast
  <2> QED BY <1>3, <2>1, <2>3 DEF Joined
<1> QED BY <1>1, <1>2, <1>3 DEF Joined

LEMMA LineageGrows ==
  ASSUME NEW h, Sound(h), NEW g, Extends(g, h), NEW p \in Of(h, "protocol")
  PROVE  /\ Lineage(h, p) \subseteq Lineage(g, p)
         /\ Lineage(h, p) \subseteq Of(h, "protocol")
<1> DEFINE S == Of(h, "protocol")
           U == Of(g, "protocol")
           E == {e \in S \X S : Joined(h, e[1], e[2]) \/ Joined(h, e[2], e[1])}
           F == {e \in U \X U : Joined(g, e[1], e[2]) \/ Joined(g, e[2], e[1])}
<1>1. S \subseteq U
  BY EventsLast
<1>2. ASSUME NEW e \in E PROVE e \in F
  <2>1. e \in S \X S /\ e[1] \in S /\ e[2] \in S
    OBVIOUS
  <2>2. Joined(h, e[1], e[2]) => Joined(g, e[1], e[2])
    BY <2>1, JoinedLasts
  <2>3. Joined(h, e[2], e[1]) => Joined(g, e[2], e[1])
    BY <2>1, JoinedLasts
  <2>4. e \in U \X U
    BY <1>1, <2>1
  <2> QED BY <2>2, <2>3, <2>4
<1>3. Lineage(h, p) = Reach(p, S, E) /\ Lineage(g, p) = Reach(p, U, F)
  BY DEF Lineage
<1>4. E \subseteq F /\ E \subseteq S \X S
  BY <1>2
<1> HIDE DEF E, F
<1>5. Reach(p, S, E) \subseteq Reach(p, U, F)
  BY <1>1, <1>4, ReachGrows
<1>6. Reach(p, S, E) \subseteq S
  BY ReachStays
<1> QED BY <1>3, <1>5, <1>6

LEMMA ContextGrows ==
  ASSUME NEW h, Sound(h), NEW g, Extends(g, h), NEW c \in Of(h, "claim")
  PROVE  /\ Context(h, c) \subseteq Context(g, c)
         /\ Context(h, c) \subseteq Of(h, "claim") /\ c \in Context(h, c)
<1> DEFINE S == Of(h, "claim")
           U == Of(g, "claim")
           E == {e \in S \X S : Leads(h, e[1], e[2])}
           F == {e \in U \X U : Leads(g, e[1], e[2])}
<1>1. S \subseteq U
  BY EventsLast
<1>2. ASSUME NEW e \in E PROVE e \in F
  <2>1. e \in S \X S /\ e \in U \X U /\ Leads(h, e[1], e[2])
    BY <1>1
  <2>2. \A l \in Of(h, "link") : l \in Of(g, "link") /\ g[l] = h[l]
    BY EventsLast
  <2>3. Leads(g, e[1], e[2])
    BY <2>1, <2>2 DEF Leads
  <2> QED BY <2>1, <2>3
<1>3. Context(h, c) = Reach(c, S, E) /\ Context(g, c) = Reach(c, U, F)
  BY DEF Context
<1>4. E \subseteq F /\ E \subseteq S \X S
  BY <1>2
<1> HIDE DEF E, F
<1>5. Reach(c, S, E) \subseteq Reach(c, U, F)
  BY <1>1, <1>4, ReachGrows
<1>6. Reach(c, S, E) \subseteq S /\ c \in Reach(c, S, E)
  BY ReachStays
<1> QED BY <1>3, <1>5, <1>6

LEMMA LedgerGrows ==
  ASSUME NEW h, Sound(h), NEW g, Extends(g, h), NEW c \in Of(h, "claim")
  PROVE  Ledger(h, c) \subseteq Ledger(g, c)
<1>1. g[c] = h[c] /\ h[c].protocol \in Of(h, "protocol")
  BY EventsLast, Claims
<1>2. Lineage(h, h[c].protocol) \subseteq Lineage(g, h[c].protocol)
  BY <1>1, LineageGrows
<1>3. \A p : ResultsOf(h, p) \subseteq ResultsOf(g, p)
  BY ResultsGrow
<1> QED BY <1>1, <1>2, <1>3 DEF Ledger

\* The events of a kind before an event of h are the same in g.
LEMMA EarlierLast ==
  ASSUME NEW h, Sound(h), NEW g, Sound(g), Extends(g, h), NEW i \in DOMAIN h, NEW kind
  PROVE  {j \in Of(g, kind) : j < i} = {j \in Of(h, kind) : j < i}
<1>1. i \in DOMAIN g /\ Before(g, i) = Before(h, i)
  BY DEF Extends
<1>2. Of(Before(h, i), kind) = {j \in Of(h, kind) : j < i}
  BY SoundEvent
<1>3. Of(Before(g, i), kind) = {j \in Of(g, kind) : j < i}
  BY <1>1, SoundEvent
<1> QED BY <1>1, <1>2, <1>3

LEMMA ContextLinksGrow ==
  ASSUME NEW h, Sound(h), NEW g, Extends(g, h), NEW c \in Of(h, "claim")
  PROVE  ContextLinks(h, c) \subseteq ContextLinks(g, c)
BY ContextGrows, EventsLast DEF ContextLinks

LEMMA ContextFindingsGrow ==
  ASSUME NEW h, Sound(h), NEW g, Sound(g), Extends(g, h), NEW c \in Of(h, "claim")
  PROVE  ContextFindings(h, c) \subseteq ContextFindings(g, c)
<1> SUFFICES ASSUME NEW i \in ContextFindings(h, c)
             PROVE  i \in ContextFindings(g, c)
  OBVIOUS
<1> DEFINE earlier == {j \in Of(h, "review") :
                         j < i /\ h[j].claim = h[i].claim /\ h[j].by = h[i].by}
           former == {j \in Of(g, "review") :
                         j < i /\ g[j].claim = g[i].claim /\ g[j].by = g[i].by}
<1>1. /\ i \in Of(h, "review") /\ h[i].claim \in Context(h, c) \ {c}
      /\ \/ h[i].verdict = "reject"
         \/ \E j \in earlier : h[j].verdict = "reject" /\ \A k \in earlier : k =< j
  BY DEF ContextFindings
<1>2. i \in Of(g, "review") /\ g[i] = h[i] /\ i \in DOMAIN h
  BY <1>1, EventsLast, Ranked
<1>3. {j \in Of(g, "review") : j < i} = {j \in Of(h, "review") : j < i}
  BY <1>2, EarlierLast
<1>4. \A j \in Of(h, "review") : g[j] = h[j]
  BY EventsLast
<1>5. former = earlier
  BY <1>2, <1>3, <1>4
<1>6. \A j \in earlier : g[j] = h[j]
  BY <1>4
<1>7. Context(h, c) \subseteq Context(g, c)
  BY ContextGrows
<1>8. /\ g[i].claim \in Context(g, c) \ {c}
      /\ \/ g[i].verdict = "reject"
         \/ \E j \in former : g[j].verdict = "reject" /\ \A k \in former : k =< j
  <2> HIDE DEF earlier, former
  <2> QED BY <1>1, <1>2, <1>5, <1>6, <1>7
<1> QED BY <1>2, <1>8 DEF ContextFindings

LEMMA ExposuresGrow ==
  ASSUME NEW h, Sound(h), NEW g, Extends(g, h), NEW p \in Of(h, "protocol")
  PROVE  Exposures(h, p) \subseteq Exposures(g, p)
<1> DEFINE data(k) == Bytes(k, p) \cup k[p].seen
           declarations(k) == {q \in Of(k, "protocol") \ {p} :
                                 (k[q].seen \ Known(Before(k, q))) \cap data(k) # {}}
           runs(k) == {r \in Of(k, "run") :
                         k[r].protocol # p /\ k[k[r].protocol].data \in data(k)}
           results(k) == {r \in Of(k, "result") :
                            /\ k[k[r].run].protocol # p
                            /\ k[r].raw \in data(k) \/ k[r].run \in runs(k)}
           attempts(k) == runs(k) \cup {k[r].run : r \in results(k)}
           declared(k) == {e \in Of(k, "exposure") : k[e].data \in data(k) \/ k[e].protocol = p}
<1>1. g[p] = h[p] /\ data(h) \subseteq data(g)
  BY EventsLast, BytesGrow
<1>2. declared(h) \subseteq declared(g)
  <2> HIDE DEF data
  <2> QED BY <1>1, EventsLast
<1>3. declarations(h) \subseteq declarations(g)
  <2> HIDE DEF data
  <2> QED BY <1>1, EventsLast
<1>4. runs(h) \subseteq runs(g)
  <2> HIDE DEF data
  <2> SUFFICES ASSUME NEW r \in runs(h) PROVE r \in runs(g)
    OBVIOUS
  <2>1. r \in Of(h, "run") /\ h[r].protocol \in Of(h, "protocol")
    BY Runs
  <2>2. r \in Of(g, "run") /\ g[r] = h[r] /\ g[h[r].protocol] = h[h[r].protocol]
    BY <2>1, EventsLast
  <2> QED BY <1>1, <2>2
<1>5. results(h) \subseteq results(g) /\ \A r \in results(h) : g[r] = h[r]
  <2> HIDE DEF data, runs
  <2> SUFFICES ASSUME NEW r \in results(h) PROVE r \in results(g) /\ g[r] = h[r]
    OBVIOUS
  <2>1. r \in Of(h, "result") /\ h[r].run \in Of(h, "run")
    BY Results
  <2>2. r \in Of(g, "result") /\ g[r] = h[r] /\ g[h[r].run] = h[h[r].run]
    BY <2>1, EventsLast
  <2> QED BY <1>1, <1>4, <2>2
<1>6. attempts(h) \subseteq attempts(g)
  <2> HIDE DEF runs, results
  <2> QED BY <1>4, <1>5
<1>7. \A r \in attempts(h) : g[r] = h[r]
  <2> SUFFICES ASSUME NEW r \in attempts(h) PROVE g[r] = h[r]
    OBVIOUS
  <2>1. r \in Of(h, "run")
    BY Results
  <2> QED BY <2>1, EventsLast
<1>8. \A k : Exposures(k, p) = IF k[p].mode = "unclassified" THEN {}
                               ELSE declared(k) \cup declarations(k) \cup results(k) \cup attempts(k)
                                      \cup {k[r].protocol : r \in attempts(k)}
  BY DEF Exposures
<1> HIDE DEF declared, declarations, results, attempts, runs, data
<1> QED BY <1>1, <1>2, <1>3, <1>5, <1>6, <1>7, <1>8

LEMMA LocalEvidenceGrows ==
  ASSUME NEW h, Sound(h), NEW g, Extends(g, h), NEW c \in Of(h, "claim")
  PROVE  LocalEvidence(h, c) \subseteq LocalEvidence(g, c)
<1>1. g[c] = h[c] /\ h[c].protocol \in Of(h, "protocol")
  BY EventsLast, Claims
<1>2. Exposures(h, h[c].protocol) \subseteq Exposures(g, h[c].protocol)
  BY <1>1, ExposuresGrow
<1>3. /\ RunsOf(h, h[c].protocol) \subseteq RunsOf(g, h[c].protocol)
      /\ ResultsOf(h, h[c].protocol) \subseteq ResultsOf(g, h[c].protocol)
  BY ResultsGrow
<1> QED BY <1>1, <1>2, <1>3 DEF LocalEvidence

LEMMA BasisGrows ==
  ASSUME NEW h, Sound(h), NEW g, Sound(g), Extends(g, h), NEW c \in Of(h, "claim")
  PROVE  Basis(h, c) \subseteq Basis(g, c)
<1>1. \A d \in Context(h, c) : d \in Context(g, c) /\ LocalEvidence(h, d) \subseteq LocalEvidence(g, d)
  BY ContextGrows, LocalEvidenceGrows
<1>2. /\ ContextLinks(h, c) \subseteq ContextLinks(g, c)
      /\ ContextFindings(h, c) \subseteq ContextFindings(g, c)
  BY ContextLinksGrow, ContextFindingsGrow
<1> QED BY <1>1, <1>2 DEF Basis

\* The basis of a claim is made of events of the history.
LEMMA BasisIsThere ==
  ASSUME NEW h, Sound(h), NEW c \in Of(h, "claim")
  PROVE  Basis(h, c) \subseteq DOMAIN h /\ Basis(h, c) \subseteq Nat
<1>1. ASSUME NEW p \in Of(h, "protocol") PROVE Exposures(h, p) \subseteq DOMAIN h
  BY Runs, Results DEF Exposures, Of
<1>2. ASSUME NEW d \in Context(h, c) PROVE LocalEvidence(h, d) \subseteq DOMAIN h
  <2>1. d \in Of(h, "claim")
    <3>1. Extends(h, h)
      BY DEF Extends
    <3> QED BY <3>1, ContextGrows
  <2>2. h[d].protocol \in Of(h, "protocol")
    BY <2>1, Claims
  <2> QED BY <1>1, <2>1, <2>2 DEF LocalEvidence, Of, RunsOf, ResultsOf
<1>3. ContextLinks(h, c) \cup ContextFindings(h, c) \subseteq DOMAIN h
  BY DEF ContextLinks, ContextFindings, Of
<1>4. DOMAIN h \subseteq Nat
  BY SoundEvent
<1>5. Basis(h, c) \subseteq DOMAIN h
  BY <1>2, <1>3 DEF Basis
<1> QED BY <1>4, <1>5


-----------------------------------------------------------------------------
\* Every command writes an event that the history accepts.

Inv == Sound(log) /\ more \in [Counted -> Nat]

LEMMA BytesAreData ==
  ASSUME NEW h, Sound(h), NEW p \in Of(h, "protocol")
  PROVE  Bytes(h, p) \subseteq Nat
<1>1. \A r \in ResultsOf(h, p) : h[r].raw \in Nat \cup {None}
  BY Ranked DEF Event, ResultsOf
<1> QED BY <1>1, Protocols DEF Bytes

LEMMA KnownIsData ==
  ASSUME NEW h, Sound(h)
  PROVE  Known(h) \subseteq Nat /\ DataIn(h) \subseteq Nat
<1>1. \A e \in Of(h, "exposure") : h[e].data \in Nat
  BY Ranked DEF Event
<1>2. \A p \in Of(h, "protocol") : h[p].seen \subseteq Nat /\ Bytes(h, p) \subseteq Nat
  BY Protocols, BytesAreData
<1>3. \A r \in Of(h, "run") : h[h[r].protocol].data \in Nat
  BY Runs, Protocols
<1>4. \A r \in Of(h, "result") : h[r].raw \in Nat \cup {None}
  BY Ranked DEF Event
<1> QED BY <1>1, <1>2, <1>3, <1>4 DEF Known, DataIn

LEMMA OpinionsAreThere ==
  ASSUME NEW h, Sound(h), NEW r, NEW c
  PROVE  OwnOpinions(h, r, c) \subseteq Nat /\ OwnObligations(h, r, c) \subseteq Nat
<1>1. Negatives(h) \subseteq Nat
  BY Ranked DEF Negatives, Rejections
<1>2. Obligations(h) \subseteq Nat
  BY Ranked DEF Obligations
<1> QED BY <1>1, <1>2 DEF OwnOpinions, OwnObligations, Vetoes, Opinions

LEMMA WriteKeeps ==
  ASSUME Inv, NEW e \in Event, Refers(log, e), Accepts(log, e), Write(e),
         NEW k \in Counted, Room(k), k = IF e.kind = "protocol" THEN e.mode ELSE e.kind
  PROVE  Inv'
<1>1. log' = Append(log, e) /\ more' = [more EXCEPT ![k] = @ - 1]
  BY DEF Write
<1>2. Sound(log')
  BY <1>1, SoundGrows DEF Inv
<1>3. more' \in [Counted -> Nat]
  BY <1>1 DEF Inv, Room
<1> QED BY <1>2, <1>3 DEF Inv

LEMMA RegisterKeeps ==
  ASSUME Inv, NEW parent \in Of(log, "protocol") \cup {None}, NEW answers \in Nat \cup {None},
         NEW data \in Nat, NEW mode \in Mode, Register(parent, answers, data, mode),
         answers # None =>
           \A e : e.parent = parent /\ e.answers = answers => AcceptsFollowup(log, e)
  PROVE  Inv'
<1>1. Sound(log) /\ parent \in Nat \cup {None}
  BY Ranked DEF Inv
<1> DEFINE seen == IF mode = "unclassified" THEN {} ELSE KnownSeen(log, parent)
           e == [kind |-> "protocol", parent |-> parent, answers |-> answers,
                 data |-> data, mode |-> mode, seen |-> seen]
<1>2. KnownSeen(log, parent) \subseteq Nat
  BY <1>1, KnownIsData, Protocols DEF KnownSeen
<1>3. Room(mode) /\ Write(e) /\ (mode = "confirmatory" => data \notin seen)
  BY DEF Register
<1>4. seen \subseteq Nat /\ (mode # "unclassified" => seen = KnownSeen(log, parent))
  BY <1>2
<1> HIDE DEF seen
<1>5. e \in Event
  BY <1>1, <1>4 DEF Event
<1>6. e.kind = "protocol" /\ e.parent = parent /\ e.answers = answers /\ e.data = data
      /\ e.mode = mode /\ e.seen = seen
  OBVIOUS
<1> HIDE DEF e
<1>7. Refers(log, e)
  BY <1>6 DEF Refers
<1>8. Accepts(log, e)
  <2>1. AcceptsRegistration(log, e)
    BY <1>3, <1>4, <1>6 DEF AcceptsRegistration
  <2>2. answers # None => AcceptsFollowup(log, e)
    BY <1>6
  <2> QED BY <2>1, <2>2, <1>6 DEF Accepts
<1>9. mode \in Counted
  BY DEF Counted
<1> QED BY <1>3, <1>5, <1>6, <1>7, <1>8, <1>9, WriteKeeps

LEMMA FollowupKeeps ==
  ASSUME Inv, NEW o \in Obligations(log), NEW data \in Nat, NEW mode \in Mode,
         Followup(o, data, mode)
  PROVE  Inv'
<1>1. Sound(log) /\ o \in Of(log, "review") /\ o \in Nat
  BY Reviews DEF Inv, Obligations
<1>2. log[o].claim \in Of(log, "claim") /\ log[log[o].claim].protocol \in Of(log, "protocol")
  BY <1>1, Reviews, Claims
<1>3. \A e : e.parent = log[log[o].claim].protocol /\ e.answers = o => AcceptsFollowup(log, e)
  BY DEF Followup, AcceptsFollowup
<1>4. Register(log[log[o].claim].protocol, o, data, mode)
  BY DEF Followup
<1> QED BY <1>1, <1>2, <1>3, <1>4, RegisterKeeps

LEMMA ExposeKeeps ==
  ASSUME Inv, NEW data \in Nat, NEW p \in Of(log, "protocol") \cup {None}, Expose(data, p)
  PROVE  Inv'
<1> DEFINE e == [kind |-> "exposure", data |-> data, protocol |-> p]
<1>1. Room("exposure") /\ Write(e) /\ "exposure" \in Counted
  BY DEF Expose, Counted
<1>2. e \in Event
  BY Ranked DEF Event, Inv
<1>3. e.kind = "exposure"
  OBVIOUS
<1> HIDE DEF e
<1>4. Refers(log, e) /\ Accepts(log, e)
  BY <1>3 DEF Refers, Accepts
<1> QED BY <1>1, <1>2, <1>3, <1>4, WriteKeeps

LEMMA StartRunKeeps ==
  ASSUME Inv, NEW p \in Of(log, "protocol"), StartRun(p)
  PROVE  Inv'
<1> DEFINE e == [kind |-> "run", protocol |-> p]
<1>1. Room("run") /\ Write(e) /\ "run" \in Counted
  BY DEF StartRun, Counted
<1>2. e \in Event
  BY Ranked DEF Event, Inv
<1>3. e.kind = "run" /\ e.protocol = p
  OBVIOUS
<1> HIDE DEF e
<1>4. Refers(log, e) /\ Accepts(log, e)
  BY <1>3 DEF Refers, Accepts
<1> QED BY <1>1, <1>2, <1>3, <1>4, WriteKeeps

LEMMA FinishKeeps ==
  ASSUME Inv, NEW r \in Of(log, "run"), NEW completed \in BOOLEAN, NEW raw \in Nat \cup {None},
         Finish(r, completed, raw)
  PROVE  Inv'
<1> DEFINE e == [kind |-> "result", run |-> r, completed |-> completed, raw |-> raw]
<1>1. Room("result") /\ Write(e) /\ "result" \in Counted
  BY DEF Finish, Counted
<1>2. e \in Event
  BY Ranked DEF Event, Inv
<1>3. e.kind = "result" /\ e.run = r
  OBVIOUS
<1> HIDE DEF e
<1>4. Refers(log, e) /\ Accepts(log, e)
  BY <1>3 DEF Refers, Accepts
<1> QED BY <1>1, <1>2, <1>3, <1>4, WriteKeeps

LEMMA ClaimKeeps ==
  ASSUME Inv, NEW p \in Of(log, "protocol"), NEW confirmatory \in BOOLEAN, Claim(p, confirmatory)
  PROVE  Inv'
<1> DEFINE e == [kind |-> "claim", protocol |-> p, evidence |-> Completed(log, p),
                 confirmatory |-> confirmatory]
<1>1. Room("claim") /\ Write(e) /\ "claim" \in Counted
  BY DEF Claim, Counted
<1>2. Completed(log, p) \subseteq Nat
  BY Ranked DEF Inv, Completed, ResultsOf
<1>3. e \in Event
  BY <1>2, Ranked DEF Event, Inv
<1>4. /\ e.kind = "claim" /\ e.protocol = p /\ e.evidence = Completed(log, p)
      /\ e.confirmatory = confirmatory
  OBVIOUS
<1> HIDE DEF e
<1>5. Refers(log, e) /\ Accepts(log, e)
  BY <1>4 DEF Refers, Accepts, Claim
<1> QED BY <1>1, <1>3, <1>4, <1>5, WriteKeeps

LEMMA LinkClaimsKeeps ==
  ASSUME Inv, NEW source \in Of(log, "claim"), NEW target \in Of(log, "claim"),
         NEW relation \in Relation, LinkClaims(source, target, relation)
  PROVE  Inv'
<1> DEFINE e == [kind |-> "link", source |-> source, target |-> target, relation |-> relation]
<1>1. Room("link") /\ Write(e) /\ "link" \in Counted
  BY DEF LinkClaims, Counted
<1>2. e \in Event
  BY Ranked DEF Event, Inv
<1>3. e.kind = "link" /\ e.source = source /\ e.target = target
  OBVIOUS
<1> HIDE DEF e
<1>4. Refers(log, e) /\ Accepts(log, e)
  BY <1>3 DEF Refers, Accepts
<1> QED BY <1>1, <1>2, <1>3, <1>4, WriteKeeps

LEMMA AssignKeeps ==
  ASSUME Inv, NEW c \in Of(log, "claim"), NEW r \in Reviewer, Assign(c, r)
  PROVE  Inv'
<1> DEFINE e == [kind |-> "assignment", claim |-> c, by |-> r, basis |-> Basis(log, c),
                 policy |-> Policy(log, r, c)]
<1>1. Room("assignment") /\ Write(e) /\ "assignment" \in Counted
  BY DEF Assign, Counted
<1>2. Basis(log, c) \subseteq Nat /\ c \in Nat /\ Policy(log, r, c) \in {"blind", "reconsideration"}
  BY BasisIsThere, Ranked DEF Inv, Policy
<1>3. e \in Event
  BY <1>2 DEF Event
<1>4. /\ e.kind = "assignment" /\ e.claim = c /\ e.by = r /\ e.basis = Basis(log, c)
      /\ e.policy = Policy(log, r, c)
  OBVIOUS
<1> HIDE DEF e
<1>5. Refers(log, e)
  BY <1>4 DEF Refers
<1>6. AcceptsAssignment(log, e)
  BY <1>4 DEF AcceptsAssignment, Assign
<1>7. Accepts(log, e)
  BY <1>4, <1>6 DEF Accepts
<1> QED BY <1>1, <1>3, <1>4, <1>5, <1>7, WriteKeeps

LEMMA DispatchKeeps ==
  ASSUME Inv, NEW a \in Of(log, "assignment"), Dispatch(a)
  PROVE  Inv'
<1> DEFINE e == [kind |-> "dispatch", assignment |-> a]
<1>1. Room("dispatch") /\ Write(e) /\ "dispatch" \in Counted
  BY DEF Dispatch, Counted
<1>2. e \in Event
  BY Ranked DEF Event, Inv
<1>3. e.kind = "dispatch" /\ e.assignment = a
  OBVIOUS
<1> HIDE DEF e
<1>4. Refers(log, e)
  BY <1>3 DEF Refers
<1>5. AcceptsDelivery(log, e)
  BY <1>3 DEF AcceptsDelivery, Dispatch, Current
<1>6. Accepts(log, e)
  BY <1>3, <1>5 DEF Accepts
<1> QED BY <1>1, <1>2, <1>3, <1>4, <1>6, WriteKeeps

LEMMA FinalizeKeeps ==
  ASSUME Inv, NEW a \in Of(log, "assignment"), Finalize(a)
  PROVE  Inv'
<1>1. PICK answer \in Answers(a) :
        Write([kind |-> "response", assignment |-> a, answer |-> answer])
  BY DEF Finalize
<1> DEFINE e == [kind |-> "response", assignment |-> a, answer |-> answer]
<1>2. Room("response") /\ Write(e) /\ "response" \in Counted
  BY <1>1 DEF Finalize, Counted
<1>3. answer \in Opinion /\ Admissible(log, a, answer)
  <2>1. Sound(log) /\ a \in DOMAIN log /\ a \in Nat /\ Sound(Before(log, a)) /\ a # None
    BY Ranked, SoundBefore, StartAssumption DEF Inv
  <2> DEFINE h == Before(log, a)
             own == OwnOpinions(h, log[a].by, log[a].claim)
             demands == OwnObligations(h, log[a].by, log[a].claim)
             reconsiders == log[a].policy = "reconsideration"
  <2>2. own \subseteq Nat /\ demands \subseteq Nat
    BY <2>1, OpinionsAreThere
  <2>3. answer \in
          [verdict : {"approve"}, finding : {None}, withdraws : {IF reconsiders THEN own ELSE {}},
           resolves : IF reconsiders THEN SUBSET demands ELSE {{}}]
          \cup [verdict : {"reject"}, finding : Finding, withdraws : {{}}, resolves : {{}}]
    BY DEF Answers
  <2> HIDE DEF own, demands
  <2>4. CASE answer \in
          [verdict : {"approve"}, finding : {None}, withdraws : {IF reconsiders THEN own ELSE {}},
           resolves : IF reconsiders THEN SUBSET demands ELSE {{}}]
    <3>1. answer \in [verdict : {"approve"}, finding : {None}, withdraws : SUBSET Nat,
                      resolves : SUBSET Nat]
      BY <2>2, <2>4
    <3>2. ~reconsiders => answer.withdraws = {} /\ answer.resolves = {}
      BY <2>4
    <3>3. answer.verdict = "approve"
      BY <2>4
    <3>4. answer \in Opinion
      BY <3>1 DEF Opinion
    <3> QED BY <2>1, <3>2, <3>3, <3>4 DEF Admissible
  <2>5. CASE answer \in
          [verdict : {"reject"}, finding : Finding, withdraws : {{}}, resolves : {{}}]
    BY <2>5, StartAssumption DEF Opinion, Admissible
  <2> QED BY <2>3, <2>4, <2>5
<1>4. e \in Event
  BY <1>3, Ranked DEF Event, Inv
<1>5. e.kind = "response" /\ e.assignment = a /\ e.answer = answer
  OBVIOUS
<1> HIDE DEF e
<1>6. Refers(log, e)
  BY <1>3, <1>5 DEF Refers
<1>7. AcceptsDelivery(log, e)
  BY <1>5 DEF AcceptsDelivery, Finalize
<1>8. Accepts(log, e)
  BY <1>5, <1>7 DEF Accepts
<1> QED BY <1>2, <1>4, <1>5, <1>6, <1>8, WriteKeeps

LEMMA SubmitKeeps ==
  ASSUME Inv, NEW a \in Of(log, "assignment"), Submit(a)
  PROVE  Inv'
<1> DEFINE c == log[a].claim
           r == log[a].by
           review(answer) ==
             [kind |-> "review", claim |-> c, by |-> r, basis |-> log[a].basis,
              assignment |-> a, verdict |-> answer.verdict, finding |-> answer.finding,
              withdraws |-> answer.withdraws, resolves |-> answer.resolves]
<1>1. PICK i \in ResponsesTo(log, a) :
        /\ log[i].answer.verdict = "approve" =>
             /\ LinkedOpen(log, c) \subseteq LinkedOpen(Before(log, a), c)
             /\ log[a].policy = "reconsideration" => Reconsiders(log, r, c, log[i].answer)
        /\ Write(review(log[i].answer))
  BY DEF Submit
<1> DEFINE answer == log[i].answer
           e == review(answer)
<1>2. Room("review") /\ Write(e) /\ "review" \in Counted
  BY <1>1 DEF Submit, Counted
<1>3. Sound(log) /\ a \in Nat /\ log[a] \in Event /\ log[a].kind = "assignment"
  BY Ranked DEF Inv
<1>4. /\ i \in Of(log, "response") /\ log[i].assignment = a
      /\ answer \in Opinion /\ Admissible(log, a, answer)
  BY <1>3, Responses DEF ResponsesTo
<1>5. c \in Of(log, "claim") /\ c \in Nat /\ r \in Reviewer /\ log[a].basis \subseteq Nat
  BY <1>3, Assignments, Claims DEF Event
<1>6. Gate(log, c) /\ log[a].basis = Basis(log, c) /\ ~Submitted(log, a)
  BY DEF Submit, Current
<1> HIDE DEF c, r, answer
<1>7. e \in Event
  BY <1>3, <1>4, <1>5 DEF Event, Opinion
<1>8. /\ e.kind = "review" /\ e.claim = c /\ e.by = r /\ e.basis = log[a].basis
      /\ e.assignment = a /\ e.verdict = answer.verdict /\ e.finding = answer.finding
      /\ e.withdraws = answer.withdraws /\ e.resolves = answer.resolves
  OBVIOUS
<1>9. answer = [verdict |-> e.verdict, finding |-> e.finding, withdraws |-> e.withdraws,
                resolves |-> e.resolves]
  BY <1>4, <1>8 DEF Opinion
<1> HIDE DEF e
<1>10. a # None
  BY <1>3, StartAssumption
<1>11. Refers(log, e)
  <2>1. Admissible(log, a, e)
    BY <1>4, <1>8 DEF Admissible
  <2>2. log[a].claim = c /\ log[a].by = r
    BY DEF c, r
  <2> QED BY <1>5, <1>8, <1>10, <2>1, <2>2 DEF Refers
<1>12. AcceptsSubmission(log, e)
  <2>1. e.verdict = "approve" =>
          /\ LinkedOpen(log, c) \subseteq LinkedOpen(Before(log, a), c)
          /\ log[a].policy = "reconsideration" => Reconsiders(log, r, c, e)
    BY <1>1, <1>8 DEF Reconsiders, answer
  <2>2. \E j \in ResponsesTo(log, a) :
          log[j].answer = [verdict |-> e.verdict, finding |-> e.finding,
                           withdraws |-> e.withdraws, resolves |-> e.resolves]
    BY <1>9 DEF answer
  <2> QED BY <1>6, <1>8, <2>1, <2>2 DEF AcceptsSubmission
<1>13. Accepts(log, e)
  BY <1>8, <1>10, <1>12 DEF Accepts
<1> QED BY <1>2, <1>7, <1>8, <1>11, <1>13, WriteKeeps

LEMMA RecordReviewKeeps ==
  ASSUME Inv, NEW c \in Of(log, "claim"), NEW r \in Reviewer,
         NEW finding \in Finding \cup {None}, RecordReview(c, r, finding)
  PROVE  Inv'
<1> DEFINE e == [kind |-> "review", claim |-> c, by |-> r, basis |-> Basis(log, c),
                 assignment |-> None, verdict |-> "reject", finding |-> finding,
                 withdraws |-> {}, resolves |-> {}]
<1>1. Room("review") /\ Write(e) /\ "review" \in Counted /\ Gate(log, c)
  BY DEF RecordReview, Counted
<1>2. Basis(log, c) \subseteq Nat /\ c \in Nat /\ finding \in STRING \cup {None}
  BY BasisIsThere, Ranked, StartAssumption DEF Inv
<1>3. e \in Event
  BY <1>2 DEF Event
<1>4. /\ e.kind = "review" /\ e.claim = c /\ e.by = r /\ e.basis = Basis(log, c)
      /\ e.assignment = None /\ e.verdict = "reject" /\ e.withdraws = {} /\ e.resolves = {}
  OBVIOUS
<1> HIDE DEF e
<1>5. Refers(log, e)
  BY <1>4 DEF Refers, Admissible
<1>6. AcceptsOpinion(log, e)
  BY <1>1, <1>4 DEF AcceptsOpinion
<1>7. Accepts(log, e)
  BY <1>4, <1>6 DEF Accepts
<1> QED BY <1>1, <1>3, <1>4, <1>5, <1>7, WriteKeeps


LEMMA EvidenceKeeps ==
  ASSUME Inv, Evidence
  PROVE  Inv'
<1>1. Sound(log) /\ DataIn(log) \cup {NewData} \subseteq Nat
  <2>1. Sound(log) /\ log \in Seq(Event)
    BY DEF Inv, Sound
  <2>2. NewData \in Nat
    BY <2>1 DEF NewData
  <2> QED BY <2>1, <2>2, KnownIsData
<1>2. ASSUME NEW parent \in Of(log, "protocol") \cup {None}, NEW data \in DataIn(log) \cup {NewData},
             NEW mode \in Mode, Register(parent, None, data, mode)
      PROVE  Inv'
  BY <1>1, <1>2, RegisterKeeps
<1>3. ASSUME NEW data \in DataIn(log), NEW p \in Of(log, "protocol") \cup {None}, Expose(data, p)
      PROVE  Inv'
  BY <1>1, <1>3, ExposeKeeps
<1>4. ASSUME NEW r \in Of(log, "run"), NEW completed \in BOOLEAN,
             NEW raw \in {log[p].data : p \in Of(log, "protocol") \ {log[r].protocol}}
                           \cup {IF completed THEN NewData ELSE None},
             Finish(r, completed, raw)
      PROVE  Inv'
  <2>1. raw \in Nat \cup {None}
    BY <1>1, Protocols
  <2> QED BY <1>4, <2>1, FinishKeeps
<1> QED BY <1>2, <1>3, <1>4, StartRunKeeps, ClaimKeeps, LinkClaimsKeeps DEF Evidence

LEMMA NextKeeps ==
  ASSUME Inv, [Next]_vars
  PROVE  Inv'
<1>1. CASE UNCHANGED vars
  BY <1>1 DEF vars, Inv
<1>2. ASSUME NEW c \in Of(log, "claim"), NEW r \in Reviewer,
             \/ Assign(c, r)
             \/ \E finding \in Finding \cup {None} : RecordReview(c, r, finding)
      PROVE  Inv'
  BY <1>2, AssignKeeps, RecordReviewKeeps
<1>3. ASSUME NEW a \in Of(log, "assignment"), Dispatch(a) \/ Finalize(a) \/ Submit(a)
      PROVE  Inv'
  BY <1>3, DispatchKeeps, FinalizeKeeps, SubmitKeeps
<1>4. ASSUME NEW o \in Obligations(log), NEW data \in DataIn(log) \cup {NewData},
             NEW mode \in Mode, Followup(o, data, mode)
      PROVE  Inv'
  <2>1. data \in Nat
    <3>1. Sound(log) /\ log \in Seq(Event)
      BY DEF Inv, Sound
    <3>2. NewData \in Nat
      BY <3>1 DEF NewData
    <3> QED BY <3>1, <3>2, KnownIsData
  <2> QED BY <1>4, <2>1, FollowupKeeps
<1> QED BY <1>1, <1>2, <1>3, <1>4, EvidenceKeeps DEF Next

\* The log is at every moment one that commands can have written: every event
\* refers to what was there, and its replay accepts it (review_admission.py,
\* resolution.py: the _index functions).
THEOREM ReviewInvariant == Spec => []Inv
<1>1. Init => Inv
  BY StartAssumption DEF Init, Inv
<1>2. Inv /\ [Next]_vars => Inv'
  BY NextKeeps
<1> QED BY <1>1, <1>2, PTL DEF Spec

\* Every event has the fields of its kind (kernel.py: the payloads of commands).
THEOREM ReviewTyped == Spec => []TypeOK
<1>1. Inv => TypeOK
  BY DEF Inv, Sound, TypeOK
<1> QED BY <1>1, ReviewInvariant, PTL

\* What any command wrote, its replay accepts, whatever came between an
\* assignment, its delivery and its verdict (review_admission.py _index_reviews).
THEOREM ReviewReplayAccepts == Spec => []ReplayAccepts
<1>1. Inv => ReplayAccepts
  BY DEF Inv, Sound, ReplayAccepts
<1> QED BY <1>1, ReviewInvariant, PTL

-----------------------------------------------------------------------------
\* A step only adds to the log.

LEMMA NextWrites ==
  ASSUME Next
  PROVE  \E e : log' = Append(log, e)
<1>1. \A e : Write(e) => log' = Append(log, e)
  BY DEF Write
<1>2. ASSUME Evidence PROVE \E e : log' = Append(log, e)
  BY <1>1, <1>2 DEF Evidence, Register, Expose, StartRun, Claim, Finish, LinkClaims
<1>3. ASSUME NEW c, NEW r, Assign(c, r) \/ \E finding \in Finding \cup {None} : RecordReview(c, r, finding)
      PROVE  \E e : log' = Append(log, e)
  BY <1>1, <1>3 DEF Assign, RecordReview
<1>4. ASSUME NEW a, Dispatch(a) \/ Finalize(a) \/ Submit(a)
      PROVE  \E e : log' = Append(log, e)
  <2>1. CASE Submit(a)
    BY <1>1, <2>1 DEF Submit
  <2> QED BY <1>1, <1>4, <2>1 DEF Dispatch, Finalize
<1>5. ASSUME NEW o, NEW data, NEW mode, Followup(o, data, mode)
      PROVE  \E e : log' = Append(log, e)
  BY <1>1, <1>5 DEF Followup, Register
<1> QED BY <1>2, <1>3, <1>4, <1>5 DEF Next

LEMMA StepExtends ==
  ASSUME Inv, Inv', [Next]_vars
  PROVE  Extends(log', log)
<1>1. log \in Seq(Event) /\ log' \in Seq(Event)
  BY DEF Inv, Sound
<1>2. CASE UNCHANGED vars
  <2>1. log' = log
    BY <1>2 DEF vars
  <2> QED BY <2>1 DEF Extends
<1>3. CASE Next
  <2>1. PICK e : log' = Append(log, e)
    BY <1>3, NextWrites
  <2> DEFINE n == Len(log) + 1
  <2>2. n \in Nat /\ DOMAIN log = 1 .. n - 1 /\ DOMAIN log' = 1 .. n
        /\ \A i \in 1 .. n - 1 : log'[i] = log[i]
    <3> DEFINE S == Event \cup {e}
    <3>1. log \in Seq(S) /\ e \in S
      BY <1>1, SeqMonotonic
    <3> HIDE DEF S
    <3>2. /\ log' \in Seq(S) /\ Len(log') = Len(log) + 1
          /\ \A i \in 1 .. Len(log) : log'[i] = log[i]
      BY <2>1, <3>1, AppendProperties
    <3>3. Len(log) \in Nat /\ DOMAIN log = 1 .. Len(log) /\ DOMAIN log' = 1 .. Len(log')
      BY <1>1
    <3> QED BY <3>2, <3>3
  <2> HIDE DEF n
  <2>3. DOMAIN log \subseteq DOMAIN log' /\ \A i \in DOMAIN log : log'[i] = log[i]
    BY <2>2
  <2> QED BY <1>1, <2>3, SamePrefix
<1> QED BY <1>2, <1>3


-----------------------------------------------------------------------------
\* Approvals that count.

LEMMA Approvals ==
  ASSUME NEW h, Sound(h), NEW i \in Submissions(h)
  PROVE  /\ i \in Of(h, "review") /\ i \in DOMAIN h
         /\ h[i].claim \in Of(h, "claim") /\ h[i].claim \in Of(Before(h, i), "claim")
         /\ h[i].assignment \in DOMAIN h /\ h[i].assignment < i
         /\ h[i].assignment \in Of(h, "assignment")
         /\ h[h[i].assignment].claim = h[i].claim
         /\ h[i].claim \in Of(Before(h, h[i].assignment), "claim")
         /\ h[i].basis = Basis(Before(h, i), h[i].claim)
         /\ h[i].basis = Basis(Before(h, h[i].assignment), h[i].claim)
<1> DEFINE a == h[i].assignment
<1>1. i \in Of(h, "review") /\ a # None
  BY DEF Submissions
<1>2. /\ a \in Of(h, "assignment") /\ a < i
      /\ a \in Of(Before(h, i), "assignment")
      /\ h[a].claim = h[i].claim
      /\ AcceptsSubmission(Before(h, i), h[i])
      /\ h[i].claim \in Of(h, "claim") /\ h[i].claim \in Of(Before(h, i), "claim")
  BY <1>1, Reviews
<1>3. i \in DOMAIN h /\ a \in DOMAIN h
  BY <1>1, <1>2, Ranked
<1>4. h[i].basis = Before(h, i)[a].basis /\ h[i].basis = Basis(Before(h, i), h[i].claim)
  BY <1>2 DEF AcceptsSubmission
<1>5. Before(h, i)[a] = h[a]
  <2> DEFINE b == Before(h, i)
  <2>1. Extends(h, b)
    BY <1>3, SoundEvent
  <2>2. a \in DOMAIN b
    BY <1>2 DEF Of
  <2> HIDE DEF b, a
  <2>3. h[a] = b[a]
    BY <2>1, <2>2 DEF Extends
  <2> QED BY <2>3 DEF b
<1>6. h[a].claim \in Of(Before(h, a), "claim") /\ h[a].basis = Basis(Before(h, a), h[a].claim)
  BY <1>2, Assignments
<1> QED BY <1>1, <1>2, <1>3, <1>4, <1>5, <1>6

LEMMA CountsBefore ==
  ASSUME NEW h, Sound(h), NEW g, Sound(g), Extends(g, h), NEW i \in Submissions(h), Counts(g, i)
  PROVE  Counts(h, i)
<1> DEFINE a == h[i].assignment
           c == h[i].claim
<1>1. g[i] = h[i] /\ i \in DOMAIN h /\ a \in DOMAIN h /\ c \in Of(h, "claim") /\ Extends(g, h)
  BY Approvals, EventsLast DEF Submissions
<1>2. h[i].verdict = "approve" /\ h[i].basis = Basis(g, c) /\ Ledger(Before(g, a), c) = Ledger(g, c)
  BY <1>1 DEF Counts, Fresh
<1>3. Basis(h, c) = h[i].basis
  <2> DEFINE b == Before(h, i)
  <2>1. Sound(b) /\ Extends(h, b) /\ c \in Of(b, "claim") /\ h[i].basis = Basis(b, c)
    BY <1>1, Approvals, SoundBefore, SoundEvent
  <2> HIDE DEF b, c
  <2>2. Basis(b, c) \subseteq Basis(h, c) /\ Basis(h, c) \subseteq Basis(g, c)
    BY <1>1, <2>1, BasisGrows
  <2> QED BY <1>2, <2>1, <2>2
<1>4. Ledger(Before(h, a), c) = Ledger(h, c)
  <2> DEFINE b == Before(h, a)
  <2>1. Sound(b) /\ Extends(h, b) /\ c \in Of(b, "claim")
    BY <1>1, Approvals, SoundBefore, SoundEvent
  <2>2. b = Before(g, a)
    BY <1>1 DEF Extends
  <2> HIDE DEF b, c, a
  <2>3. Ledger(b, c) \subseteq Ledger(h, c) /\ Ledger(h, c) \subseteq Ledger(g, c)
    BY <1>1, <2>1, LedgerGrows
  <2>4. Ledger(b, c) = Ledger(h, c)
    BY <1>2, <2>2, <2>3
  <2> QED BY <2>4 DEF b
<1> QED BY <1>2, <1>3, <1>4 DEF Counts, Fresh

\* An approval that ceased to count never counts again: evidence, attempts of
\* the family and findings on linked claims only ever take approvals away
\* (review_admission.py _context_findings, _freshness_defect).
THEOREM ReviewNoRevival == Spec => NoRevival
<1>1. Inv /\ Inv' /\ [Next]_vars =>
        [\A i \in Submissions(log) : ~Counts(log, i) => ~Counts(log', i)]_log
  <2> SUFFICES ASSUME Inv, Inv', [Next]_vars, NEW i \in Submissions(log), Counts(log', i)
               PROVE  Counts(log, i)
    OBVIOUS
  <2>1. Sound(log) /\ Sound(log') /\ Extends(log', log)
    BY StepExtends DEF Inv
  <2> QED BY <2>1, CountsBefore
<1> QED BY <1>1, ReviewInvariant, PTL DEF Spec, NoRevival

\* What next_action has found out about a candidate.
LEMMA CandidateIs ==
  ASSUME Inv, NEW c \in Candidates
  PROVE  /\ c \in Of(log, "claim") /\ Gate(log, c)
         /\ Blocking(log, c) = {} /\ Vetoes(log, c) = {}
         /\ \E i \in Submissions(log) : /\ log[i].claim = c /\ log[i].verdict = "approve"
                                        /\ log[i].basis = Basis(log, c)
<1>1. c \in Of(log, "claim") /\ NextAction(log, c) = "paper_candidate"
  BY DEF Candidates
<1>2. /\ Gate(log, c) /\ Blocking(log, c) = {} /\ Vetoes(log, c) = {}
      /\ \E i \in Of(log, "review") : log[i].claim = c /\ Counts(log, i)
  BY <1>1 DEF NextAction
<1> QED BY <1>1, <1>2 DEF Counts

-----------------------------------------------------------------------------
\* Confirmatory claims rest on what nobody had used.

\* What the protocol p declares includes all that was known before it.
LEMMA Registered ==
  ASSUME NEW h, Sound(h), NEW p \in Of(h, "protocol"), h[p].mode = "confirmatory"
  PROVE  h[p].data \notin Known(Before(h, p))
<1>1. p \in DOMAIN h /\ h[p].kind = "protocol" /\ h[p].mode # "unclassified"
  BY Ranked
<1>2. AcceptsRegistration(Before(h, p), h[p])
  BY <1>1, SoundEvent DEF Accepts
<1>3. KnownSeen(Before(h, p), h[p].parent) \subseteq h[p].seen /\ h[p].data \notin h[p].seen
  BY <1>1, <1>2 DEF AcceptsRegistration
<1> QED BY <1>3 DEF KnownSeen

LEMMA KnownByUse ==
  ASSUME NEW h, Sound(h), NEW p \in Of(h, "protocol"), NEW d \in Nat,
         NEW e \in Users(h, d, p), e < p
  PROVE  d \in Known(Before(h, p))
<1> DEFINE b == Before(h, p)
<1>1. p \in DOMAIN h /\ Sound(b) /\ Extends(h, b) /\ d # None
      /\ \A kind : Of(b, kind) = {j \in Of(h, kind) : j < p}
  <2>1. p \in DOMAIN h /\ d # None
    BY Ranked, StartAssumption
  <2>2. Sound(b)
    BY <2>1, SoundBefore
  <2>3. Extends(h, b) /\ \A kind : Of(b, kind) = {j \in Of(h, kind) : j < p}
    BY <2>1, SoundEvent
  <2> QED BY <2>1, <2>2, <2>3
<1>2. \A kind : \A j \in Of(b, kind) : b[j] = h[j]
  BY <1>1, EventsLast
<1> HIDE DEF b
<1>3. CASE e \in Of(h, "exposure") /\ h[e].data = d
  <2>1. e \in Of(b, "exposure") /\ b[e].data = d
    BY <1>1, <1>2, <1>3
  <2>2. d \in Known(b)
    BY <1>1, <2>1 DEF Known
  <2> QED BY <2>2 DEF b
<1>4. CASE e \in Of(h, "run") /\ h[h[e].protocol].data = d
  <2>1. e \in Of(b, "run") /\ b[e] = h[e]
    BY <1>1, <1>2, <1>4
  <2>2. b[e].protocol \in Of(b, "protocol")
    BY <1>1, <2>1, Runs
  <2>3. b[b[e].protocol].data = d
    BY <1>2, <1>4, <2>1, <2>2
  <2>4. d \in Known(b)
    BY <1>1, <2>1, <2>3 DEF Known
  <2> QED BY <2>4 DEF b
<1>5. CASE e \in Of(h, "result") /\ h[e].raw = d
  <2>1. e \in Of(b, "result") /\ b[e].raw = d
    BY <1>1, <1>2, <1>5
  <2>2. d \in Known(b)
    BY <1>1, <2>1 DEF Known
  <2> QED BY <2>2 DEF b
<1> QED BY <1>3, <1>4, <1>5 DEF Users

\* Whoever used the data of a typed protocol elsewhere is among its exposures.
LEMMA UsesAreExposures ==
  ASSUME NEW h, Sound(h), NEW p \in Of(h, "protocol"), h[p].mode # "unclassified",
         NEW e \in Users(h, h[p].data, p)
  PROVE  e \in Exposures(h, p)
<1>1. h[p].data \in Bytes(h, p)
  BY Protocols DEF Bytes
<1>2. CASE e \in Of(h, "exposure") /\ h[e].data = h[p].data
  BY <1>1, <1>2 DEF Exposures
<1>3. CASE e \in Of(h, "run") /\ h[e].protocol # p /\ h[h[e].protocol].data = h[p].data
  BY <1>1, <1>3 DEF Exposures
<1>4. CASE e \in Of(h, "result") /\ h[h[e].run].protocol # p /\ h[e].raw = h[p].data
  BY <1>1, <1>4 DEF Exposures
<1> QED BY <1>2, <1>3, <1>4 DEF Users

\* A confirmatory claim becomes a paper only if nobody had used its protocol's
\* data before the protocol was registered, and whoever used them later is in
\* the evidence that its reviewer was assigned (kernel.py _known_seen_data,
\* review_assignment.py protocol_exposures).
THEOREM ReviewHoldoutIsFresh == Spec => []HoldoutIsFresh
<1>1. Inv => HoldoutIsFresh
  <2> SUFFICES ASSUME Inv, NEW c \in Candidates, log[c].confirmatory,
                      NEW e \in Users(log, log[log[c].protocol].data, log[c].protocol)
               PROVE  /\ e > log[c].protocol
                      /\ \E i \in Submissions(log) :
                           log[i].claim = c /\ log[i].verdict = "approve" /\ e < log[i].assignment
    BY DEF HoldoutIsFresh
  <2> DEFINE p == log[c].protocol
  <2>1. /\ Sound(log) /\ c \in Of(log, "claim") /\ p \in Of(log, "protocol")
        /\ log[p].mode = "confirmatory" /\ log[p].data \in Nat
    BY CandidateIs, Claims, Protocols DEF Inv
  <2>2. e \in Nat /\ p \in Nat /\ log[e].kind # "protocol" /\ log[p].kind = "protocol"
    BY <2>1, Ranked DEF Users
  <2>3. e > p
    BY <2>1, <2>2, Registered, KnownByUse
  <2>4. e \in Basis(log, c)
    <3>1. e \in LocalEvidence(log, c)
      BY <2>1, UsesAreExposures DEF LocalEvidence
    <3>2. Extends(log, log)
      BY DEF Extends
    <3>3. c \in Context(log, c)
      BY <2>1, <3>2, ContextGrows
    <3> QED BY <3>1, <3>3 DEF Basis
  <2>5. PICK i \in Submissions(log) :
          log[i].claim = c /\ log[i].verdict = "approve" /\ log[i].basis = Basis(log, c)
    BY CandidateIs
  <2> DEFINE a == log[i].assignment
             b == Before(log, a)
  <2>6. /\ a \in DOMAIN log /\ Sound(b) /\ c \in Of(b, "claim") /\ log[i].basis = Basis(b, c)
        /\ DOMAIN b = {j \in DOMAIN log : j < a}
    BY <2>1, <2>5, Approvals, SoundBefore, SoundEvent
  <2> HIDE DEF b, p
  <2>7. e < a
    BY <2>4, <2>5, <2>6, BasisIsThere
  <2> QED BY <2>3, <2>5, <2>7 DEF p
<1> QED BY <1>1, ReviewInvariant, PTL

-----------------------------------------------------------------------------
\* Demands are met by new work.

\* A follow-up is registered after the demand that it answers.
LEMMA FollowupIsLater ==
  ASSUME NEW h, Sound(h), NEW p \in Of(h, "protocol"), NEW o \in Nat, h[p].answers = o
  PROVE  o < p
<1> DEFINE b == Before(h, p)
<1>1. p \in DOMAIN h /\ h[p].kind = "protocol" /\ o # None
  BY Ranked, StartAssumption
<1>2. Accepts(b, h[p]) /\ \A kind : Of(b, kind) = {j \in Of(h, kind) : j < p}
  BY <1>1, SoundEvent
<1> HIDE DEF b
<1>3. AcceptsFollowup(b, h[p])
  BY <1>1, <1>2 DEF Accepts
<1>4. o \in Of(b, "review")
  BY <1>3 DEF AcceptsFollowup, Obligations
<1> QED BY <1>2, <1>4

\* A submission that withdraws or resolves something was accepted for it.
LEMMA Reconsidered ==
  ASSUME NEW h, Sound(h), NEW i \in Submissions(h), h[i].withdraws \cup h[i].resolves # {}
  PROVE  /\ h[i].verdict = "approve" /\ h[h[i].assignment].policy = "reconsideration"
         /\ h[h[i].assignment].by = h[i].by
         /\ Reconsiders(Before(h, i), h[i].by, h[i].claim, h[i])
<1> DEFINE a == h[i].assignment
           b == Before(h, i)
<1>1. i \in Of(h, "review") /\ a # None
  BY DEF Submissions
<1>2. /\ h[i].verdict = "approve" /\ h[a].policy = "reconsideration" /\ h[a].by = h[i].by
      /\ a \in Of(b, "assignment") /\ AcceptsSubmission(b, h[i])
  BY <1>1, Reviews
<1>3. b[a] = h[a]
  <2>1. Extends(h, b)
    BY Approvals, SoundEvent
  <2> HIDE DEF b, a
  <2> QED BY <1>2, <2>1, EventsLast
<1> QED BY <1>2, <1>3 DEF AcceptsSubmission

LEMMA ResolvedByNewWork ==
  ASSUME NEW h, Sound(h), NEW i \in Submissions(h), NEW o \in h[i].resolves
  PROVE  /\ h[i].claim > o
         /\ h[o].finding = "experiment" =>
              \E p \in Of(h, "protocol") :
                h[p].answers = o /\ \A r \in h[h[i].claim].evidence : r > p
<1> DEFINE b == Before(h, i)
           c == h[i].claim
<1>1. i \in DOMAIN h /\ c \in Of(h, "claim") /\ c \in Of(b, "claim") /\ Extends(h, b)
  BY Approvals, SoundEvent
<1>2. Reconsiders(b, h[i].by, c, h[i])
  BY Reconsidered
<1>3. Sound(b)
  BY <1>1, SoundBefore
<1> HIDE DEF b, c
<1>4. o \in OwnObligations(b, h[i].by, c) /\ Resolvable(b, o, c)
  BY <1>2 DEF Reconsiders
<1>5. o \in Of(b, "review") /\ o \in Nat /\ h[o] = b[o]
  BY <1>1, <1>3, <1>4, EventsLast, Ranked DEF OwnObligations, Obligations
<1>6. CASE FollowupEvidence(b, o, c)
  <2>1. PICK p \in Of(b, "protocol") : b[p].answers = o /\ \A r \in b[c].evidence : r > p
    BY <1>6 DEF FollowupEvidence
  <2>2. p \in Of(h, "protocol") /\ h[p] = b[p] /\ h[c] = b[c]
    BY <1>1, <2>1, EventsLast
  <2>3. \A r \in h[c].evidence : r > p
    BY <2>1, <2>2
  <2>4. PICK r \in h[c].evidence : r \in Of(h, "result") /\ r < c
    BY <1>1, Claims
  <2>5. o < p /\ p < r /\ r < c /\ p \in Nat /\ r \in Nat /\ c \in Nat
    BY <1>1, <1>5, <2>1, <2>2, <2>3, <2>4, FollowupIsLater, Ranked
  <2>6. c > o
    BY <1>5, <2>5
  <2> QED BY <2>1, <2>2, <2>3, <2>6 DEF c
<1>7. CASE h[o].finding = "narrow" /\ c > o
  BY <1>7 DEF c
<1> QED BY <1>4, <1>5, <1>6, <1>7 DEF Resolvable

\* A typed demand is met by new work only: no claim that was there when a
\* reviewer demanded something of its family becomes a paper, and where an
\* experiment was demanded the claim rests on results of a follow-up that was
\* registered for it (resolution.py blocking_obligations, admit_v2,
\* _followup_evidence).
THEOREM ReviewDemandsMetByNewWork == Spec => []DemandsMetByNewWork
<1>1. Inv => DemandsMetByNewWork
  <2> SUFFICES ASSUME Inv, NEW c \in Candidates, NEW o \in Obligations(log),
                      log[o].claim \in Family(log, c)
               PROVE  /\ c > o
                      /\ log[o].finding = "experiment" =>
                           \E p \in Of(log, "protocol") :
                             log[p].answers = o /\ \A r \in log[c].evidence : r > p
    BY DEF DemandsMetByNewWork
  <2>1. Resolved(log, o, c)
    BY CandidateIs DEF Blocking
  <2>2. PICK i \in Submissions(log) : o \in log[i].resolves /\ log[i].claim = c
    BY <2>1 DEF Resolved
  <2> QED BY <2>2, ResolvedByNewWork DEF Inv
<1> QED BY <1>1, ReviewInvariant, PTL

-----------------------------------------------------------------------------
\* Negative opinions are withdrawn by those who gave them.

LEMMA Latest ==
  ASSUME NEW n \in Nat, NEW S \in SUBSET (1 .. n), S # {}
  PROVE  \E x \in S : \A y \in S : y =< x
<1> DEFINE less == OpToRel(<, Nat)
           ranks == {n - x : x \in S}
<1>1. ranks \subseteq Nat /\ ranks # {}
  <2>1. \A x \in S : n - x \in Nat
    OBVIOUS
  <2> QED BY <2>1
<1>2. IsWellFoundedOn(less, Nat)
  BY NatLessThanWellFounded
<1>3. \A m, k \in Nat : m < k => <<m, k>> \in less
  BY DEF OpToRel
<1> HIDE DEF less
<1>4. PICK r \in ranks : \A q \in ranks : ~ (<<q, r>> \in less)
  <2> HIDE DEF ranks
  <2> QED BY <1>1, <1>2, WFMin
<1>5. PICK x \in S : r = n - x
  BY <1>4
<1>6. ASSUME NEW y \in S PROVE y =< x
  <2>1. n - y \in ranks /\ n - y \in Nat /\ n - x \in Nat
    BY <1>1, <1>5
  <2>2. ~ (n - y < n - x)
    BY <1>3, <1>4, <1>5, <2>1
  <2> QED BY <2>2
<1> QED BY <1>5, <1>6

\* Whose opinion it is, and of which claim, does not change.
LEMMA OwnerLasts ==
  ASSUME NEW h, Sound(h), NEW g, Extends(g, h), NEW j \in Negatives(h)
  PROVE  j \in DOMAIN h /\ ByOf(g, j) = ByOf(h, j)
<1>1. CASE j \in Of(h, "review")
  <2>1. j \in DOMAIN h /\ g[j] = h[j] /\ h[j].kind = "review"
    BY <1>1, EventsLast, Ranked
  <2> QED BY <2>1 DEF ByOf
<1>2. CASE j \in Of(h, "response")
  <2>1. j \in DOMAIN h /\ g[j] = h[j] /\ h[j].kind = "response"
        /\ h[j].assignment \in Of(h, "assignment")
    BY <1>2, EventsLast, Ranked, Responses
  <2>2. g[h[j].assignment] = h[h[j].assignment]
    BY <2>1, EventsLast
  <2> QED BY <2>1, <2>2 DEF ByOf
<1> QED BY <1>1, <1>2 DEF Negatives, Rejections

\* An assignment is answered once.
LEMMA AnsweredOnce ==
  ASSUME NEW h, Sound(h), NEW i \in Of(h, "response"), NEW j \in Of(h, "response"),
         h[i].assignment = h[j].assignment, i < j
  PROVE  FALSE
<1> DEFINE b == Before(h, j)
<1>1. j \in DOMAIN h /\ h[j].kind = "response"
  BY Ranked
<1>2. /\ Accepts(b, h[j]) /\ Extends(h, b)
      /\ \A kind : Of(b, kind) = {k \in Of(h, kind) : k < j}
  BY <1>1, SoundEvent
<1> HIDE DEF b
<1>3. ResponsesTo(b, h[j].assignment) = {}
  BY <1>1, <1>2 DEF Accepts, AcceptsDelivery
<1>4. i \in Of(b, "response")
  BY <1>2
<1>5. b[i] = h[i]
  BY <1>2, <1>4, EventsLast
<1> QED BY <1>3, <1>4, <1>5 DEF ResponsesTo

\* A negative answer is an opinion until its submission takes its place.
LEMMA AnswersStand ==
  ASSUME Inv, NEW i \in NegativeAnswers
  PROVE  \E j \in Negatives(log) :
           /\ j >= i /\ ByOf(log, j) = ByOf(log, i) /\ SubjectOf(log, j) = SubjectOf(log, i)
<1>1. Sound(log) /\ i \in Nat
  BY Ranked DEF Inv, NegativeAnswers, Rejections
<1>2. CASE i \in Negatives(log)
  <2>1. i >= i
    BY <1>1
  <2> QED BY <1>2, <2>1
<1>3. CASE i \notin Negatives(log)
  <2> DEFINE a == log[i].assignment
  <2>1. /\ i \in Of(log, "response") /\ log[i].answer.verdict = "reject" /\ Submitted(log, a)
        /\ log[i].kind = "response"
    BY <1>1, <1>3, Ranked DEF NegativeAnswers, Negatives
  <2>2. PICK s \in Submissions(log) : log[s].assignment = a
    BY <2>1 DEF Submitted
  <2>3. /\ s \in Of(log, "review") /\ s \in Nat /\ a # None /\ log[s].kind = "review"
        /\ log[a].claim = log[s].claim /\ log[a].by = log[s].by
        /\ AcceptsSubmission(Before(log, s), log[s])
    BY <1>1, <2>2, Reviews, Ranked DEF Submissions
  <2> DEFINE b == Before(log, s)
  <2>4. PICK k \in ResponsesTo(b, a) :
          b[k].answer = [verdict |-> log[s].verdict, finding |-> log[s].finding,
                         withdraws |-> log[s].withdraws, resolves |-> log[s].resolves]
    BY <2>2, <2>3 DEF AcceptsSubmission
  <2>5. Extends(log, b) /\ \A kind : Of(b, kind) = {j \in Of(log, kind) : j < s}
    BY <1>1, <2>2, Approvals, SoundEvent
  <2> HIDE DEF b, a
  <2>6. k \in Of(b, "response") /\ b[k].assignment = a
    BY <2>4 DEF ResponsesTo
  <2>7. k \in Of(log, "response") /\ k < s /\ log[k] = b[k]
    BY <2>5, <2>6, EventsLast
  <2>8. k = i
    <3>1. k \in Nat /\ log[k].assignment = log[i].assignment
      BY <1>1, <2>6, <2>7, Ranked DEF a
    <3> QED BY <1>1, <2>1, <2>7, <3>1, AnsweredOnce
  <2>9. log[s].verdict = "reject"
    BY <2>1, <2>4, <2>7, <2>8
  <2>10. s \in Negatives(log)
    BY <2>3, <2>9 DEF Negatives, Rejections
  <2>11. ByOf(log, s) = ByOf(log, i) /\ SubjectOf(log, s) = SubjectOf(log, i)
    BY <2>1, <2>3 DEF ByOf, SubjectOf, a
  <2>12. s >= i
    BY <1>1, <2>3, <2>7, <2>8
  <2> QED BY <2>10, <2>11, <2>12
<1> QED BY <1>2, <1>3

\* A claim can become a paper only if every negative answer that any reviewer
\* ever gave about its family was followed by that reviewer's own approval of
\* this very claim in a reconsideration (review_admission.py _negatives,
\* vetoes, own_findings).
THEOREM ReviewOwnersWithdraw == Spec => []OwnersWithdraw
<1>1. Inv => OwnersWithdraw
  <2> SUFFICES ASSUME Inv, NEW c \in Candidates, NEW i \in NegativeAnswers,
                      SubjectOf(log, i) \in Family(log, c)
               PROVE  \E s \in Submissions(log) :
                        /\ s > i /\ log[s].claim = c /\ log[s].by = ByOf(log, i)
                        /\ log[s].verdict = "approve"
                        /\ log[log[s].assignment].policy = "reconsideration"
    BY DEF OwnersWithdraw
  <2>1. Sound(log) /\ log \in Seq(Event) /\ i \in Nat
    BY Ranked DEF Inv, Sound, NegativeAnswers, Rejections
  <2> DEFINE S == {j \in Negatives(log) :
                     /\ j >= i /\ ByOf(log, j) = ByOf(log, i)
                     /\ SubjectOf(log, j) = SubjectOf(log, i)}
  <2>2. S # {}
    BY AnswersStand
  <2>3. S \in SUBSET (1 .. Len(log)) /\ Len(log) \in Nat
    <3>1. Negatives(log) \subseteq DOMAIN log
      BY DEF Negatives, Rejections, Of
    <3>2. DOMAIN log = 1 .. Len(log) /\ Len(log) \in Nat
      BY <2>1
    <3> QED BY <3>1, <3>2
  <2>4. PICK j \in S : \A k \in S : k =< j
    <3> HIDE DEF S
    <3> QED BY <2>2, <2>3, Latest
  <2>5. j \in Opinions(log)
    <3> SUFFICES ASSUME NEW k \in Negatives(log), ByOf(log, k) = ByOf(log, j),
                        SubjectOf(log, k) = SubjectOf(log, j)
                 PROVE  k =< j
      BY DEF Opinions
    <3>1. j \in Nat /\ k \in Nat
      BY <2>1, <2>3, Ranked DEF Negatives, Rejections
    <3>2. CASE k >= i
      BY <2>4, <3>2
    <3>3. CASE ~(k >= i)
      BY <2>1, <3>1, <3>3
    <3> QED BY <3>2, <3>3
  <2>6. PICK s \in Submissions(log) : log[s].claim = c /\ j \in log[s].withdraws
    BY <2>5, CandidateIs DEF Vetoes, Withdrawn
  <2> DEFINE b == Before(log, s)
  <2>7. /\ log[s].verdict = "approve" /\ log[log[s].assignment].policy = "reconsideration"
        /\ Reconsiders(b, log[s].by, c, log[s])
    BY <2>1, <2>6, Reconsidered
  <2>8. /\ s \in DOMAIN log /\ Sound(b) /\ Extends(log, b)
        /\ DOMAIN b = {k \in DOMAIN log : k < s}
    <3>1. s \in DOMAIN log
      BY <2>1, <2>6, Approvals
    <3> QED BY <2>1, <3>1, SoundBefore, SoundEvent
  <2> HIDE DEF b
  <2>9. j \in Negatives(b) /\ ByOf(b, j) = log[s].by
    BY <2>6, <2>7 DEF Reconsiders, OwnOpinions, Vetoes, Opinions
  <2>10. j \in DOMAIN b /\ ByOf(log, j) = log[s].by
    BY <2>8, <2>9, OwnerLasts
  <2>11. s > i
    <3>1. s \in Nat /\ j \in Nat
      BY <2>1, <2>3, <2>8
    <3> QED BY <2>1, <2>4, <2>8, <2>10, <3>1
  <2> QED BY <2>4, <2>6, <2>7, <2>10, <2>11
<1> QED BY <1>1, ReviewInvariant, PTL

=============================================================================
