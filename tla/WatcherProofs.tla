----------------------------- MODULE WatcherProofs -----------------------------
(***************************************************************************)
(* Proofs about Watcher: for any number of paths, contents, edits and      *)
(* polls, and any limit of the stream.                                     *)
(***************************************************************************)
EXTENDS Watcher, WellFoundedInduction, NaturalsInduction, TLAPS

-----------------------------------------------------------------------------
(* A batch is pushed one event after the other                             *)

LEMMA InductionOverNat ==
  ASSUME NEW S, 0 \in S, \A n \in Nat : n \in S => n + 1 \in S
  PROVE  Nat \subseteq S
<1> DEFINE R == OpToRel(<, Nat)
           missing == Nat \ S
<1>1. IsWellFoundedOn(R, Nat)
  BY NatLessThanWellFounded, Zenon
<1>2. \A x, y \in Nat : x < y => <<x, y>> \in R
  BY DEF OpToRel
<1>3. missing \in SUBSET Nat
  OBVIOUS
<1> SUFFICES ASSUME missing # {} PROVE FALSE
  OBVIOUS
<1> HIDE DEF R, missing
<1>4. PICK x \in missing : \A y \in missing : ~(<<y, x>> \in R)
  BY <1>1, <1>3, WFMin
<1>5. x \in Nat /\ x # 0 /\ x \notin S
  BY <1>4 DEF missing
<1>6. x - 1 \in Nat /\ x - 1 < x /\ (x - 1) + 1 = x
  BY <1>5
<1>7. x - 1 \notin missing
  BY <1>2, <1>4, <1>5, <1>6
<1>8. x - 1 \in S
  BY <1>6, <1>7 DEF missing
<1> QED BY <1>5, <1>6, <1>8

\* The stream after the events of the paths up to p.
After(streams, first, raw, p) ==
    IF p = 0 THEN first
    ELSE IF raw[p] = None THEN streams[p - 1]
    ELSE Push(streams[p - 1], raw[p])

Pushes(streams, first, raw, m) == streams = [p \in 0..m |-> After(streams, first, raw, p)]

LEMMA StreamsExist ==
  ASSUME NEW first, NEW raw, NEW m \in Nat
  PROVE  \E streams : Pushes(streams, first, raw, m)
<1> DEFINE Upto(k) == \E streams : streams = [p \in 0..k |-> After(streams, first, raw, p)]
           S == {k \in Nat : Upto(k)}
<1>1. Upto(0)
  <2> DEFINE streams == [p \in 0..0 |-> first]
  <2>1. \A p \in 0..0 : After(streams, first, raw, p) = first
    BY DEF After
  <2>2. streams = [p \in 0..0 |-> After(streams, first, raw, p)]
    BY <2>1
  <2> QED BY <2>2
<1>2. ASSUME NEW k \in Nat, Upto(k) PROVE Upto(k + 1)
  <2>1. PICK streams : streams = [p \in 0..k |-> After(streams, first, raw, p)]
    BY <1>2
  <2> DEFINE next == IF raw[k + 1] = None THEN streams[k] ELSE Push(streams[k], raw[k + 1])
             longer == [p \in 0..(k + 1) |-> IF p = k + 1 THEN next ELSE streams[p]]
  <2>2. ASSUME NEW p \in 0..(k + 1) PROVE longer[p] = After(longer, first, raw, p)
    <3>1. CASE p = k + 1
      <4>1. k \in 0..(k + 1) /\ k # k + 1 /\ p - 1 = k /\ p # 0
        BY <3>1
      <4>2. longer[k] = streams[k]
        BY <4>1
      <4>3. longer[p] = next
        BY <3>1
      <4> QED BY <3>1, <4>1, <4>2, <4>3 DEF After
    <3>2. CASE p # k + 1
      <4>1. p \in 0..k
        BY <3>2
      <4>2. longer[p] = streams[p] /\ streams[p] = After(streams, first, raw, p)
        BY <2>1, <3>2, <4>1
      <4>3. CASE p = 0
        BY <4>2, <4>3 DEF After
      <4>4. CASE p # 0
        <5>1. p - 1 \in 0..(k + 1) /\ p - 1 # k + 1
          BY <4>1, <4>4
        <5>2. longer[p - 1] = streams[p - 1]
          BY <5>1
        <5> QED BY <4>2, <4>4, <5>2 DEF After
      <4> QED BY <4>3, <4>4
    <3> QED BY <3>1, <3>2
  <2>3. longer = [p \in 0..(k + 1) |-> longer[p]]
    OBVIOUS
  <2>4. longer = [p \in 0..(k + 1) |-> After(longer, first, raw, p)]
    BY <2>2, <2>3
  <2> HIDE DEF longer
  <2> QED BY <2>4
<1> HIDE DEF Upto
<1>3. 0 \in S /\ \A k \in Nat : k \in S => k + 1 \in S
  BY <1>1, <1>2
<1> HIDE DEF S
<1>4. Nat \subseteq S
  BY <1>3, InductionOverNat
<1>5. m \in S
  BY <1>4
<1>6. Upto(m)
  BY <1>5 DEF S
<1> QED BY <1>6 DEF Upto, Pushes

LEMMA BatchIsPushed ==
  ASSUME NEW first, NEW raw
  PROVE  \E streams : /\ streams[0] = first
                      /\ \A p \in Path : streams[p] = After(streams, first, raw, p)
                      /\ PushRawBatch(first, raw) = streams[Paths]
<1> DEFINE streams[p \in 0..Paths] ==
             IF p = 0 THEN first
             ELSE IF raw[p] = None THEN streams[p - 1]
             ELSE Push(streams[p - 1], raw[p])
<1>1. PushRawBatch(first, raw) = streams[Paths]
  BY DEF PushRawBatch
<1>2. \E s : s = [p \in 0..Paths |-> IF p = 0 THEN first
                                     ELSE IF raw[p] = None THEN s[p - 1]
                                     ELSE Push(s[p - 1], raw[p])]
  <2>1. Paths \in Nat
    BY WatcherAssumption
  <2>2. PICK s : Pushes(s, first, raw, Paths)
    BY <2>1, StreamsExist
  <2> QED BY <2>2, Zenon DEF Pushes, After
<1>3. streams = [p \in 0..Paths |-> IF p = 0 THEN first
                                    ELSE IF raw[p] = None THEN streams[p - 1]
                                    ELSE Push(streams[p - 1], raw[p])]
  BY <1>2, Zenon
<1> HIDE DEF streams
<1>4. streams[0] = first
  BY <1>3, WatcherAssumption
<1>5. ASSUME NEW p \in Path PROVE streams[p] = After(streams, first, raw, p)
  BY <1>3, WatcherAssumption DEF After, Path
<1> QED BY <1>1, <1>4, <1>5

-----------------------------------------------------------------------------
(* The events of two scans                                                 *)

\* An event of a path, that has waited at most so many polls.
IsEvent(e, p, polled) ==
    /\ e \in Event /\ e.path = p /\ e.age <= polled
    /\ (e.kind = "renamed") = (e.from # None)

LEMMA RawIsEvent ==
  ASSUME NEW p \in Path, NEW kind \in Kind, NEW from \in Path \union {None},
         (kind = "renamed") = (from # None)
  PROVE  /\ IsEvent(Raw(p, kind, from), p, 0)
         /\ Raw(p, kind, from).kind = kind /\ Raw(p, kind, from).from = from
         /\ Raw(p, kind, from) # None
<1>1. 0 \in 0..MaxPolls
  BY WatcherAssumption
<1>2. Raw(p, kind, from) = [path |-> p, kind |-> kind, from |-> from, age |-> 0]
  BY DEF Raw
<1>3. Raw(p, kind, from) \in Event
  BY <1>1, <1>2 DEF Event
<1> QED BY <1>2, <1>3, NoneAssumption DEF IsEvent

LEMMA Exclusive ==
  ASSUME NEW old, NEW new, NEW p
  PROVE  /\ p \in Created(old, new) => p \notin Modified(old, new) /\ p \notin Removed(old, new)
         /\ p \in Modified(old, new) => p \notin Created(old, new) /\ p \notin Removed(old, new)
         /\ p \in Removed(old, new) => p \notin Created(old, new) /\ p \notin Modified(old, new)
BY DEF Created, Modified, Removed

\* The paths that are renamed between two scans.
Sources(old, new) == {pair[1] : pair \in RenamedPairs(old, new)}

LEMMA PairIs ==
  ASSUME NEW old, NEW new, NEW pair \in RenamedPairs(old, new)
  PROVE  /\ pair[1] \in Removed(old, new) /\ pair[2] \in Created(old, new)
         /\ pair[1] \in Path /\ pair[2] \in Path /\ pair[1] # pair[2]
         /\ old[pair[1]] # None /\ new[pair[1]] = None
         /\ old[pair[2]] = None /\ new[pair[2]] # None
         /\ old[pair[1]] = new[pair[2]]
         /\ \A p \in Removed(old, new) : old[p] = old[pair[1]] => p = pair[1]
         /\ pair[1] \in Sources(old, new)
<1>1. /\ pair[1] \in Removed(old, new) /\ pair[2] \in Created(old, new)
      /\ old[pair[1]] = new[pair[2]]
      /\ \A p \in Removed(old, new) : old[p] = old[pair[1]] => p = pair[1]
  BY DEF RenamedPairs
<1>2. pair[1] \in Sources(old, new)
  BY DEF Sources
<1> QED BY <1>1, <1>2 DEF Removed, Created

\* diff_snapshots has an event for a path that says what became of it.
LEMMA EventOfPath ==
  ASSUME NEW old \in Files, NEW new \in Files, NEW p \in Path,
         NEW e, e = DiffSnapshots(old, new)[p], e # None
  PROVE  /\ IsEvent(e, p, 0) /\ e.from # p
         /\ (e.kind = "removed") = (new[p] = None)
         /\ (e.kind \in {"created", "renamed"}) = (old[p] = None)
         /\ e.from # None => /\ e.from \in Sources(old, new) /\ e.from \in Path
                             /\ new[e.from] = None
                             /\ DiffSnapshots(old, new)[e.from] = None
<1> DEFINE pairs == RenamedPairs(old, new)
<1>1. CASE p \in Created(old, new) /\ \E pair \in pairs : pair[2] = p
  <2> DEFINE chosen == CHOOSE pair \in pairs : pair[2] = p
  <2>1. chosen \in pairs /\ chosen[2] = p
    BY <1>1
  <2>2. e = Raw(p, "renamed", chosen[1])
    BY <1>1, Exclusive DEF DiffSnapshots
  <2> HIDE DEF chosen
  <2>3. /\ chosen[1] \in Path /\ chosen[1] \in Removed(old, new) /\ chosen[1] # p
        /\ new[chosen[1]] = None /\ old[chosen[1]] # None /\ chosen[1] \in Sources(old, new)
        /\ old[p] = None /\ new[p] # None
    BY <2>1, PairIs
  <2>4. chosen[1] # None
    BY <2>3, NoneAssumption
  <2>5. IsEvent(e, p, 0) /\ e.kind = "renamed" /\ e.from = chosen[1]
    BY <2>2, <2>3, <2>4, RawIsEvent DEF Kind
  <2>6. DiffSnapshots(old, new)[chosen[1]] = None
    <3>1. \A q \in {chosen[1]} : q \notin Created(old, new) /\ q \notin Modified(old, new)
      BY <2>3 DEF Created, Modified
    <3>2. ~(\A pair \in pairs : pair[1] # chosen[1])
      BY <2>1
    <3> QED BY <2>3, <3>1, <3>2 DEF DiffSnapshots
  <2> QED BY <2>3, <2>5, <2>6
<1>2. CASE p \in Created(old, new) /\ ~\E pair \in pairs : pair[2] = p
  <2>1. e = Raw(p, "created", None)
    BY <1>2, Exclusive DEF DiffSnapshots
  <2>2. IsEvent(e, p, 0) /\ e.kind = "created" /\ e.from = None
    BY <2>1, RawIsEvent DEF Kind
  <2>3. old[p] = None /\ new[p] # None /\ p # None
    BY <1>2, NoneAssumption DEF Created
  <2> QED BY <2>2, <2>3
<1>3. CASE p \in Modified(old, new)
  <2>1. old[p] # None /\ new[p] # None /\ p # None
    BY <1>3, NoneAssumption DEF Modified
  <2>2. e = Raw(p, "modified", None)
    BY <1>3, Exclusive DEF DiffSnapshots
  <2>3. IsEvent(e, p, 0) /\ e.kind = "modified" /\ e.from = None
    BY <2>2, RawIsEvent DEF Kind
  <2> QED BY <2>1, <2>3
<1>4. CASE p \in Removed(old, new) /\ \A pair \in pairs : pair[1] # p
  <2>1. old[p] # None /\ new[p] = None /\ p # None
    BY <1>4, NoneAssumption DEF Removed
  <2>2. p \notin Created(old, new) /\ p \notin Modified(old, new)
    BY <2>1 DEF Created, Modified
  <2>3. e = Raw(p, "removed", None)
    BY <1>4, <2>2 DEF DiffSnapshots
  <2>4. IsEvent(e, p, 0) /\ e.kind = "removed" /\ e.from = None
    BY <2>3, RawIsEvent DEF Kind
  <2> QED BY <2>1, <2>4
<1>5. CASE /\ p \notin Created(old, new) /\ p \notin Modified(old, new)
           /\ ~(p \in Removed(old, new) /\ \A pair \in pairs : pair[1] # p)
  <2>1. e = None
    BY <1>5 DEF DiffSnapshots
  <2> QED BY <2>1
<1> QED BY <1>1, <1>2, <1>3, <1>4, <1>5

\* A path without an event is as it was, or was renamed.
LEMMA NoEventOfPath ==
  ASSUME NEW old \in Files, NEW new \in Files, NEW p \in Path,
         DiffSnapshots(old, new)[p] = None, old[p] # new[p]
  PROVE  /\ new[p] = None /\ p \in Sources(old, new)
         /\ \E q \in Path : /\ DiffSnapshots(old, new)[q] # None
                            /\ DiffSnapshots(old, new)[q].from = p
<1> DEFINE pairs == RenamedPairs(old, new)
<1>1. p \in Removed(old, new) /\ new[p] = None /\ \E pair \in pairs : pair[1] = p
  <2>1. CASE p \in Created(old, new) /\ \E pair \in pairs : pair[2] = p
    <3> DEFINE chosen == CHOOSE pair \in pairs : pair[2] = p
    <3>1. chosen \in pairs /\ chosen[2] = p
      BY <2>1
    <3>2. DiffSnapshots(old, new)[p] = Raw(p, "renamed", chosen[1])
      BY <2>1, Exclusive DEF DiffSnapshots
    <3> HIDE DEF chosen
    <3>3. chosen[1] \in Path /\ chosen[1] # None
      BY <3>1, PairIs, NoneAssumption
    <3> QED BY <3>2, <3>3, RawIsEvent DEF Kind
  <2>2. CASE p \in Created(old, new) /\ ~\E pair \in pairs : pair[2] = p
    <3>1. DiffSnapshots(old, new)[p] = Raw(p, "created", None)
      BY <2>2, Exclusive DEF DiffSnapshots
    <3> QED BY <3>1, RawIsEvent DEF Kind
  <2>3. CASE p \in Modified(old, new)
    <3>1. DiffSnapshots(old, new)[p] = Raw(p, "modified", None)
      BY <2>3, Exclusive DEF DiffSnapshots
    <3> QED BY <3>1, RawIsEvent DEF Kind
  <2>4. CASE p \notin Created(old, new) /\ p \notin Modified(old, new)
    <3>1. p \in Removed(old, new) /\ new[p] = None
      BY <2>4 DEF Created, Modified, Removed
    <3>2. CASE \A pair \in pairs : pair[1] # p
      <4>1. DiffSnapshots(old, new)[p] = Raw(p, "removed", None)
        BY <2>4, <3>1, <3>2 DEF DiffSnapshots
      <4> QED BY <4>1, RawIsEvent DEF Kind
    <3> QED BY <3>1, <3>2
  <2> QED BY <2>1, <2>2, <2>3, <2>4
<1>2. PICK pair \in pairs : pair[1] = p
  BY <1>1
<1> DEFINE q == pair[2]
           chosen == CHOOSE x \in pairs : x[2] = q
<1>3. chosen \in pairs /\ chosen[2] = q
  BY <1>2
<1>4. q \in Path /\ q \in Created(old, new) /\ p \in Sources(old, new)
      /\ \A r \in Removed(old, new) : old[r] = new[q] => r = p
  BY <1>2, PairIs
<1>5. DiffSnapshots(old, new)[q] = Raw(q, "renamed", chosen[1])
  BY <1>2, <1>4, Exclusive DEF DiffSnapshots
<1> HIDE DEF q, chosen
<1>6. chosen[1] \in Removed(old, new) /\ old[chosen[1]] = new[q]
  BY <1>3, PairIs
<1>7. chosen[1] = p
  BY <1>4, <1>6
<1>8. DiffSnapshots(old, new)[q] # None /\ DiffSnapshots(old, new)[q].from = p
  BY <1>4, <1>5, <1>7, RawIsEvent, NoneAssumption DEF Kind
<1> QED BY <1>1, <1>4, <1>8

-----------------------------------------------------------------------------
(* One event is pushed                                                     *)

EventsOK(events, polled) ==
    /\ events \in [Path -> Event \union {None}]
    /\ \A p \in Path : events[p] # None => IsEvent(events[p], p, polled)

\* push_raw_event: what merge_rename makes of a raw event, and merge_events.
Arrived(events, e) ==
    IF e.kind = "renamed" /\ events[e.from] # None THEN MergeRename(events[e.from], e) ELSE e
Becomes(events, e) ==
    IF events[e.path] = None THEN Arrived(events, e) ELSE MergeEvents(events[e.path], Arrived(events, e))

\* The events when that of e's path has become v.
AfterPush(events, e, v) ==
    [p \in Path |-> IF p = e.path THEN v ELSE IF p = e.from THEN None ELSE events[p]]

LEMMA EventFields ==
  ASSUME NEW e, NEW q, NEW m, IsEvent(e, q, m)
  PROVE  /\ e.path = q /\ e.kind \in Kind /\ e.from \in Path \union {None} /\ e.age \in 0..MaxPolls
         /\ e # None /\ e.age <= m /\ e.age \in Nat
         /\ e = [path |-> e.path, kind |-> e.kind, from |-> e.from, age |-> e.age]
<1>1. e \in Event /\ e # None /\ e.path = q /\ e.age <= m
  BY NoneAssumption DEF IsEvent
<1> QED BY <1>1, WatcherAssumption DEF Event

LEMMA ArrivedIs ==
  ASSUME NEW m \in Nat, NEW events, EventsOK(events, m),
         NEW q \in Path, NEW e, IsEvent(e, q, 0), e.from # q
  PROVE  LET a == Arrived(events, e) IN
         /\ IsEvent(a, q, 0)
         /\ (a.kind = "removed") = (e.kind = "removed")
         /\ a.kind = "modified" => e.kind = "modified"
         /\ a.kind = "created" => e.kind \in {"created", "renamed"}
         /\ \/ a.from \in {None, e.from}
            \/ /\ e.from \in Path /\ events[e.from] # None
               /\ a.from = events[e.from].from
<1> DEFINE a == Arrived(events, e)
<1>1. /\ e.path = q /\ e.kind \in Kind /\ e.from \in Path \union {None} /\ e.age = 0 /\ e # None
      /\ e = [path |-> e.path, kind |-> e.kind, from |-> e.from, age |-> e.age]
  BY EventFields
<1>2. CASE ~(e.kind = "renamed" /\ events[e.from] # None)
  BY <1>1, <1>2 DEF Arrived
<1>3. CASE e.kind = "renamed" /\ events[e.from] # None
  <2> DEFINE old == events[e.from]
  <2>1. a = MergeRename(old, e) /\ e.from # None /\ e.from \in Path
    BY <1>1, <1>3 DEF Arrived, IsEvent
  <2>2. IsEvent(old, e.from, m)
    BY <1>3, <2>1 DEF EventsOK
  <2>3. old.from \in Path \union {None} /\ (old.kind = "renamed") = (old.from # None)
    BY <2>2, EventFields DEF IsEvent
  <2>4. 0 \in 0..MaxPolls /\ 0 <= 0
    BY WatcherAssumption
  <2> HIDE DEF a, old
  <2>5. CASE old.kind = "created"
    <3>1. a = [path |-> q, kind |-> "created", from |-> None, age |-> 0]
      BY <1>1, <2>1, <2>5 DEF MergeRename
    <3>2. a \in Event
      BY <2>4, <3>1 DEF Event, Kind
    <3>3. IsEvent(a, q, 0)
      BY <2>4, <3>1, <3>2 DEF IsEvent
    <3> QED BY <1>3, <3>1, <3>3 DEF a
  <2>6. CASE old.kind = "renamed"
    <3>1. a = [path |-> q, kind |-> "renamed", from |-> old.from, age |-> 0]
      BY <1>1, <1>3, <2>1, <2>6 DEF MergeRename
    <3>2. a \in Event
      BY <2>3, <2>4, <3>1 DEF Event, Kind
    <3>3. IsEvent(a, q, 0)
      BY <2>3, <2>4, <2>6, <3>1, <3>2 DEF IsEvent
    <3> QED BY <1>3, <2>1, <3>1, <3>3 DEF a, old
  <2>7. CASE old.kind # "created" /\ old.kind # "renamed"
    <3>1. a = e
      BY <2>1, <2>7 DEF MergeRename
    <3> QED BY <1>3, <3>1 DEF a
  <2> QED BY <2>5, <2>6, <2>7
<1> QED BY <1>2, <1>3

LEMMA BecomesIs ==
  ASSUME NEW m \in Nat, NEW events, EventsOK(events, m),
         NEW q \in Path, NEW e, IsEvent(e, q, 0), e.from # q
  PROVE  LET v == Becomes(events, e) IN
         /\ v # None => /\ IsEvent(v, q, 0)
                        /\ (v.kind = "removed") = (e.kind = "removed")
         /\ v = None => /\ events[q] # None /\ events[q].kind = "created"
                        /\ e.kind = "removed"
         /\ v # None /\ v.kind = "created" =>
                 \/ events[q] # None /\ events[q].kind = "created"
                 \/ /\ events[q] # None => events[q].kind # "removed"
                    /\ e.kind \in {"created", "renamed"}
         /\ v # None => \/ v.from \in {None, e.from}
                        \/ events[q] # None /\ v.from = events[q].from
                        \/ /\ e.from \in Path /\ events[e.from] # None
                           /\ v.from = events[e.from].from
<1> DEFINE v == Becomes(events, e)
           a == Arrived(events, e)
           old == events[q]
<1>1. /\ IsEvent(a, q, 0)
      /\ (a.kind = "removed") = (e.kind = "removed")
      /\ a.kind = "modified" => e.kind = "modified"
      /\ a.kind = "created" => e.kind \in {"created", "renamed"}
      /\ \/ a.from \in {None, e.from}
         \/ /\ e.from \in Path /\ events[e.from] # None
            /\ a.from = events[e.from].from
  BY ArrivedIs
<1>2. e.path = q /\ e.kind \in Kind
  BY EventFields
<1>3. a # None /\ a.path = q /\ a.kind \in Kind
  BY <1>1, EventFields
<1>4. v = IF old = None THEN a ELSE MergeEvents(old, a)
  BY <1>2 DEF Becomes
<1>5. old # None => IsEvent(old, q, m)
  BY DEF EventsOK
<1> HIDE DEF v, a, old
<1>6. CASE old = None
  BY <1>1, <1>3, <1>4, <1>6 DEF v, old
<1>7. CASE old # None
  <2>1. /\ old = [path |-> q, kind |-> old.kind, from |-> old.from, age |-> old.age]
        /\ old.from \in Path \union {None} /\ old.kind \in Kind
        /\ (old.kind = "renamed") = (old.from # None)
    BY <1>5, <1>7, EventFields DEF IsEvent
  <2>2. 0 \in 0..MaxPolls /\ 0 <= 0
    BY WatcherAssumption
  <2>3. CASE old.kind \in {"created", "renamed"} /\ a.kind = "modified"
    <3>1. v = [path |-> q, kind |-> old.kind, from |-> old.from, age |-> 0]
      BY <1>4, <1>7, <2>1, <2>3 DEF MergeEvents
    <3>2. v \in Event
      BY <2>1, <2>2, <3>1 DEF Event
    <3>3. IsEvent(v, q, 0) /\ v # None
      BY <2>1, <2>2, <3>1, <3>2, NoneAssumption DEF IsEvent
    <3>4. e.kind = "modified"
      BY <1>1, <2>3
    <3> QED BY <1>7, <2>3, <3>1, <3>3, <3>4 DEF v, old
  <2>4. CASE old.kind = "created" /\ a.kind = "removed"
    <3>1. v = None
      BY <1>4, <1>7, <2>4 DEF MergeEvents
    <3> QED BY <1>1, <1>7, <2>4, <3>1 DEF v, old
  <2>5. CASE old.kind = "removed" /\ a.kind \in {"created", "modified"}
    <3>1. v = Raw(q, "modified", None)
      BY <1>3, <1>4, <1>7, <2>5 DEF MergeEvents
    <3>2. IsEvent(v, q, 0) /\ v.kind = "modified" /\ v.from = None /\ v # None
      BY <3>1, RawIsEvent, NoneAssumption DEF Kind
    <3>3. e.kind # "removed"
      BY <1>1, <2>5
    <3> QED BY <1>7, <2>5, <3>2, <3>3 DEF v, old
  <2>6. CASE /\ ~(old.kind \in {"created", "renamed"} /\ a.kind = "modified")
             /\ ~(old.kind = "created" /\ a.kind = "removed")
             /\ ~(old.kind = "removed" /\ a.kind \in {"created", "modified"})
    <3>1. v = a
      BY <1>4, <1>7, <2>6 DEF MergeEvents
    <3>2. a.kind = "created" => old.kind # "removed"
      BY <2>6
    <3> QED BY <1>1, <1>3, <1>7, <3>1, <3>2 DEF v, old
  <2> QED BY <2>3, <2>4, <2>5, <2>6
<1> QED BY <1>6, <1>7

LEMMA DropIs ==
  ASSUME NEW events, NEW full, NEW value
  PROVE  [[pending |-> events, dropped |-> full] EXCEPT !.dropped = value]
             = [pending |-> events, dropped |-> value]
OBVIOUS

LEMMA PushIs ==
  ASSUME NEW m \in Nat, NEW events, EventsOK(events, m), NEW full \in BOOLEAN,
         NEW q \in Path, NEW e, IsEvent(e, q, 0), e.from # q,
         NEW s, s = [pending |-> events, dropped |-> full]
  PROVE  \/ Push(s, e) = [pending |-> AfterPush(events, e, Becomes(events, e)), dropped |-> full]
         \/ Push(s, e) = [pending |-> AfterPush(events, e, None), dropped |-> TRUE]
<1>1. e.path = q /\ e.from \in Path \union {None} /\ (e.kind = "renamed") = (e.from # None)
  BY EventFields DEF IsEvent
<1> DEFINE moved == e.kind = "renamed" /\ events[e.from] # None
           event == Arrived(events, e)
           freed == IF moved THEN [events EXCEPT ![e.from] = None] ELSE events
           stream == [pending |-> freed, dropped |-> full]
           merged == MergeEvents(freed[q], event)
           gone == [freed EXCEPT ![q] = None]
           without == [pending |-> gone, dropped |-> full]
<1>0. events \in [Path -> Event \union {None}]
  BY DEF EventsOK
<1>2. freed \in [Path -> Event \union {None}] /\ freed[q] = events[q]
  BY <1>0, <1>1
<1>3. \A p \in Path : freed[p] = IF p = e.from THEN None ELSE events[p]
  BY <1>0, <1>1, NoneAssumption
<1>4. Push(s, e) = IF freed[q] = None THEN InsertPending(stream, event)
                   ELSE IF merged = None THEN without
                   ELSE InsertPending(without, merged)
  <2>1. s.pending = events /\ s.dropped = full
    OBVIOUS
  <2>2. moved => [s EXCEPT !.pending[e.from] = None] = stream
    BY <1>0, <1>1
  <2>3. ~moved => s = stream
    OBVIOUS
  <2>4. event = IF moved THEN MergeRename(events[e.from], e) ELSE e
    BY DEF Arrived
  <2>5. [stream EXCEPT !.pending[q] = None] = without
    OBVIOUS
  <2>8. stream.pending = freed
    OBVIOUS
  <2>6. Push(s, e) = Merge(stream, event)
    <3>1. CASE moved
      BY <2>1, <2>2, <2>4, <3>1 DEF Push
    <3>2. CASE ~moved
      BY <2>1, <2>3, <2>4, <3>2 DEF Push
    <3> QED BY <3>1, <3>2
  <2>7. event.path = q
    BY ArrivedIs DEF IsEvent
  <2> HIDE DEF event, merged, without, stream, freed
  <2> QED BY <2>5, <2>6, <2>7, <2>8 DEF Merge, merged
<1>5. event.path = q /\ event \in Event
  BY ArrivedIs DEF IsEvent
<1>6. Becomes(events, e) = IF freed[q] = None THEN event ELSE merged
  BY <1>1, <1>2 DEF Becomes
<1>7. Becomes(events, e) # None => Becomes(events, e).path = q /\ Becomes(events, e) \in Event
  BY BecomesIs DEF IsEvent
<1> HIDE DEF event, merged
<1>8. CASE freed[q] = None
  <2>1. Push(s, e) = InsertPending(stream, event) /\ Becomes(events, e) = event
    BY <1>4, <1>6, <1>8
  <2>2. InsertPending(stream, event) \in {[stream EXCEPT !.dropped = TRUE], [stream EXCEPT !.pending[q] = event]}
    BY <1>5 DEF InsertPending
  <2>3. [stream EXCEPT !.dropped = TRUE] = [pending |-> freed, dropped |-> TRUE]
    BY DropIs, Zenon
  <2>4. [stream EXCEPT !.pending[q] = event] = [pending |-> [freed EXCEPT ![q] = event], dropped |-> full]
    OBVIOUS
  <2>5. freed = AfterPush(events, e, None)
    BY <1>1, <1>2, <1>3, <1>8 DEF AfterPush
  <2>6. [freed EXCEPT ![q] = event] = AfterPush(events, e, event)
    BY <1>1, <1>2, <1>3 DEF AfterPush
  <2> HIDE DEF freed, stream
  <2> QED BY <2>1, <2>2, <2>3, <2>4, <2>5, <2>6
<1>9. CASE freed[q] # None
  <2>1. [freed EXCEPT ![q] = None] = AfterPush(events, e, None)
    BY <1>1, <1>2, <1>3 DEF AfterPush
  <2>2. CASE merged = None
    BY <1>4, <1>6, <1>9, <2>1, <2>2
  <2>3. CASE merged # None
    <3>1. Push(s, e) = InsertPending(without, merged) /\ Becomes(events, e) = merged /\ merged.path = q
      BY <1>4, <1>6, <1>7, <1>9, <2>3
    <3>2. InsertPending(without, merged) \in {[without EXCEPT !.dropped = TRUE], [without EXCEPT !.pending[q] = merged]}
      BY <3>1 DEF InsertPending
    <3>3. [without EXCEPT !.dropped = TRUE] = [pending |-> gone, dropped |-> TRUE]
      <4>1. [[pending |-> gone, dropped |-> full] EXCEPT !.dropped = TRUE] = [pending |-> gone, dropped |-> TRUE]
        <5> HIDE DEF gone
        <5> QED BY DropIs, Zenon
      <4> QED BY <4>1
    <3>4. [without EXCEPT !.pending[q] = merged] = [pending |-> [freed EXCEPT ![q] = merged], dropped |-> full]
      BY <1>2
    <3>5. [freed EXCEPT ![q] = merged] = AfterPush(events, e, merged)
      BY <1>1, <1>2, <1>3 DEF AfterPush
    <3> HIDE DEF freed, without
    <3> QED BY <2>1, <3>1, <3>2, <3>3, <3>4, <3>5
  <2> QED BY <2>2, <2>3
<1> QED BY <1>8, <1>9

-----------------------------------------------------------------------------
(* A batch is pushed                                                       *)

\* What pending events say of the files that were scanned last; away are the
\* paths that were ever renamed, view is what a caller knows of the files.
IsTrue(events, files) ==
    \A p \in Path : events[p] # None => (events[p].kind = "removed") = (files[p] = None)
FromAway(events, away) ==
    \A p \in Path : events[p] # None => events[p].from \in away \union {None}
CreatedIsNew(events, full, away, view) ==
    ~full => \A p \in Path \ away : events[p] # None /\ events[p].kind = "created" => view[p] = None
IsReported(events, full, files, away, view) ==
    ~full => \A p \in Path : files[p] # None \/ p \notin away => events[p] # None \/ view[p] = files[p]

StreamInv(events, full, files, away, view) ==
    /\ IsTrue(events, files)
    /\ FromAway(events, away)
    /\ CreatedIsNew(events, full, away, view)
    /\ IsReported(events, full, files, away, view)

LEMMA BatchKeeps ==
  ASSUME NEW m \in Nat, NEW events, EventsOK(events, m), NEW full \in BOOLEAN,
         NEW old \in Files, NEW new \in Files, NEW before, NEW view,
         StreamInv(events, full, old, before, view),
         NEW s, s = PushRawBatch([pending |-> events, dropped |-> full], DiffSnapshots(old, new))
  PROVE  /\ EventsOK(s.pending, m) /\ s.dropped \in BOOLEAN
         /\ StreamInv(s.pending, s.dropped, new, before \union Sources(old, new), view)
<1> DEFINE raw == DiffSnapshots(old, new)
           away == before \union Sources(old, new)
           Left(p, n) == p > n /\ raw[p] # None
           Types(P, D) == EventsOK(P, m) /\ D \in BOOLEAN /\ (full => D)
           Untouched(P, n) == \A p \in Path : Left(p, n) => P[p] = events[p]
           TrueSoFar(P, n) ==
              \A p \in Path : P[p] # None =>
                 \/ (P[p].kind = "removed") = (new[p] = None)
                 \/ Left(p, n)
                 \/ \E q \in Path : Left(q, n) /\ raw[q].from = p
           ReportedSoFar(P, D, n) ==
              ~D => \A p \in Path : new[p] # None \/ p \notin away =>
                       P[p] # None \/ view[p] = new[p] \/ Left(p, n)
           J(P, D, n) == /\ Types(P, D) /\ Untouched(P, n) /\ TrueSoFar(P, n) /\ FromAway(P, away)
                         /\ CreatedIsNew(P, D, away, view) /\ ReportedSoFar(P, D, n)
<1>1. Path \subseteq Nat \ {0} /\ Paths \in Nat /\ \A p \in Path : p <= Paths
  BY WatcherAssumption DEF Path
<1>2. \A p \in Path : raw[p] # None =>
        /\ IsEvent(raw[p], p, 0) /\ raw[p].from # p
        /\ (raw[p].kind = "removed") = (new[p] = None)
        /\ (raw[p].kind \in {"created", "renamed"}) = (old[p] = None)
        /\ raw[p].from # None => /\ raw[p].from \in away /\ raw[p].from \in Path
                                 /\ new[raw[p].from] = None /\ raw[raw[p].from] = None
  BY EventOfPath
<1>3. \A p \in Path : raw[p] = None /\ old[p] # new[p] =>
        /\ new[p] = None /\ p \in away
        /\ \E q \in Path : raw[q] # None /\ raw[q].from = p
  BY NoEventOfPath
<1> HIDE DEF raw, away
<1>4. J(events, full, 0)
  <2>1. \A p \in Path : raw[p] # None => Left(p, 0)
    BY <1>1
  <2>2. Types(events, full) /\ Untouched(events, 0)
    OBVIOUS
  <2>3. TrueSoFar(events, 0)
    <3> SUFFICES ASSUME NEW p \in Path, events[p] # None, ~Left(p, 0),
                        ~\E q \in Path : Left(q, 0) /\ raw[q].from = p
                 PROVE  (events[p].kind = "removed") = (new[p] = None)
      OBVIOUS
    <3>1. raw[p] = None
      BY <2>1
    <3>2. ~\E q \in Path : raw[q] # None /\ raw[q].from = p
      BY <2>1
    <3>3. old[p] = new[p]
      BY <1>3, <3>1, <3>2
    <3>4. (events[p].kind = "removed") = (old[p] = None)
      BY DEF StreamInv, IsTrue
    <3> QED BY <3>3, <3>4
  <2>4. FromAway(events, away) /\ CreatedIsNew(events, full, away, view)
    BY DEF StreamInv, FromAway, CreatedIsNew, away
  <2>5. ReportedSoFar(events, full, 0)
    <3> SUFFICES ASSUME ~full, NEW p \in Path, new[p] # None \/ p \notin away, ~Left(p, 0)
                 PROVE  events[p] # None \/ view[p] = new[p]
      OBVIOUS
    <3>1. old[p] = new[p]
      BY <1>3, <2>1
    <3>2. old[p] # None \/ p \notin before
      BY <3>1 DEF away
    <3> QED BY <3>1, <3>2 DEF StreamInv, IsReported
  <2> QED BY <2>2, <2>3, <2>4, <2>5
<1>5. ASSUME NEW P, NEW D, NEW q \in Path, J(P, D, q - 1), raw[q] = None
      PROVE  J(P, D, q)
  <2>1. \A p \in Path : Left(p, q) <=> Left(p, q - 1)
    BY <1>1, <1>5
  <2> HIDE DEF Left
  <2> QED BY <1>5, <2>1
<1>6. ASSUME NEW P, NEW D, NEW q \in Path, J(P, D, q - 1), raw[q] # None,
             NEW v, NEW full2, NEW t,
             \/ v = Becomes(P, raw[q]) /\ full2 = D
             \/ v = None /\ full2 = TRUE,
             t = AfterPush(P, raw[q], v)
      PROVE  J(t, full2, q)
  <2> DEFINE e == raw[q]
  <2>1. /\ IsEvent(e, q, 0) /\ e.from # q
        /\ (e.kind = "removed") = (new[q] = None)
        /\ (e.kind \in {"created", "renamed"}) = (old[q] = None)
        /\ e.from # None => /\ e.from \in away /\ e.from \in Path
                            /\ new[e.from] = None /\ raw[e.from] = None
    BY <1>2, <1>6
  <2>2. EventsOK(P, m) /\ D \in BOOLEAN /\ full2 \in BOOLEAN /\ (full => D) /\ (D => full2)
    BY <1>6
  <2>3. LET b == Becomes(P, e) IN
         /\ b # None => /\ IsEvent(b, q, 0)
                        /\ (b.kind = "removed") = (e.kind = "removed")
         /\ b = None => /\ P[q] # None /\ P[q].kind = "created"
                        /\ e.kind = "removed"
         /\ b # None /\ b.kind = "created" =>
                 \/ P[q] # None /\ P[q].kind = "created"
                 \/ /\ P[q] # None => P[q].kind # "removed"
                    /\ e.kind \in {"created", "renamed"}
         /\ b # None => \/ b.from \in {None, e.from}
                        \/ P[q] # None /\ b.from = P[q].from
                        \/ /\ e.from \in Path /\ P[e.from] # None
                           /\ b.from = P[e.from].from
    BY <2>1, <2>2, BecomesIs
  <2>4. /\ t = [p \in Path |-> IF p = q THEN v ELSE IF p = e.from THEN None ELSE P[p]]
        /\ t[q] = v
        /\ \A p \in Path : p # q => t[p] = IF p = e.from THEN None ELSE P[p]
    BY <1>6, <2>1, EventFields DEF AfterPush
  <2>5. P[q] = events[q] /\ Left(q, q - 1)
    BY <1>1, <1>6
  <2>6. \A p \in Path : p # q => (Left(p, q) <=> Left(p, q - 1))
    BY <1>1
  <2>7. ~Left(q, q)
    BY <1>1
  <2>8. \A p \in Path : Left(p, q) => p # q /\ p # e.from /\ Left(p, q - 1)
    <3> SUFFICES ASSUME NEW p \in Path, Left(p, q) PROVE p # q /\ p # e.from /\ Left(p, q - 1)
      OBVIOUS
    <3>1. p # q /\ Left(p, q - 1) /\ raw[p] # None /\ p # None
      BY <2>6, <2>7, NoneAssumption
    <3> QED BY <2>1, <3>1
  <2> HIDE DEF Left, e
  <2>9. Types(t, full2)
    <3>0. v # None => IsEvent(v, q, 0)
      BY <1>6, <2>3 DEF e
    <3>1. v # None => IsEvent(v, q, m) /\ v \in Event
      BY <3>0, EventFields DEF IsEvent
    <3>2. t \in [Path -> Event \union {None}]
      BY <2>2, <2>4, <3>1 DEF EventsOK
    <3>3. \A p \in Path : t[p] # None => IsEvent(t[p], p, m)
      BY <2>2, <2>4, <3>1 DEF EventsOK
    <3> QED BY <2>2, <3>2, <3>3 DEF EventsOK
  <2>10. Untouched(t, q)
    BY <1>6, <2>4, <2>8
  <2>11. TrueSoFar(t, q)
    <3> SUFFICES ASSUME NEW p \in Path, t[p] # None, ~Left(p, q),
                        ~\E r \in Path : Left(r, q) /\ raw[r].from = p
                 PROVE  (t[p].kind = "removed") = (new[p] = None)
      OBVIOUS
    <3>1. CASE p = q
      BY <1>6, <2>1, <2>3, <2>4, <3>1 DEF e
    <3>2. CASE p # q
      <4>1. p # e.from /\ t[p] = P[p]
        BY <2>4, <3>2
      <4>2. ~Left(p, q - 1)
        BY <2>6, <3>2
      <4>3. ~\E r \in Path : Left(r, q - 1) /\ raw[r].from = p
        BY <2>6, <4>1 DEF e
      <4> QED BY <1>6, <4>1, <4>2, <4>3
    <3> QED BY <3>1, <3>2
  <2>12. FromAway(t, away)
    <3>1. v # None => v.from \in away \union {None}
      BY <1>6, <2>1, <2>3 DEF e, FromAway
    <3> QED BY <1>6, <2>4, <3>1 DEF FromAway
  <2>13. CreatedIsNew(t, full2, away, view)
    <3> SUFFICES ASSUME ~full2, NEW p \in Path \ away, t[p] # None, t[p].kind = "created"
                 PROVE  view[p] = None
      BY DEF CreatedIsNew
    <3>1. ~D /\ ~full
      BY <2>2
    <3>2. CASE p # q
      <4>1. t[p] = P[p]
        BY <2>4, <3>2
      <4> QED BY <1>6, <3>1, <4>1 DEF CreatedIsNew
    <3>3. CASE p = q
      <4>1. v = Becomes(P, e)
        BY <1>6, <2>4, <3>3 DEF e
      <4>2. CASE P[q] # None /\ P[q].kind = "created"
        BY <1>6, <3>1, <3>3, <4>2 DEF CreatedIsNew
      <4>3. CASE (P[q] # None => P[q].kind # "removed") /\ e.kind \in {"created", "renamed"}
        <5>1. old[q] = None
          BY <2>1, <4>3
        <5>2. events[q] = None
          BY <2>5, <4>3, <5>1 DEF StreamInv, IsTrue
        <5>3. q \notin before
          BY <3>3 DEF away
        <5> QED BY <3>1, <3>3, <5>1, <5>2, <5>3 DEF StreamInv, IsReported
      <4> QED BY <2>3, <2>4, <3>3, <4>1, <4>2, <4>3
    <3> QED BY <3>2, <3>3
  <2>14. ReportedSoFar(t, full2, q)
    <3> SUFFICES ASSUME ~full2, NEW p \in Path, new[p] # None \/ p \notin away, t[p] = None, ~Left(p, q)
                 PROVE  view[p] = new[p]
      OBVIOUS
    <3>1. ~D
      BY <2>2
    <3>2. CASE p = q
      <4>1. v = Becomes(P, e) /\ v = None
        BY <1>6, <2>4, <3>2 DEF e
      <4>2. P[q] # None /\ P[q].kind = "created" /\ e.kind = "removed"
        BY <2>3, <4>1
      <4>3. new[q] = None /\ q \notin away
        BY <2>1, <3>2, <4>2
      <4> QED BY <1>6, <3>1, <3>2, <4>2, <4>3 DEF CreatedIsNew
    <3>3. CASE p # q
      <4>1. p # e.from
        BY <2>1, NoneAssumption
      <4>2. t[p] = P[p] /\ ~Left(p, q - 1)
        BY <2>4, <2>6, <3>3, <4>1
      <4> QED BY <1>6, <3>1, <4>2
    <3> QED BY <3>2, <3>3
  <2> HIDE DEF Types, Untouched, TrueSoFar, ReportedSoFar
  <2> QED BY <2>9, <2>10, <2>11, <2>12, <2>13, <2>14
<1> HIDE DEF J
<1> DEFINE first == [pending |-> events, dropped |-> full]
<1>7. PICK streams : /\ streams[0] = first
                     /\ \A p \in Path : streams[p] = After(streams, first, raw, p)
                     /\ s = streams[Paths]
  BY BatchIsPushed DEF raw
<1> DEFINE Good(n) == /\ streams[n] = [pending |-> streams[n].pending, dropped |-> streams[n].dropped]
                      /\ J(streams[n].pending, streams[n].dropped, n)
           S == {n \in Nat : n <= Paths => Good(n)}
<1>8. Good(0)
  BY <1>4, <1>7
<1>9. ASSUME NEW n \in Nat, n + 1 <= Paths, Good(n) PROVE Good(n + 1)
  <2> DEFINE q == n + 1
             P == streams[n].pending
             D == streams[n].dropped
  <2>1. q \in Path /\ q - 1 = n /\ q # 0
    BY <1>1, <1>9 DEF Path
  <2>2. streams[n] = [pending |-> P, dropped |-> D] /\ J(P, D, q - 1)
    BY <1>9, <2>1
  <2>3. streams[q] = IF raw[q] = None THEN streams[n] ELSE Push(streams[n], raw[q])
    BY <1>7, <2>1 DEF After
  <2>4. CASE raw[q] = None
    <3>1. J(P, D, q)
      BY <1>5, <2>1, <2>2, <2>4
    <3>2. streams[q] = streams[n]
      BY <2>3, <2>4
    <3> QED BY <2>2, <3>1, <3>2
  <2>5. CASE raw[q] # None
    <3>1. EventsOK(P, m) /\ D \in BOOLEAN
      BY <2>2 DEF J
    <3>2. IsEvent(raw[q], q, 0) /\ raw[q].from # q
      BY <1>2, <2>1, <2>5
    <3> HIDE DEF P, D, q
    <3>3. \/ Push(streams[n], raw[q]) = [pending |-> AfterPush(P, raw[q], Becomes(P, raw[q])), dropped |-> D]
          \/ Push(streams[n], raw[q]) = [pending |-> AfterPush(P, raw[q], None), dropped |-> TRUE]
      <4> DEFINE stream == [pending |-> P, dropped |-> D]
                 e == raw[q]
      <4>1. IsEvent(e, q, 0) /\ e.from # q /\ streams[n] = stream
        BY <2>2, <3>2
      <4>2. stream = [pending |-> P, dropped |-> D]
        OBVIOUS
      <4> HIDE DEF stream, e
      <4>3. \/ Push(stream, e) = [pending |-> AfterPush(P, e, Becomes(P, e)), dropped |-> D]
            \/ Push(stream, e) = [pending |-> AfterPush(P, e, None), dropped |-> TRUE]
        BY <2>1, <3>1, <4>1, <4>2, PushIs
      <4> QED BY <4>1, <4>3, Zenon DEF e
    <3>4. PICK v, full2 : /\ streams[q] = [pending |-> AfterPush(P, raw[q], v), dropped |-> full2]
                          /\ \/ v = Becomes(P, raw[q]) /\ full2 = D
                             \/ v = None /\ full2 = TRUE
      BY <2>3, <2>5, <3>3, Zenon
    <3>5. J(AfterPush(P, raw[q], v), full2, q)
      BY <1>6, <2>1, <2>2, <2>5, <3>4
    <3>6. Good(q)
      BY <3>4, <3>5
    <3> QED BY <3>6 DEF q
  <2> QED BY <2>4, <2>5
<1>10. 0 \in S /\ \A n \in Nat : n \in S => n + 1 \in S
  <2> HIDE DEF Good
  <2> QED BY <1>1, <1>8, <1>9
<1> HIDE DEF S
<1>11. Paths \in S
  BY <1>1, <1>10, InductionOverNat
<1>12. J(s.pending, s.dropped, Paths)
  BY <1>1, <1>7, <1>11 DEF S
<1>13. \A p \in Path : ~Left(p, Paths)
  BY <1>1
<1> HIDE DEF Left
<1>14. IsTrue(s.pending, new)
  BY <1>12, <1>13 DEF J, IsTrue
<1>15. IsReported(s.pending, s.dropped, new, away, view)
  BY <1>12, <1>13 DEF J, IsReported
<1> QED BY <1>12, <1>14, <1>15 DEF J, StreamInv, away

\* Events are drained, and whoever gets them rereads what they name.
Drained(events, ready) == [p \in Path |-> IF p \in ready THEN None ELSE events[p]]
Seen(events, ready, files, view) ==
    [p \in Path |-> IF p \in Named({events[q] : q \in ready}) THEN files[p] ELSE view[p]]

LEMMA DrainKeeps ==
  ASSUME NEW m \in Nat, NEW events, EventsOK(events, m), NEW full, NEW files \in Files,
         NEW away, NEW view \in Files, StreamInv(events, full, files, away, view),
         NEW ready \in SUBSET Waiting(events)
  PROVE  /\ EventsOK(Drained(events, ready), m) /\ Seen(events, ready, files, view) \in Files
         /\ StreamInv(Drained(events, ready), full, files, away, Seen(events, ready, files, view))
<1> DEFINE rest == Drained(events, ready)
           reread == Seen(events, ready, files, view)
<1>0. /\ rest = [p \in Path |-> IF p \in ready THEN None ELSE events[p]]
      /\ reread = [p \in Path |-> IF p \in Named({events[q] : q \in ready}) THEN files[p] ELSE view[p]]
  BY DEF Drained, Seen
<1> HIDE DEF rest, reread
<1>1. /\ \A p \in Path : rest[p] = IF p \in ready THEN None ELSE events[p]
      /\ \A p \in Path : reread[p] \in {files[p], view[p]}
      /\ ready \subseteq Path
  BY <1>0 DEF Waiting
<1>2. EventsOK(rest, m)
  BY <1>0, <1>1 DEF EventsOK
<1>3. reread \in Files
  BY <1>0, <1>1 DEF Files
<1>4. ASSUME NEW p \in ready PROVE reread[p] = files[p]
  <2>1. events[p].path = p /\ p \in Path
    BY <1>1 DEF EventsOK, IsEvent, Waiting
  <2>2. p \in Named({events[q] : q \in ready})
    BY <2>1 DEF Named
  <2> QED BY <1>0, <2>1, <2>2
<1>5. ASSUME NEW p \in Path \ away, p \notin ready PROVE reread[p] = view[p]
  <2>1. ASSUME NEW q \in ready PROVE events[q].path # p /\ events[q].from # p
    <3>1. q \in Path /\ events[q] # None
      BY DEF Waiting
    <3>2. events[q].path = q /\ events[q].from \in away \union {None}
      BY <3>1 DEF EventsOK, IsEvent, StreamInv, FromAway
    <3> QED BY <1>5, <3>2, NoneAssumption
  <2>2. p \notin Named({events[q] : q \in ready})
    BY <2>1 DEF Named
  <2> QED BY <1>0, <2>2
<1>6. IsTrue(rest, files) /\ FromAway(rest, away)
  BY <1>1 DEF StreamInv, IsTrue, FromAway
<1>7. CreatedIsNew(rest, full, away, reread)
  BY <1>1, <1>5 DEF StreamInv, CreatedIsNew
<1>8. IsReported(rest, full, files, away, reread)
  BY <1>1, <1>4 DEF StreamInv, IsReported
<1> QED BY <1>2, <1>3, <1>6, <1>7, <1>8 DEF StreamInv, rest, reread

-----------------------------------------------------------------------------
(* The invariant                                                           *)

IInv ==
    /\ disk \in Files /\ found \in Files /\ previous \in Files /\ known \in Files
    /\ pc \in {"sleeping", "scanning", "flushing", "done", "failed"}
    /\ toVisit \subseteq Path /\ renamedAway \subseteq Path
    /\ dropped \in BOOLEAN
    /\ edits \in 0..MaxEdits /\ polls \in 0..MaxPolls
    /\ pc \in {"sleeping", "scanning"} => polls < MaxPolls
    /\ EventsOK(pending, polls)
    /\ StreamInv(pending, dropped, previous, renamedAway, known)
    /\ pc = "done" => \A p \in Path : pending[p] = None

LEMMA InitInv == Init => IInv
<1> SUFFICES ASSUME Init PROVE IInv
  OBVIOUS
<1>1. NoFiles \in Files /\ \A p \in Path : NoFiles[p] = None
  BY DEF NoFiles, Files
<1>2. EventsOK(pending, polls)
  BY <1>1 DEF Init, EventsOK, NoFiles
<1>3. StreamInv(pending, dropped, previous, renamedAway, known)
  BY <1>1 DEF Init, StreamInv, IsTrue, FromAway, CreatedIsNew, IsReported
<1>4. edits \in 0..MaxEdits /\ polls \in 0..MaxPolls /\ polls < MaxPolls
  BY WatcherAssumption DEF Init
<1> QED BY <1>1, <1>2, <1>3, <1>4 DEF Init, IInv

LEMMA EditInv ==
  ASSUME IInv, \/ \E p \in Path, f \in Content \union {None} : Write(p, f)
               \/ \E p, q \in Path : Move(p, q)
  PROVE  IInv'
<1>1. disk' \in Files
  BY DEF IInv, Write, Move, Files
<1>2. /\ Edit
      /\ UNCHANGED <<pc, toVisit, found, previous, pending, dropped, known, renamedAway, polls>>
  BY DEF Write, Move, Edit, scanVars, streamVars
<1>3. edits' \in 0..MaxEdits
  BY <1>2, WatcherAssumption DEF Edit, IInv
<1> QED BY <1>1, <1>2, <1>3 DEF IInv

LEMMA ScanInv ==
  ASSUME IInv, StartScan \/ Visit \/ ScanFails
  PROVE  IInv'
<1>1. UNCHANGED <<disk, previous, pending, dropped, known, renamedAway, edits, polls>>
  BY DEF StartScan, Visit, ScanFails, scanVars, streamVars
<1>2. found' \in Files /\ toVisit' \subseteq Path
  BY DEF IInv, StartScan, Visit, ScanFails, NoFiles, Files, scanVars
<1>3. /\ pc' \in {"scanning", "failed"}
      /\ pc' = "scanning" => pc \in {"sleeping", "scanning"}
  BY DEF StartScan, Visit, ScanFails
<1> QED BY <1>1, <1>2, <1>3 DEF IInv

LEMMA PollInv ==
  ASSUME IInv, Poll
  PROVE  IInv'
<1> DEFINE older == [p \in Path |-> IF pending[p] = None THEN None
                                    ELSE [pending[p] EXCEPT !.age = @ + 1]]
           stream == PushRawBatch([pending |-> older, dropped |-> dropped], DiffSnapshots(previous, found))
<1>1. PICK window \in 0..(MaxPolls + 1) :
         LET ready == {p \in Waiting(stream.pending) : stream.pending[p].age >= window}
         IN  /\ pending' = [p \in Path |-> IF p \in ready THEN None ELSE stream.pending[p]]
             /\ known' = Reread({stream.pending[p] : p \in ready}, found)
             /\ dropped' = stream.dropped
             /\ renamedAway' = renamedAway \union {pair[1] : pair \in RenamedPairs(previous, found)}
  BY DEF Poll
<1> DEFINE ready == {p \in Waiting(stream.pending) : stream.pending[p].age >= window}
<1>2. polls < MaxPolls /\ polls' = polls + 1 /\ polls \in Nat /\ polls + 1 \in 0..MaxPolls /\ polls + 1 \in Nat
  BY WatcherAssumption DEF Poll, IInv
<1>3. \A p \in Path : /\ (older[p] = None) = (pending[p] = None)
                      /\ pending[p] # None => /\ older[p].kind = pending[p].kind
                                              /\ older[p].from = pending[p].from
                                              /\ IsEvent(older[p], p, polls + 1)
  <2> SUFFICES ASSUME NEW p \in Path, pending[p] # None
               PROVE  /\ older[p] # None /\ older[p].kind = pending[p].kind
                      /\ older[p].from = pending[p].from
                      /\ IsEvent(older[p], p, polls + 1)
    OBVIOUS
  <2> DEFINE e == pending[p]
  <2>1. IsEvent(e, p, polls)
    BY DEF IInv, EventsOK
  <2>2. /\ e.path = p /\ e.kind \in Kind /\ e.from \in Path \union {None} /\ e.age \in Nat /\ e.age <= polls
        /\ e = [path |-> e.path, kind |-> e.kind, from |-> e.from, age |-> e.age]
        /\ (e.kind = "renamed") = (e.from # None)
    BY <2>1, EventFields DEF IsEvent
  <2>3. older[p] = [e EXCEPT !.age = @ + 1]
    OBVIOUS
  <2> HIDE DEF e, older
  <2>4. older[p] = [path |-> p, kind |-> e.kind, from |-> e.from, age |-> e.age + 1]
    BY <2>2, <2>3
  <2>5. older[p] \in Event
    BY <1>2, <2>2, <2>4, WatcherAssumption DEF Event
  <2>6. e.age + 1 <= polls + 1
    BY <1>2, <2>2
  <2> QED BY <2>2, <2>4, <2>5, <2>6, NoneAssumption DEF IsEvent, e
<1>4. EventsOK(older, polls + 1)
  BY <1>3 DEF EventsOK, IsEvent
<1>5. StreamInv(older, dropped, previous, renamedAway, known)
  BY <1>3 DEF IInv, StreamInv, IsTrue, FromAway, CreatedIsNew, IsReported
<1> HIDE DEF older
<1> DEFINE away == renamedAway \union Sources(previous, found)
<1>6. /\ EventsOK(stream.pending, polls + 1) /\ stream.dropped \in BOOLEAN
      /\ StreamInv(stream.pending, stream.dropped, found, away, known)
  BY <1>2, <1>4, <1>5, BatchKeeps DEF IInv
<1> HIDE DEF stream
<1>7. /\ ready \in SUBSET Waiting(stream.pending)
      /\ renamedAway' = away /\ dropped' = stream.dropped
      /\ pending' = [p \in Path |-> IF p \in ready THEN None ELSE stream.pending[p]]
      /\ known' = [p \in Path |-> IF p \in Named({stream.pending[q] : q \in ready}) THEN found[p] ELSE known[p]]
  BY <1>1 DEF Sources, Reread
<1> HIDE DEF ready
<1>8. EventsOK(pending', polls') /\ StreamInv(pending', dropped', found, away, known') /\ known' \in Files
  <2> HIDE DEF away
  <2> DEFINE events == stream.pending
             full == stream.dropped
  <2>1. polls' \in Nat /\ found \in Files /\ known \in Files
    BY <1>2 DEF IInv
  <2>2. EventsOK(events, polls') /\ StreamInv(events, full, found, away, known)
    BY <1>2, <1>6
  <2>3. /\ ready \in SUBSET Waiting(events)
        /\ pending' = Drained(events, ready) /\ known' = Seen(events, ready, found, known)
    BY <1>7 DEF Drained, Seen
  <2> HIDE DEF events, full
  <2>4. EventsOK(Drained(events, ready), polls') /\ Seen(events, ready, found, known) \in Files
    BY <2>1, <2>2, <2>3, DrainKeeps
  <2>5. StreamInv(Drained(events, ready), full, found, away, Seen(events, ready, found, known))
    BY <2>1, <2>2, <2>3, DrainKeeps
  <2> QED BY <1>7, <2>3, <2>4, <2>5 DEF full
<1>9. renamedAway' \subseteq Path
  BY <1>7, PairIs DEF IInv, Sources
<1>10. /\ previous' = found /\ found' = NoFiles /\ UNCHANGED <<disk, toVisit, edits>>
       /\ pc' \in {"sleeping", "flushing"} /\ (pc' = "sleeping" => polls' < MaxPolls)
  BY DEF Poll
<1>11. NoFiles \in Files
  BY DEF NoFiles, Files
<1> QED BY <1>2, <1>6, <1>7, <1>8, <1>9, <1>10, <1>11 DEF IInv

LEMMA FlushInv ==
  ASSUME IInv, Flush
  PROVE  IInv'
<1> DEFINE ready == Waiting(pending)
<1>1. /\ known' = Seen(pending, ready, previous, known) /\ pending' = Drained(pending, ready)
      /\ \A p \in Path : pending'[p] = None
  BY DEF Flush, Reread, NoFiles, Waiting, Drained, Seen
<1>2. polls \in Nat
  BY WatcherAssumption DEF IInv
<1>3. /\ EventsOK(pending', polls) /\ known' \in Files
      /\ StreamInv(pending', dropped, previous, renamedAway, known')
  <2> HIDE DEF ready
  <2>1. ready \in SUBSET Waiting(pending)
    BY DEF ready
  <2>2. /\ previous \in Files /\ known \in Files
        /\ EventsOK(pending, polls) /\ StreamInv(pending, dropped, previous, renamedAway, known)
    BY DEF IInv
  <2>3. /\ EventsOK(Drained(pending, ready), polls) /\ Seen(pending, ready, previous, known) \in Files
        /\ StreamInv(Drained(pending, ready), dropped, previous, renamedAway, Seen(pending, ready, previous, known))
    BY <1>2, <2>1, <2>2, DrainKeeps
  <2> QED BY <1>1, <2>3
<1>4. pc' = "done" /\ UNCHANGED <<disk, toVisit, found, previous, dropped, renamedAway, edits, polls>>
  BY DEF Flush, scanVars
<1> QED BY <1>1, <1>3, <1>4 DEF IInv

\* Whatever happens, the pending events and what is known of the files keep up
\* with the last scan.
LEMMA InvAlways == Spec => []IInv
<1>1. ASSUME IInv, [Next]_vars PROVE IInv'
  <2>1. CASE UNCHANGED vars
    BY <1>1, <2>1 DEF vars, scanVars, streamVars, IInv
  <2>2. CASE Next
    BY <1>1, <2>2, EditInv, ScanInv, PollInv, FlushInv DEF Next
  <2> QED BY <1>1, <2>1, <2>2
<1> QED BY InitInv, <1>1, PTL DEF Spec

-----------------------------------------------------------------------------
(* What follows                                                            *)

\* Type correctness.
THEOREM TypeCorrect == Spec => []TypeOK
<1>1. IInv => TypeOK
  BY DEF IInv, TypeOK, EventsOK, IsEvent
<1> QED BY <1>1, InvAlways, PTL

\* However push_raw_event has merged the events of a path, and whatever a full
\* stream has dropped, a pending event tells truly whether the file is there.
THEOREM PendingStaysTrue == Spec => []PendingIsTrue
<1>1. IInv => PendingIsTrue
  BY DEF IInv, StreamInv, IsTrue, PendingIsTrue, Waiting
<1> QED BY <1>1, InvAlways, PTL

\* watch_once reports every difference between the first scan and the last, but
\* for dropped events and paths that a rename has left.
THEOREM EveryChangeIsReported == Spec => []FilesReported
<1>1. IInv => FilesReported
  BY DEF IInv, StreamInv, IsReported, FilesReported
<1> QED BY <1>1, InvAlways, PTL
=============================================================================
