---------------------------- MODULE KeyCacheProofs ----------------------------
(***************************************************************************)
(* Theorems about the cache of an identity provider's keys, for every set   *)
(* of keys and requests and every time to live, cooldown and timeout.       *)
(***************************************************************************)
EXTENDS KeyCache, FiniteSetTheorems, TLAPS

-----------------------------------------------------------------------------
(* Types.                                                                  *)

Stages == Over \cup Fetching \cup {"waiting"}
Lookup == [kid : Kids \cup {NoKid}, doc : SUBSET Kids, time : 0..FetchTime, at : Stages]
Entry == [age : 0..MaxAge, forced : 0..MaxAge, keys : SUBSET Kids]

Typed ==
    /\ published \in (SUBSET Kids) \ {{}} /\ since \in [Kids -> 0..MaxAge]
    /\ cached \in Entry /\ look \in [Requests -> Lookup]

\* The guard of the lock is held by one lookup at a time.
OneFetch ==
    \A q, r \in Requests : look[q].at \in Fetching /\ look[r].at \in Fetching => q = r

LEMMA Ticks ==
    /\ Ttl \in Nat /\ Ttl > 0 /\ MinRefetch \in Nat /\ MinRefetch > 0
    /\ FetchTime \in Nat /\ FetchTime > 0 /\ MaxAge \in Nat
    /\ MaxAge >= Ttl + FetchTime /\ MaxAge >= MinRefetch + FetchTime
BY KeyCacheAssumption

LEMMA NoneEntry == None \in Entry /\ None.keys = {} /\ None.age = MaxAge /\ None.forced = MaxAge
BY Ticks DEF None, Entry

\* A lookup that starts, that ends, or that is told to fetch once more.
LEMMA NewLookup ==
    ASSUME NEW kid, NEW at
    PROVE  [NoLook EXCEPT !.kid = kid, !.at = at]
              = [kid |-> kid, at |-> at, doc |-> {}, time |-> 0]
<1> DEFINE named == [NoLook EXCEPT !.kid = kid]
<1>1. named = [kid |-> kid, at |-> "none", doc |-> {}, time |-> 0]
  BY DEF NoLook
<1>2. [NoLook EXCEPT !.kid = kid, !.at = at] = [named EXCEPT !.at = at]
  OBVIOUS
<1> HIDE DEF named
<1> QED
  BY <1>1, <1>2

LEMMA EndLookup ==
    ASSUME NEW at
    PROVE  [NoLook EXCEPT !.at = at] = [kid |-> NoKid, at |-> at, doc |-> {}, time |-> 0]
BY DEF NoLook

-----------------------------------------------------------------------------
(* What is known of an entry and of a document, however late they are.     *)

\* A lookup that is not fetching has no document and counts no time.
Idle ==
    \A r \in Requests :
        look[r].at \notin Fetching => look[r].doc = {} /\ look[r].time = 0

\* A set of keys that is at most n ticks old: what it has and the provider
\* has not, or the other way round, changed since.
Differs(set, n) ==
    \A k \in Kids : ~(k \in set <=> k \in published) => since[k] <= n

\* A document is no older than the fetch it answers.
Fresh == \A r \in Requests : look[r].doc # {} => Differs(look[r].doc, look[r].time)

\* The entry is of a document that was on its way for a fetch at most, and a
\* fetch was forced with the entry or not at all.
Timely ==
    /\ Differs(cached.keys, cached.age + FetchTime)
    /\ cached.forced \in {cached.age, MaxAge}

KeyInv == Typed /\ OneFetch /\ Idle /\ Fresh /\ Timely

-----------------------------------------------------------------------------
(* The lookup of one request changes.                                      *)

LEMMA Becomes ==
    ASSUME look \in [Requests -> Lookup], NEW r \in Requests, NEW l \in Lookup,
           look' = [look EXCEPT ![r] = l]
    PROVE  /\ look' \in [Requests -> Lookup] /\ look'[r] = l
           /\ \A q \in Requests : q # r => look'[q] = look[q]
OBVIOUS

\* A lookup that starts over, ends, or comes back for a document: where it
\* fetches, it had the lock or the lock was free.
LEMMA StartsOver ==
    ASSUME OneFetch, Idle, Fresh, UNCHANGED <<published, since>>,
           NEW r \in Requests,
           \A q \in Requests : q # r => look'[q] = look[q],
           look'[r].doc = {}, look'[r].time = 0,
           look'[r].at \in Fetching => look[r].at \in Fetching \/ ~Locked
    PROVE  OneFetch' /\ Idle' /\ Fresh'
<1>1. OneFetch'
  BY DEF OneFetch, Locked
<1>2. Idle'
  BY DEF Idle
<1>3. Fresh'
  BY DEF Fresh, Differs
<1> QED
  BY <1>1, <1>2, <1>3

LEMMA NewRecord ==
    ASSUME NEW kid \in Kids \cup {NoKid}, NEW at \in Stages
    PROVE  /\ [kid |-> kid, at |-> at, doc |-> {}, time |-> 0] \in Lookup
           /\ [kid |-> kid, at |-> at, doc |-> {}, time |-> 0].at = at
           /\ [kid |-> kid, at |-> at, doc |-> {}, time |-> 0].kid = kid
           /\ [kid |-> kid, at |-> at, doc |-> {}, time |-> 0].doc = {}
           /\ [kid |-> kid, at |-> at, doc |-> {}, time |-> 0].time = 0
BY Ticks DEF Lookup

\* The lookup ends with an answer.
LEMMA Answered ==
    ASSUME look \in [Requests -> Lookup], NEW r \in Requests, NEW at \in Over,
           Answer(r, at)
    PROVE  /\ look' \in [Requests -> Lookup]
           /\ \A q \in Requests : q # r => look'[q] = look[q]
           /\ look'[r].at = at /\ look'[r].doc = {} /\ look'[r].time = 0
<1> DEFINE l == [kid |-> NoKid, at |-> at, doc |-> {}, time |-> 0]
<1>1. l \in Lookup /\ l.at = at /\ l.doc = {} /\ l.time = 0
  BY NewRecord DEF Stages
<1>2. look' = [look EXCEPT ![r] = l]
  BY EndLookup DEF Answer
<1> HIDE DEF l
<1> QED
  BY <1>1, <1>2, Becomes

\* The lookup starts, or starts the second fetch.
LEMMA Begun ==
    ASSUME look \in [Requests -> Lookup], NEW r \in Requests,
           NEW kid \in Kids \cup {NoKid}, NEW at \in Stages,
           look' = [look EXCEPT ![r] = [NoLook EXCEPT !.kid = kid, !.at = at]]
    PROVE  /\ look' \in [Requests -> Lookup]
           /\ \A q \in Requests : q # r => look'[q] = look[q]
           /\ look'[r].at = at /\ look'[r].doc = {} /\ look'[r].time = 0
<1> DEFINE l == [kid |-> kid, at |-> at, doc |-> {}, time |-> 0]
<1>1. l \in Lookup /\ l.at = at /\ l.doc = {} /\ l.time = 0
  BY NewRecord
<1>2. look' = [look EXCEPT ![r] = l]
  BY NewLookup
<1> HIDE DEF l
<1> QED
  BY <1>1, <1>2, Becomes

\* What select_key finds, or the second fetch where the cooldown is over.
LEMMA Selected ==
    ASSUME look \in [Requests -> Lookup], NEW r \in Requests,
           NEW set, NEW forced, Select(r, set, forced)
    PROVE  /\ look' \in [Requests -> Lookup]
           /\ \A q \in Requests : q # r => look'[q] = look[q]
           /\ look'[r].at \in {"found", "unknown", "forcing"}
           /\ look'[r].doc = {} /\ look'[r].time = 0
           /\ look'[r].at = "unknown" =>
                 Selects(set, look[r].kid) = {} /\ ~(forced >= MinRefetch)
<1>1. CASE Selects(set, look[r].kid) # {}
  <2>1. Answer(r, "found")
    BY <1>1 DEF Select
  <2> QED
    BY <2>1, Answered DEF Over
<1>2. CASE Selects(set, look[r].kid) = {} /\ forced >= MinRefetch
  <2>1. look' = [look EXCEPT ![r] = [NoLook EXCEPT !.kid = look[r].kid, !.at = "forcing"]]
    BY <1>2 DEF Select
  <2>2. look[r].kid \in Kids \cup {NoKid} /\ "forcing" \in Stages
    BY DEF Lookup, Stages, Fetching
  <2>3. /\ look' \in [Requests -> Lookup]
        /\ \A q \in Requests : q # r => look'[q] = look[q]
        /\ look'[r].at = "forcing" /\ look'[r].doc = {} /\ look'[r].time = 0
    BY <2>1, <2>2, Begun
  <2> QED
    BY <2>3
<1>3. CASE Selects(set, look[r].kid) = {} /\ ~(forced >= MinRefetch)
  <2>1. Answer(r, "unknown")
    BY <1>3 DEF Select
  <2> QED
    BY <2>1, <1>3, Answered DEF Over
<1> QED
  BY <1>1, <1>2, <1>3

-----------------------------------------------------------------------------
(* Every step keeps the invariant.                                         *)

LEMMA KeysStarts == KeysStart => KeyInv
<1> SUFFICES ASSUME KeysStart PROVE KeyInv
  OBVIOUS
<1>1. \A r \in Requests : look[r] = [kid |-> NoKid, at |-> "none", doc |-> {}, time |-> 0]
  BY DEF KeysStart, KeysInit, NoLook
<1>2. look \in [Requests -> Lookup]
  <2>1. [kid |-> NoKid, at |-> "none", doc |-> {}, time |-> 0] \in Lookup
    BY NewRecord DEF Stages, Over
  <2> QED
    BY <2>1 DEF KeysStart, KeysInit, NoLook
<1>3. \A r \in Requests : look[r].at \notin Fetching /\ look[r].doc = {} /\ look[r].time = 0
  BY <1>1 DEF Fetching
<1>4. Typed
  <2>1. published \in (SUBSET Kids) \ {{}} /\ cached \in Entry
    BY NoneEntry DEF KeysStart, KeysInit
  <2>2. MaxAge \in 0..MaxAge
    BY Ticks
  <2>3. since \in [Kids -> 0..MaxAge]
    BY <2>2 DEF KeysStart, KeysInit
  <2> QED
    BY <2>1, <2>3, <1>2 DEF Typed
<1>5. OneFetch /\ Idle /\ Fresh
  BY <1>3 DEF OneFetch, Idle, Fresh
<1>6. Timely
  <2>1. cached.age = MaxAge /\ cached.forced = MaxAge
    BY NoneEntry DEF KeysStart, KeysInit
  <2>2. \A k \in Kids : since[k] = MaxAge
    BY DEF KeysStart, KeysInit
  <2> QED
    BY <2>1, <2>2, Ticks DEF Timely, Differs
<1> QED
  BY <1>4, <1>5, <1>6 DEF KeyInv

LEMMA AskKeeps ==
    ASSUME KeyInv, NEW r \in Requests, NEW kid \in Kids \cup {NoKid}, Ask(r, kid)
    PROVE  KeyInv'
<1>1. "waiting" \in Stages /\ "waiting" \notin Fetching
  BY DEF Stages, Fetching
<1>2. /\ look' \in [Requests -> Lookup]
      /\ \A q \in Requests : q # r => look'[q] = look[q]
      /\ look'[r].at = "waiting" /\ look'[r].doc = {} /\ look'[r].time = 0
  BY <1>1, Begun DEF KeyInv, Typed, Ask
<1>3. OneFetch' /\ Idle' /\ Fresh'
  BY <1>1, <1>2, StartsOver DEF KeyInv, Ask
<1> QED
  BY <1>2, <1>3 DEF KeyInv, Typed, Timely, Differs, Ask

LEMMA LockKeeps ==
    ASSUME KeyInv, NEW r \in Requests, Lock(r)
    PROVE  KeyInv'
<1>1. look \in [Requests -> Lookup] /\ look[r].at = "waiting" /\ ~Locked
  BY DEF KeyInv, Typed, Lock, Looks
<1>2. /\ look' \in [Requests -> Lookup]
      /\ \A q \in Requests : q # r => look'[q] = look[q]
      /\ look'[r].doc = {} /\ look'[r].time = 0
  <2>1. CASE cached.age < Ttl
    <3>1. Select(r, cached.keys, cached.forced)
      BY <2>1 DEF Lock
    <3> QED
      BY <3>1, <1>1, Selected
  <2>2. CASE ~(cached.age < Ttl)
    <3>1. look' = [look EXCEPT ![r].at = "fetching"]
      BY <2>2 DEF Lock, To
    <3>2. look[r].doc = {} /\ look[r].time = 0
      BY <1>1 DEF KeyInv, Idle, Fetching
    <3>3. [look[r] EXCEPT !.at = "fetching"] \in Lookup
      BY <1>1 DEF Lookup, Stages, Fetching
    <3>4. [look[r] EXCEPT !.at = "fetching"].doc = {} /\ [look[r] EXCEPT !.at = "fetching"].time = 0
      BY <1>1, <3>2 DEF Lookup
    <3> DEFINE l == [look[r] EXCEPT !.at = "fetching"]
    <3>5. look' = [look EXCEPT ![r] = l]
      BY <3>1
    <3> HIDE DEF l
    <3>6. l \in Lookup /\ l.doc = {} /\ l.time = 0
      BY <3>3, <3>4 DEF l
    <3> QED
      BY <1>1, <3>5, <3>6, Becomes
  <2> QED
    BY <2>1, <2>2
<1>3. OneFetch' /\ Idle' /\ Fresh'
  BY <1>1, <1>2, StartsOver DEF KeyInv, Lock
<1> QED
  BY <1>2, <1>3 DEF KeyInv, Typed, Timely, Differs, Lock

LEMMA ServeKeeps ==
    ASSUME KeyInv, NEW r \in Requests, Serve(r)
    PROVE  KeyInv'
<1>1. /\ look \in [Requests -> Lookup] /\ look[r] \in Lookup
      /\ look[r].at \in Fetching /\ published \in SUBSET Kids
  BY DEF KeyInv, Typed, Serve
<1> DEFINE l == [look[r] EXCEPT !.doc = published]
<1>2. /\ l \in Lookup /\ l.doc = published /\ l.time = look[r].time /\ l.at = look[r].at
  BY <1>1 DEF Lookup
<1>3. look' = [look EXCEPT ![r] = l]
  BY DEF Serve
<1> HIDE DEF l
<1>4. /\ look' \in [Requests -> Lookup] /\ look'[r] = l
      /\ \A q \in Requests : q # r => look'[q] = look[q]
  BY <1>1, <1>2, <1>3, Becomes
<1>5. UNCHANGED <<published, since, cached>>
  BY DEF Serve
<1>6. OneFetch'
  BY <1>2, <1>4 DEF KeyInv, OneFetch
<1>7. Idle'
  BY <1>1, <1>2, <1>4 DEF KeyInv, Idle
<1>8. Fresh'
  BY <1>2, <1>4, <1>5 DEF KeyInv, Fresh, Differs
<1> QED
  BY <1>4, <1>5, <1>6, <1>7, <1>8 DEF KeyInv, Typed, Timely, Differs

\* The two ways a document enters the entry.
LEMMA RefreshKeeps ==
    ASSUME KeyInv, NEW r \in Requests, look[r].at \in Fetching, look[r].doc # {},
           NEW forced \in {0, MaxAge},
           cached' = [age |-> 0, forced |-> forced, keys |-> look[r].doc],
           Select(r, look[r].doc, forced), UNCHANGED <<published, since>>
    PROVE  KeyInv'
<1>1. look \in [Requests -> Lookup] /\ look[r] \in Lookup
  BY DEF KeyInv, Typed
<1>2. /\ look' \in [Requests -> Lookup]
      /\ \A q \in Requests : q # r => look'[q] = look[q]
      /\ look'[r].doc = {} /\ look'[r].time = 0
  BY <1>1, Selected
<1>3. OneFetch' /\ Idle' /\ Fresh'
  BY <1>2, StartsOver DEF KeyInv
<1>4. cached' \in Entry
  BY <1>1, Ticks DEF Entry, Lookup
<1>5. cached'.age = 0 /\ cached'.forced = forced /\ cached'.keys = look[r].doc
  OBVIOUS
<1>6. look[r].time \in Nat /\ look[r].time <= FetchTime /\ since \in [Kids -> 0..MaxAge]
  BY <1>1, Ticks DEF Lookup, KeyInv, Typed
<1>7. Differs(look[r].doc, FetchTime)
  BY <1>6, Ticks DEF KeyInv, Fresh, Differs
<1>8. Timely'
  BY <1>5, <1>7, Ticks DEF Timely, Differs
<1> QED
  BY <1>2, <1>3, <1>4, <1>8 DEF KeyInv, Typed

LEMMA EndKeeps ==
    ASSUME KeyInv, NEW r \in Requests, Answer(r, "none"),
           UNCHANGED <<published, since, cached>>
    PROVE  KeyInv'
<1>1. "none" \in Over /\ "none" \notin Fetching
  BY DEF Over, Fetching
<1>2. /\ look' \in [Requests -> Lookup]
      /\ \A q \in Requests : q # r => look'[q] = look[q]
      /\ look'[r].at = "none" /\ look'[r].doc = {} /\ look'[r].time = 0
  BY <1>1, Answered DEF KeyInv, Typed
<1>3. OneFetch' /\ Idle' /\ Fresh'
  BY <1>1, <1>2, StartsOver DEF KeyInv
<1> QED
  BY <1>2, <1>3 DEF KeyInv, Typed, Timely, Differs

LEMMA PublishKeeps ==
    ASSUME KeyInv, NEW set \in (SUBSET Kids) \ {{}}, Publish(set)
    PROVE  KeyInv'
<1>1. published' = set /\ UNCHANGED <<cached, look>>
  BY DEF Publish
<1>2. \A k \in Kids : since'[k] = IF k \in set <=> k \in published THEN since[k] ELSE 0
  BY DEF Publish
<1>3. since' \in [Kids -> 0..MaxAge]
  BY Ticks DEF KeyInv, Typed, Publish
<1>4. ASSUME NEW keep, NEW n \in Nat, Differs(keep, n)
      PROVE  Differs(keep, n)'
  BY <1>1, <1>2, <1>4 DEF Differs
<1>5. Fresh'
  <2> SUFFICES ASSUME NEW r \in Requests, look[r].doc # {}
               PROVE  Differs(look[r].doc, look[r].time)'
    BY <1>1 DEF Fresh
  <2>1. look[r].time \in Nat
    BY Ticks DEF KeyInv, Typed, Lookup
  <2>2. Differs(look[r].doc, look[r].time)
    BY DEF KeyInv, Fresh
  <2> QED
    BY <2>1, <2>2, <1>1, <1>2 DEF Differs
<1>6. Timely'
  <2>1. cached.age + FetchTime \in Nat
    BY Ticks DEF KeyInv, Typed, Entry
  <2> QED
    BY <2>1, <1>1, <1>2 DEF KeyInv, Timely, Differs
<1> QED
  BY <1>1, <1>3, <1>5, <1>6 DEF KeyInv, Typed, OneFetch, Idle

LEMMA AgesOn ==
    ASSUME NEW n \in 0..MaxAge
    PROVE  /\ Older(n) \in 0..MaxAge /\ n <= Older(n) /\ Older(n) <= n + 1
           /\ Older(n) = MaxAge \/ Older(n) = n + 1
BY Ticks DEF Older

LEMMA TickKeeps ==
    ASSUME KeyInv, KeysTick
    PROVE  KeyInv'
<1>1. /\ published' = published
      /\ \A k \in Kids : since[k] \in 0..MaxAge /\ since'[k] = Older(since[k])
      /\ since' \in [Kids -> 0..MaxAge]
  BY AgesOn DEF KeyInv, Typed, KeysTick
<1>2. cached \in Entry /\ cached.age \in 0..MaxAge /\ cached.forced \in 0..MaxAge
  BY DEF KeyInv, Typed, Entry
<1>3. /\ cached' \in Entry /\ cached'.age = Older(cached.age)
      /\ cached'.forced = Older(cached.forced) /\ cached'.keys = cached.keys
  <2>1. CASE cached = None
    <3>1. Older(MaxAge) = MaxAge /\ cached' = cached
      BY <2>1, Ticks DEF Older, KeysTick
    <3> QED
      BY <2>1, <3>1, <1>2, NoneEntry
  <2>2. CASE cached # None
    <3> DEFINE age == Older(cached.age)
               forced == Older(cached.forced)
               aged == [cached EXCEPT !.age = age]
    <3>1. age \in 0..MaxAge /\ forced \in 0..MaxAge
      BY <1>2, AgesOn
    <3>2. cached' = [aged EXCEPT !.forced = forced]
      <4>1. cached' = [cached EXCEPT !.age = Older(@), !.forced = Older(@)]
        BY <2>2 DEF KeysTick
      <4>2. [cached EXCEPT !.age = Older(@), !.forced = Older(@)]
               = [aged EXCEPT !.forced = Older(@)]
        OBVIOUS
      <4>3. aged.forced = cached.forced
        BY <1>2 DEF Entry
      <4> HIDE DEF aged
      <4>4. [aged EXCEPT !.forced = Older(@)] = [aged EXCEPT !.forced = forced]
        BY <4>3
      <4> QED
        BY <4>1, <4>2, <4>4
    <3> HIDE DEF age, forced
    <3>3. /\ aged \in Entry /\ aged.age = age /\ aged.keys = cached.keys
      BY <1>2, <3>1 DEF Entry
    <3> HIDE DEF aged
    <3>4. /\ cached' \in Entry /\ cached'.age = age /\ cached'.forced = forced
          /\ cached'.keys = cached.keys
      BY <3>1, <3>2, <3>3 DEF Entry
    <3> QED
      BY <3>4 DEF age, forced
  <2> QED
    BY <2>1, <2>2
<1>4. ASSUME NEW r \in Requests
      PROVE  /\ look[r] \in Lookup /\ look'[r] \in Lookup
             /\ look'[r].at = look[r].at /\ look'[r].doc = look[r].doc
             /\ look[r].at \notin Fetching => look'[r].time = look[r].time
             /\ look[r].at \in Fetching => look'[r].time = look[r].time + 1
  <2>1. look[r] \in Lookup
    BY DEF KeyInv, Typed
  <2>2. look'[r] = IF look[r].at \in Fetching
                   THEN [look[r] EXCEPT !.time = @ + 1] ELSE look[r]
    BY DEF KeysTick
  <2>3. CASE look[r].at \notin Fetching
    BY <2>1, <2>2, <2>3
  <2>4. CASE look[r].at \in Fetching
    <3>1. look[r].time + 1 \in 0..FetchTime
      BY <2>1, <2>4, Ticks DEF Lookup, KeysTick
    <3> DEFINE l == [look[r] EXCEPT !.time = @ + 1]
    <3>2. /\ l \in Lookup /\ l.time = look[r].time + 1
          /\ l.at = look[r].at /\ l.doc = look[r].doc
      BY <2>1, <3>1 DEF Lookup
    <3>3. look'[r] = l
      BY <2>2, <2>4
    <3> HIDE DEF l
    <3> QED
      BY <2>1, <2>4, <3>2, <3>3
  <2> QED
    BY <2>3, <2>4
<1>5. Typed'
  <2>1. look' \in [Requests -> Lookup]
    <3>1. look' = [r \in Requests |-> look'[r]]
      BY DEF KeysTick
    <3> QED
      BY <1>4, <3>1
  <2> QED
    BY <2>1, <1>1, <1>3 DEF KeyInv, Typed
<1>6. OneFetch'
  BY <1>4 DEF KeyInv, OneFetch
<1>7. Idle'
  BY <1>4 DEF KeyInv, Idle
<1>8. Fresh'
  <2> SUFFICES ASSUME NEW r \in Requests, look'[r].doc # {},
                      NEW k \in Kids, ~(k \in look'[r].doc <=> k \in published')
               PROVE  since'[k] <= look'[r].time
    BY DEF Fresh, Differs
  <2>1. look[r].at \in Fetching /\ since[k] <= look[r].time
    BY <1>1, <1>4 DEF KeyInv, Idle, Fresh, Differs
  <2>2. look[r].time \in Nat /\ look'[r].time = look[r].time + 1
    BY <2>1, <1>4, Ticks DEF Lookup
  <2>3. since[k] \in Nat /\ since'[k] \in Nat /\ since'[k] <= since[k] + 1
    BY <1>1, AgesOn, Ticks
  <2> QED
    BY <2>1, <2>2, <2>3
<1>9. Timely'
  <2>1. cached'.forced \in {cached'.age, MaxAge}
    <3>1. Older(MaxAge) = MaxAge
      BY Ticks DEF Older
    <3> QED
      BY <3>1, <1>3 DEF KeyInv, Timely
  <2>2. Differs(cached.keys, cached.age + FetchTime)'
    <3> SUFFICES ASSUME NEW k \in Kids, ~(k \in cached'.keys <=> k \in published')
                 PROVE  since'[k] <= cached'.age + FetchTime
      BY DEF Differs
    <3>1. since[k] <= cached.age + FetchTime
      BY <1>1, <1>3 DEF KeyInv, Timely, Differs
    <3>2. /\ since[k] \in Nat /\ since'[k] \in Nat
          /\ since'[k] <= since[k] + 1 /\ since'[k] <= MaxAge
      BY <1>1, AgesOn, Ticks
    <3>3. /\ cached.age \in Nat /\ cached'.age \in Nat
          /\ cached'.age = MaxAge \/ cached'.age = cached.age + 1
      BY <1>2, <1>3, AgesOn, Ticks
    <3> QED
      BY <3>1, <3>2, <3>3, Ticks
  <2> QED
    BY <2>1, <2>2 DEF Timely
<1> QED
  BY <1>5, <1>6, <1>7, <1>8, <1>9 DEF KeyInv

LEMMA KeysSteps == KeyInv /\ [KeysStep]_<<server, keys>> => KeyInv'
<1> SUFFICES ASSUME KeyInv, [KeysStep]_<<server, keys>> PROVE KeyInv'
  OBVIOUS
<1>1. ASSUME UNCHANGED keys PROVE KeyInv'
  BY <1>1 DEF keys, KeyInv, Typed, OneFetch, Idle, Fresh, Timely, Differs
<1>2. CASE UNCHANGED <<server, keys>>
  BY <1>1, <1>2
<1>3. CASE Arrives /\ UNCHANGED keys
  BY <1>1, <1>3
<1>4. CASE \E r \in Requests, kid \in Kids \cup {NoKid} : Ask(r, kid)
  BY <1>4, AskKeeps
<1>5. CASE \E r \in Requests : Lock(r)
  BY <1>5, LockKeeps
<1>6. CASE \E r \in Requests : Serve(r)
  BY <1>6, ServeKeeps
<1>7. ASSUME NEW r \in Requests, Refreshed(r)
      PROVE  KeyInv'
  BY <1>7, RefreshKeeps DEF Refreshed, Looks, Fetching
<1>8. ASSUME NEW r \in Requests, Forced(r)
      PROVE  KeyInv'
  BY <1>8, RefreshKeeps DEF Forced, Looks, Fetching
<1>9. ASSUME NEW r \in Requests, FetchFails(r)
      PROVE  KeyInv'
  BY <1>9, EndKeeps DEF FetchFails
<1>10. ASSUME NEW r \in Requests, LookDropped(r)
       PROVE  KeyInv'
  BY <1>10, EndKeeps DEF LookDropped
<1>11. CASE \E r \in Requests : KeysRespond(r)
  BY <1>1, <1>11 DEF KeysRespond
<1>12. CASE \E set \in (SUBSET Kids) \ {{}} : Publish(set)
  BY <1>12, PublishKeeps
<1>13. CASE KeysTick
  BY <1>13, TickKeeps
<1> QED
  BY <1>2, <1>3, <1>4, <1>5, <1>6, <1>7, <1>8, <1>9, <1>10, <1>11, <1>12, <1>13
     DEF KeysStep, KeysNext

LEMMA KeysAlways == KeysSpec => []KeyInv
<1> QED
  BY KeysStarts, KeysSteps, PTL DEF KeysSpec

-----------------------------------------------------------------------------
(* Theorems.                                                               *)

\* What is cached, published and looked up keeps its type, and one lookup at
\* a time fetches (jwks.rs, the lock held across the fetch).
THEOREM KeysTyped == KeysSpec => []KeysTypeOK
<1>1. ASSUME KeyInv PROVE KeysTypeOK
  <2> DEFINE F == {r \in Requests : look[r].at \in Fetching}
  <2>1. Cardinality(F) <= 1
    <3>1. CASE F = {}
      BY <3>1, FS_EmptySet
    <3>2. CASE F # {}
      <4>1. PICK r \in Requests : F = {r}
        BY <3>2, <1>1 DEF KeyInv, OneFetch
      <4> HIDE DEF F
      <4>2. Cardinality(F) = 1
        BY <4>1, FS_Singleton
      <4> QED
        BY <4>2
    <3> QED
      BY <3>1, <3>2
  <2>2. Lookup = [kid : Kids \cup {NoKid}, doc : SUBSET Kids, time : 0..FetchTime,
                  at : Over \cup Fetching \cup {"waiting"}]
    BY DEF Lookup, Stages
  <2> QED
    BY <1>1, <2>1, <2>2 DEF KeysTypeOK, KeyInv, Typed, Entry
<1> QED
  BY KeysAlways, <1>1, PTL

\* A lookup that is answered was answered from the entry while it lived, or
\* from a document that came.
LEMMA WhoAnswers ==
    ASSUME KeyInv, KeysStep, NEW r \in Requests, NEW at \in {"found", "unknown"},
           Answers(r, at)
    PROVE  \/ Lock(r) /\ cached.age < Ttl
           \/ Refreshed(r) \/ Forced(r)
<1>1. look \in [Requests -> Lookup] /\ look' # look /\ look'[r].at = at /\ look[r].at # at
  BY DEF KeyInv, Typed, Answers
<1>2. ~(Arrives /\ UNCHANGED keys)
  BY <1>1 DEF keys
<1>3. ~\E set \in (SUBSET Kids) \ {{}} : Publish(set)
  BY <1>1 DEF Publish
<1>4. ~KeysTick
  <2> SUFFICES ASSUME KeysTick PROVE look'[r].at = look[r].at
    BY <1>1
  <2>1. look'[r] = IF look[r].at \in Fetching
                   THEN [look[r] EXCEPT !.time = @ + 1] ELSE look[r]
    BY DEF KeysTick
  <2>2. look[r] \in Lookup
    BY <1>1
  <2>3. [look[r] EXCEPT !.time = @ + 1].at = look[r].at
    BY <2>2 DEF Lookup
  <2> QED
    BY <2>1, <2>3
<1>5. ASSUME NEW q \in Requests, NEW kid \in Kids \cup {NoKid}, Ask(q, kid)
      PROVE  FALSE
  <2>1. "waiting" \in Stages /\ "waiting" # at
    BY DEF Stages
  <2>2. look'[q].at = "waiting" /\ (r # q => look'[r] = look[r])
    BY <1>1, <1>5, <2>1, Begun DEF Ask
  <2> QED
    BY <1>1, <2>1, <2>2
<1>6. ASSUME NEW q \in Requests, Lock(q)
      PROVE  q = r /\ cached.age < Ttl
  <2>1. CASE cached.age < Ttl
    <3>1. Select(q, cached.keys, cached.forced)
      BY <1>6, <2>1 DEF Lock
    <3>2. r # q => look'[r] = look[r]
      BY <1>1, <3>1, Selected
    <3> QED
      BY <1>1, <2>1, <3>2
  <2>2. CASE ~(cached.age < Ttl)
    <3>1. look' = [look EXCEPT ![q].at = "fetching"]
      BY <1>6, <2>2 DEF Lock, To
    <3>2. CASE r # q
      BY <1>1, <3>1, <3>2
    <3>3. CASE r = q
      <4>1. look'[r] = [look[r] EXCEPT !.at = "fetching"] /\ look[r] \in Lookup
        BY <1>1, <3>1, <3>3
      <4>2. [look[r] EXCEPT !.at = "fetching"].at = "fetching"
        BY <4>1 DEF Lookup
      <4> QED
        BY <1>1, <4>1, <4>2
    <3> QED
      BY <3>2, <3>3
  <2> QED
    BY <2>1, <2>2
<1>7. ASSUME NEW q \in Requests, Serve(q)
      PROVE  FALSE
  <2>1. CASE r # q
    BY <1>1, <1>7, <2>1 DEF Serve
  <2>2. CASE r = q
    <3>1. look'[r] = [look[r] EXCEPT !.doc = published] /\ look[r] \in Lookup
      BY <1>1, <1>7, <2>2 DEF Serve
    <3>2. [look[r] EXCEPT !.doc = published].at = look[r].at
      BY <3>1 DEF Lookup
    <3> QED
      BY <1>1, <3>1, <3>2
  <2> QED
    BY <2>1, <2>2
<1>8. ASSUME NEW q \in Requests, NEW set, NEW forced, Select(q, set, forced)
      PROVE  q = r
  <2>1. r # q => look'[r] = look[r]
    BY <1>1, <1>8, Selected
  <2> QED
    BY <1>1, <2>1
<1>9. ASSUME NEW q \in Requests, Refreshed(q)
      PROVE  q = r
  BY <1>8, <1>9 DEF Refreshed
<1>10. ASSUME NEW q \in Requests, Forced(q)
       PROVE  q = r
  BY <1>8, <1>10 DEF Forced
<1>11. ASSUME NEW q \in Requests, FetchFails(q) \/ LookDropped(q)
       PROVE  FALSE
  <2>1. Answer(q, "none") /\ "none" \in Over
    BY <1>11 DEF FetchFails, LookDropped, Over
  <2>2. look'[q].at = "none" /\ (r # q => look'[r] = look[r])
    BY <1>1, <2>1, Answered
  <2> QED
    BY <1>1, <2>2
<1>12. ~\E q \in Requests : KeysRespond(q)
  BY <1>1 DEF KeysRespond, keys
<1> QED
  BY <1>2, <1>3, <1>4, <1>5, <1>6, <1>7, <1>9, <1>10, <1>11, <1>12 DEF KeysStep, KeysNext

\* A key verifies tokens only while it is published and, once withdrawn, for no
\* longer than an entry lives and a fetch takes (jwks.rs, cache_ttl): the
\* property the run checks, for any time to live and any timeout.
THEOREM Withdrawn == KeysSpec => NoWithdrawnKey
<1> DEFINE Step == \A r \in Requests : Answers(r, "found") =>
                       \A k \in Selects(cached'.keys, look[r].kid) :
                           k \in published \/ since[k] < Ttl + FetchTime
<1>1. ASSUME KeyInv, [KeysStep]_<<server, keys>>
      PROVE  [Step]_keys
  <2> SUFFICES ASSUME KeysStep, NEW r \in Requests, Answers(r, "found"),
                      NEW k \in Selects(cached'.keys, look[r].kid), k \notin published
               PROVE  since[k] < Ttl + FetchTime
    BY <1>1
  <2>1. k \in cached'.keys
    BY DEF Selects
  <2>2. ASSUME NEW n \in Nat, n < Ttl + FetchTime, Differs(cached'.keys, n),
               cached'.keys \in SUBSET Kids
        PROVE  since[k] < Ttl + FetchTime
    <3>1. k \in Kids /\ since[k] <= n
      BY <2>1, <2>2 DEF Differs
    <3>2. since[k] \in Nat
      BY <1>1, <3>1, Ticks DEF KeyInv, Typed
    <3> QED
      BY <2>2, <3>1, <3>2, Ticks
  <2>3. CASE Lock(r) /\ cached.age < Ttl
    <3>1. cached' = cached /\ cached \in Entry
      BY <1>1, <2>3 DEF Lock, KeyInv, Typed
    <3>2. cached.age + FetchTime \in Nat /\ cached.age + FetchTime < Ttl + FetchTime
      BY <2>3, <3>1, Ticks DEF Entry
    <3>3. Differs(cached.keys, cached.age + FetchTime) /\ cached.keys \in SUBSET Kids
      BY <1>1, <3>1 DEF KeyInv, Timely, Entry
    <3> QED
      BY <2>2, <3>1, <3>2, <3>3
  <2>4. CASE Refreshed(r) \/ Forced(r)
    <3>1. cached'.keys = look[r].doc /\ look[r].doc # {}
      BY <2>4 DEF Refreshed, Forced
    <3>2. look[r] \in Lookup
      BY <1>1 DEF KeyInv, Typed
    <3>3. look[r].time \in Nat /\ look[r].time < Ttl + FetchTime /\ look[r].doc \in SUBSET Kids
      BY <3>2, Ticks DEF Lookup
    <3>4. Differs(look[r].doc, look[r].time)
      BY <1>1, <3>1 DEF KeyInv, Fresh
    <3> QED
      BY <2>2, <3>1, <3>3, <3>4
  <2> QED
    BY <1>1, <2>3, <2>4, WhoAnswers
<1> QED
  BY KeysAlways, <1>1, PTL DEF NoWithdrawnKey, KeysSpec

\* A token of a published key is refused for an unknown key only when its key
\* was published lately: within the cooldown and a fetch of the refusal
\* (jwks.rs, the second fetch of rsa_key_for), for any of the three times.
THEOREM Heals == KeysSpec => RotationHeals
<1> DEFINE Step == \A r \in Requests :
                       Answers(r, "unknown") /\ look[r].kid \in published =>
                           since[look[r].kid] < MinRefetch + FetchTime
<1>1. ASSUME KeyInv, [KeysStep]_<<server, keys>>
      PROVE  [Step]_keys
  <2> SUFFICES ASSUME KeysStep, NEW r \in Requests, Answers(r, "unknown"),
                      look[r].kid \in published
               PROVE  since[look[r].kid] < MinRefetch + FetchTime
    BY <1>1
  <2> DEFINE k == look[r].kid
  <2>1. k \in Kids /\ k # NoKid /\ since[k] \in Nat
    BY <1>1, KeyCacheAssumption, Ticks DEF KeyInv, Typed
  <2>2. ASSUME NEW set, NEW forced, Select(r, set, forced)
        PROVE  k \notin set /\ ~(forced >= MinRefetch)
    <3>1. Selects(set, k) = {} /\ ~(forced >= MinRefetch)
      BY <1>1, <2>2, Selected DEF KeyInv, Typed, Answers
    <3> QED
      BY <2>1, <3>1 DEF Selects
  <2>3. CASE Lock(r) /\ cached.age < Ttl
    <3>1. Select(r, cached.keys, cached.forced)
      BY <2>3 DEF Lock
    <3>2. k \notin cached.keys /\ ~(cached.forced >= MinRefetch)
      BY <2>2, <3>1
    <3>3. cached.age \in Nat /\ cached.forced \in {cached.age, MaxAge}
      BY <1>1, Ticks DEF KeyInv, Typed, Entry, Timely
    <3>4. since[k] <= cached.age + FetchTime
      BY <1>1, <2>1, <3>2 DEF KeyInv, Timely, Differs
    <3> QED
      BY <2>1, <3>2, <3>3, <3>4, Ticks
  <2>4. ~Refreshed(r)
    <3> SUFFICES ASSUME Refreshed(r) PROVE FALSE
      OBVIOUS
    <3>1. ~(MaxAge >= MinRefetch)
      BY <2>2 DEF Refreshed
    <3> QED
      BY <3>1, Ticks
  <2>5. CASE Forced(r)
    <3>1. k \notin look[r].doc /\ look[r].doc # {}
      BY <2>2, <2>5 DEF Forced
    <3>2. look[r].time \in Nat /\ look[r].time <= FetchTime
      BY <1>1, Ticks DEF KeyInv, Typed, Lookup
    <3>3. since[k] <= look[r].time
      BY <1>1, <2>1, <3>1 DEF KeyInv, Fresh, Differs
    <3> QED
      BY <2>1, <3>2, <3>3, Ticks
  <2> QED
    BY <1>1, <2>3, <2>4, <2>5, WhoAnswers
<1> QED
  BY KeysAlways, <1>1, PTL DEF RotationHeals, KeysSpec
=============================================================================
