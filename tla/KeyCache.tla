------------------------------- MODULE KeyCache -------------------------------
(***************************************************************************)
(* The cache of the keys an identity provider publishes (jwks.rs,           *)
(* rsa_key_for): one lock held across the fetch, a time to live, and one    *)
(* more fetch, not too often, for a token whose key is unknown.             *)
(***************************************************************************)
EXTENDS Server

CONSTANTS
    Kids,        \* names of keys
    NoKid,       \* the token of a request may name none
    Ttl,         \* JWC_JWT_JWKS_TTL_SECS, in ticks
    MinRefetch,  \* JWC_JWT_JWKS_MIN_REFETCH_SECS
    FetchTime,   \* the timeout of the client that fetches
    MaxAge       \* bound: ages stop there

ASSUME KeyCacheAssumption ==
    /\ NoKid \notin Kids
    /\ {Ttl, MinRefetch, FetchTime} \subseteq Nat \ {0}
    /\ MaxAge \in Nat /\ MaxAge >= Ttl + FetchTime /\ MaxAge >= MinRefetch + FetchTime

VARIABLES
    published,  \* the keys the provider publishes
    since,      \* for how long each has been published, or has not
    cached,     \* the entry of the cache
    look        \* the lookup of each request

keys == <<published, since, cached, look>>

None == [age |-> MaxAge, forced |-> MaxAge, keys |-> {}]  \* no entry
NoLook == [kid |-> NoKid, at |-> "none", doc |-> {}, time |-> 0]

\* cached.age is the time since fetched_at, and cached.forced since
\* last_forced; MaxAge in it is `None`, or so long ago that it does not count.
KeysInit ==
    /\ published \in (SUBSET Kids) \ {{}}
    /\ since = [k \in Kids |-> MaxAge]
    /\ cached = None
    /\ look = [r \in Requests |-> NoLook]

Over == {"none", "found", "unknown"}
Fetching == {"fetching", "forcing"}
Locked == \E r \in Requests : look[r].at \in Fetching
Looks(r, at) == life # "exited" /\ look[r].at = at
To(r, at) == look' = [look EXCEPT ![r].at = at]

\* select_key: a token that names no key is answered only where one is enough.
Selects(set, kid) ==
    IF kid = NoKid THEN {k \in set : set = {k}} ELSE set \cap {kid}

\* The answer to a request, which gives the lock back.
Answer(r, at) == look' = [look EXCEPT ![r] = [NoLook EXCEPT !.at = at]]

\* A handler may verify one token after the other.
Ask(r, kid) ==
    /\ Runs(r) /\ look[r].at \in Over
    /\ look' = [look EXCEPT ![r] = [NoLook EXCEPT !.kid = kid, !.at = "waiting"]]
    /\ UNCHANGED <<server, published, since, cached>>

\* What is found, or the second fetch and its limit.
\* Mutant: no second fetch while the entry lives.
SelectOnce(r, set, forced) ==
    Answer(r, IF Selects(set, look[r].kid) # {} THEN "found" ELSE "unknown")
Select(r, set, forced) ==
    IF Selects(set, look[r].kid) # {} THEN Answer(r, "found")
    ELSE IF forced >= MinRefetch
         THEN look' = [look EXCEPT ![r] = [NoLook EXCEPT !.kid = look[r].kid, !.at = "forcing"]]
         ELSE Answer(r, "unknown")

\* Mutant: an entry is good as long as it is there.
LockStale(r) ==
    /\ Looks(r, "waiting") /\ ~Locked
    /\ IF cached # None THEN Select(r, cached.keys, cached.forced) ELSE To(r, "fetching")
    /\ UNCHANGED <<server, published, since, cached>>
Lock(r) ==
    /\ Looks(r, "waiting") /\ ~Locked
    /\ IF cached.age < Ttl THEN Select(r, cached.keys, cached.forced) ELSE To(r, "fetching")
    /\ UNCHANGED <<server, published, since, cached>>

\* The provider answers: the document it serves is as old as the answer is
\* late.
Serve(r) ==
    /\ life # "exited" /\ look[r].at \in Fetching /\ look[r].doc = {}
    /\ look' = [look EXCEPT ![r].doc = published]
    /\ UNCHANGED <<server, published, since, cached>>

\* A refresh forgets last_forced; a lookup that fails leaves the entry alone.
Refreshed(r) ==
    /\ Looks(r, "fetching") /\ look[r].doc # {}
    /\ cached' = [age |-> 0, forced |-> MaxAge, keys |-> look[r].doc]
    /\ Select(r, look[r].doc, MaxAge)
    /\ UNCHANGED <<server, published, since>>

Forced(r) ==
    /\ Looks(r, "forcing") /\ look[r].doc # {}
    /\ cached' = [age |-> 0, forced |-> 0, keys |-> look[r].doc]
    /\ Select(r, look[r].doc, 0)
    /\ UNCHANGED <<server, published, since>>

FetchFails(r) ==
    /\ life # "exited" /\ look[r].at \in Fetching
    /\ Answer(r, "none")
    /\ UNCHANGED <<server, published, since, cached>>

\* The request is dropped where it waits; the guard it may hold goes with it.
LookDropped(r) ==
    /\ look[r].at \notin Over
    /\ TimeOut(r)
    /\ Answer(r, "none")
    /\ UNCHANGED <<published, since, cached>>

KeysRespond(r) ==
    look[r].at \in Over /\ Respond(r) /\ UNCHANGED keys

\* The provider rotates.
Publish(set) ==
    /\ life # "exited" /\ set # published
    /\ published' = set
    /\ since' = [k \in Kids |-> IF k \in set <=> k \in published THEN since[k] ELSE 0]
    /\ UNCHANGED <<server, cached, look>>

Older(n) == IF n < MaxAge THEN n + 1 ELSE n
KeysTick ==
    /\ life # "exited"
    /\ \A r \in Requests : look[r].at \in Fetching => look[r].time < FetchTime
    /\ since' = [k \in Kids |-> Older(since[k])]
    /\ cached' = IF cached = None THEN cached
                 ELSE [cached EXCEPT !.age = Older(@), !.forced = Older(@)]
    /\ look' = [r \in Requests |-> IF look[r].at \in Fetching
                                   THEN [look[r] EXCEPT !.time = @ + 1] ELSE look[r]]
    /\ UNCHANGED <<server, published>>

KeysNext ==
    \/ \E r \in Requests :
          \/ \E kid \in Kids \cup {NoKid} : Ask(r, kid)
          \/ Lock(r) \/ Serve(r) \/ Refreshed(r) \/ Forced(r) \/ FetchFails(r)
          \/ LookDropped(r) \/ KeysRespond(r)
    \/ \E set \in (SUBSET Kids) \ {{}} : Publish(set)
    \/ KeysTick

\* A process that has looked nothing up, with any requests under way.
KeysStart ==
    /\ life = "serving"
    /\ req \in [Requests -> {"coming", "running", "answered", "timed out"}]
    /\ KeysInit
KeysStep == KeysNext \/ (Arrives /\ UNCHANGED keys)
KeysSpec == KeysStart /\ [][KeysStep]_<<server, keys>>
------------------------------------------------------------------------------
(* Properties. *)

KeysTypeOK ==
    /\ published \in (SUBSET Kids) \ {{}} /\ since \in [Kids -> 0..MaxAge]
    /\ cached \in [age : 0..MaxAge, forced : 0..MaxAge, keys : SUBSET Kids]
    /\ look \in [Requests ->
           [kid : Kids \cup {NoKid}, doc : SUBSET Kids, time : 0..FetchTime,
            at : Over \cup Fetching \cup {"waiting"}]]
    /\ Cardinality({r \in Requests : look[r].at \in Fetching}) <= 1

Answers(r, at) == look[r].at # at /\ look'[r].at = at

\* A key verifies tokens only while it is published, and after it is withdrawn
\* for no longer than an entry lives and a fetch takes (jwks.rs, cache_ttl).
NoWithdrawnKey ==
    [][\A r \in Requests : Answers(r, "found") =>
          \A k \in Selects(cached'.keys, look[r].kid) :
              k \in published \/ since[k] < Ttl + FetchTime]_keys

\* A token is refused for an unknown key only if its key was not published
\* lately, as long as the limit on refetches and a fetch are (jwks.rs: a
\* rotation resolves within the cooldown).
RotationHeals ==
    [][\A r \in Requests : Answers(r, "unknown") /\ look[r].kid \in published =>
          since[look[r].kid] < MinRefetch + FetchTime]_keys
=============================================================================
