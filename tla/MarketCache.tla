----------------------------- MODULE MarketCache -----------------------------
(***************************************************************************)
(* The cache of public market data (PublicMarketCache and /api/public in   *)
(* api/app.py): an ordered dictionary of bounded size.  A request looks    *)
(* its key up, asks the exchange when there is no fresh entry, and stores  *)
(* the answer.  Requests for one key may miss together; answers arrive in  *)
(* any order.  A value is the instant at which the exchange computed it.   *)
(***************************************************************************)
EXTENDS Integers, Sequences, FiniteSets, Selection

CONSTANTS
    Callers,       \* requests under way
    Keys,          \* path and parameters
    TTL,           \* get_ttl of a key
    MaxEntries,    \* _MAX_ENTRIES
    FetchTime,     \* bound on a request to the exchange
    Unanswered,
    MaxInstant     \* bound on the clock

ASSUME CacheAssumption ==
    /\ TTL \in [Keys -> Nat \ {0}]
    /\ MaxEntries \in Nat \ {0} /\ FetchTime \in Nat /\ MaxInstant \in Nat

VARIABLES
    instant,    \* time.monotonic
    entries,    \* _cache: a sequence of [key, exp, val]
    calls       \* of each caller: [step, key, asked, val]

cacheVars == <<instant, entries, calls>>

Fresh(e) == instant < e.exp

\* what the exchange may have computed for a question
Computed(c) == calls[c].asked..instant

NoCall == [step |-> "idle", key |-> Unanswered, asked |-> 0, val |-> Unanswered]

-----------------------------------------------------------------------------

CacheInit ==
    /\ instant = 0
    /\ entries = <<>>
    /\ calls = [c \in Callers |-> NoCall]

\* A request to the exchange is answered in time, or fails.
TimeGoes ==
    /\ instant < MaxInstant
    /\ \A c \in Callers :
          calls[c].step = "fetch" => instant - calls[c].asked < FetchTime
    /\ \A c \in Callers : calls[c].step # "answered"
    /\ instant' = instant + 1
    /\ UNCHANGED <<entries, calls>>

Held(k) == {i \in DOMAIN entries : entries[i].key = k}

Without(k) == Kept(entries, DOMAIN entries \ Held(k))

FreshOf(s) == Kept(s, {i \in DOMAIN s : Fresh(s[i])})

(* get: a hit moves to the end, an expired entry is removed. *)
Get(c, k) ==
    /\ calls[c].step = "idle"
    /\ IF \E i \in Held(k) : Fresh(entries[i])
       THEN LET hit == entries[CHOOSE i \in Held(k) : TRUE] IN
            /\ entries' = Append(Without(k), hit)
            /\ calls' = [calls EXCEPT ![c] =
                  [step |-> "answered", key |-> k, asked |-> instant, val |-> hit.val]]
       ELSE /\ entries' = Without(k)
            /\ calls' = [calls EXCEPT ![c] =
                  [step |-> "fetch", key |-> k, asked |-> instant, val |-> Unanswered]]
    /\ UNCHANGED instant

\* Variant for mutation: one entry more.
EvictedOneShort(s) ==
    LET fresh == FreshOf(s) IN
      IF Len(fresh) <= MaxEntries THEN fresh
      ELSE SubSeq(fresh, Len(fresh) - MaxEntries + 1, Len(fresh))

\* Variant for mutation: the oldest goes, whether others are expired or not.
EvictedOldest(s) == SubSeq(s, Len(s) - MaxEntries + 2, Len(s))

\* _evict_locked: the expired entries, then the oldest until there is room.
Evicted(s) ==
    LET fresh == FreshOf(s) IN
      IF Len(fresh) < MaxEntries THEN fresh
      ELSE SubSeq(fresh, Len(fresh) - MaxEntries + 2, Len(fresh))

\* Variant for mutation: one life for all keys.
LifeOfCandles(k) == 15

Life(k) == TTL[k]

(* set: an entry is replaced, or room is made for it. *)
Stored(k, v) ==
    Append(IF Held(k) # {} THEN Without(k)
           ELSE IF Len(entries) >= MaxEntries THEN Evicted(entries)
           ELSE entries,
           [key |-> k, exp |-> instant + Life(k), val |-> v])

(* The exchange has answered; only code 00000 is stored. *)
FetchReturns(c, v, ok) ==
    /\ calls[c].step = "fetch"
    /\ v \in Computed(c)
    /\ entries' = IF ok THEN Stored(calls[c].key, v) ELSE entries
    /\ calls' = [calls EXCEPT ![c].step = "answered", ![c].val = v]
    /\ UNCHANGED instant

FetchRaises(c) ==
    /\ calls[c].step = "fetch"
    /\ calls' = [calls EXCEPT ![c] = NoCall]
    /\ UNCHANGED <<instant, entries>>

Return(c) ==
    /\ calls[c].step = "answered"
    /\ calls' = [calls EXCEPT ![c] = NoCall]
    /\ UNCHANGED <<instant, entries>>

CacheNext ==
    \/ TimeGoes
    \/ \E c \in Callers :
          \/ \E k \in Keys : Get(c, k)
          \/ \E v \in 0..MaxInstant, ok \in BOOLEAN : FetchReturns(c, v, ok)
          \/ FetchRaises(c) \/ Return(c)

CacheSpec == CacheInit /\ [][CacheNext]_cacheVars

-----------------------------------------------------------------------------
(* Properties *)

CacheTypeOK ==
    /\ instant \in 0..MaxInstant
    /\ entries \in Seq([key : Keys, exp : Nat, val : Nat])
    /\ \A c \in Callers :
          /\ calls[c].step \in {"idle", "fetch", "answered"}
          /\ calls[c].step # "idle" => calls[c].key \in Keys
          /\ calls[c].step = "answered" => calls[c].val \in 0..instant

(* Whoever misses together and stores in whatever order: a key is there     *)
(* once, and there are never more entries than the limit.                   *)
CacheIsBounded ==
    /\ Len(entries) <= MaxEntries
    /\ \A i, j \in DOMAIN entries : entries[i].key = entries[j].key => i = j

(* An answer is no older than the life of its key and one request: a late   *)
(* answer that overwrites a newer one does not live longer for it, and an   *)
(* entry that is used again and again is not renewed.                       *)
AnswersAreRecent ==
    \A c \in Callers : calls[c].step = "answered" =>
        instant - calls[c].val <= TTL[calls[c].key] + FetchTime

(* An entry that is fresh is lost for another key only when all the room is *)
(* taken by fresh ones.                                                     *)
FreshSurvives ==
    \A i \in DOMAIN entries :
        Fresh(entries[i]) /\ (\A j \in DOMAIN entries' : entries'[j].key # entries[i].key)
            => Cardinality({j \in DOMAIN entries : Fresh(entries[j])}) = MaxEntries

(* No step of any request breaks the cache: bounded, recent, and no fresh   *)
(* entry thrown away without need (app.py:59, :99-106).                     *)
CacheIsSound == [][CacheIsBounded' /\ AnswersAreRecent' /\ FreshSurvives]_cacheVars

=============================================================================
