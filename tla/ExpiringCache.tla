--------------------------- MODULE ExpiringCache ---------------------------
(***************************************************************************)
(* The map with entries that expire, ExpiringCache.ts of typescript-estree *)
(* . A map is a function of its keys, Nothing where there is no entry; the *)
(* lifetime is given to the cache once, in seconds of the clock or         *)
(* Infinity.                                                               *)
(***************************************************************************)
EXTENDS Integers

CONSTANTS Infinity,   \* the lifetime that never ends
          Nothing     \* no entry, no value

(* A lifetime is never confused with the absence of one.                   *)
ASSUME InfinityAssumption == Infinity \notin Int /\ Nothing \notin Int /\ Infinity # Nothing

(* What is said of a value is said at a moment of the clock.               *)
Entry(value, lifetime, now) ==
    [lastSeen |-> IF lifetime = Infinity THEN 0 ELSE now, value |-> value]

(* Mutant: an entry of just the lifetime's age is alive.                   *)
AliveAtLifetime(entry, lifetime, now) ==
    /\ entry # Nothing
    /\ lifetime = Infinity \/ now - entry.lastSeen <= lifetime

(* hrtime's whole seconds of age are compared with the lifetime, which for *)
(* a whole number of seconds says that the age itself is below it.         *)
Alive(entry, lifetime, now) ==
    /\ entry # Nothing
    /\ lifetime = Infinity \/ now - entry.lastSeen < lifetime

Get(map, key, lifetime, now) ==
    IF Alive(map[key], lifetime, now) THEN map[key].value ELSE Nothing

(* A lookup removes what has expired.                                      *)
AfterGets(map, keys, lifetime, now) ==
    [k \in DOMAIN map |->
        IF k \in keys /\ ~Alive(map[k], lifetime, now) THEN Nothing ELSE map[k]]

AfterSets(map, keys, value, lifetime, now) ==
    [k \in DOMAIN map |-> IF k \in keys THEN Entry(value, lifetime, now) ELSE map[k]]

(* Mutant: the map is replaced by an empty object.                         *)
ClearedToEmpty(map) == [k \in {} |-> Nothing]

Cleared(map) == [k \in DOMAIN map |-> Nothing]
=============================================================================
