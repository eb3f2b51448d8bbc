---------------------------- MODULE ClientCache ----------------------------
(***************************************************************************)
(* pkg/cache: the LRU cache of Vault clients and AWS sessions. A cache is  *)
(* a sequence of entries [key, version, client], the one used last first,  *)
(* with one entry per key: a key is stored with the resourceVersion of its *)
(* store, and another version of it is a miss that purges the entry.       *)
(* Every operation takes the cache's lock; the cleanup of an evicted entry *)
(* runs under it.                                                          *)
(***************************************************************************)
EXTENDS Naturals, Sequences

Contains(cache, key) == \E i \in DOMAIN cache : cache[i].key = key
IndexOf(cache, key) == CHOOSE i \in DOMAIN cache : cache[i].key = key
EntryOf(cache, key) == cache[IndexOf(cache, key)]

RemoveAt(cache, i) == SubSeq(cache, 1, i - 1) \o SubSeq(cache, i + 1, Len(cache))
Purge(cache, key) == IF Contains(cache, key) THEN RemoveAt(cache, IndexOf(cache, key)) ELSE cache
Touch(cache, key) ==
    IF Contains(cache, key) THEN <<EntryOf(cache, key)>> \o Purge(cache, key) ELSE cache

(* Mutant: whatever is stored under the key.                               *)
IgnoresVersion(cache, version, key) == Contains(cache, key)

(* Get: the entry is there, in the version asked for.                      *)
Hit(cache, version, key) == Contains(cache, key) /\ EntryOf(cache, key).version = version

(* Add: a value stored under the key is replaced, and nobody cleans it up; *)
(* otherwise the oldest entry makes room.                                  *)
Add(cache, size, version, key, client) ==
    LET new == <<[key |-> key, version |-> version, client |-> client]>> \o Purge(cache, key)
    IN  SubSeq(new, 1, IF Len(new) > size THEN size ELSE Len(new))
Evicts(cache, size, key) == ~Contains(cache, key) /\ Len(cache) = size
Oldest(cache) == cache[Len(cache)]
===========================================================================
