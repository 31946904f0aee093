-------------------------------- MODULE Crdt --------------------------------
(***************************************************************************)
(* The replicated map of crates/akamu-crdt (or_map.rs), by its entries.  A *)
(* map is a function from keys to entries, an absent key is an Absent      *)
(* entry.  `gen` is local_gen: it stays on the node and decides what a     *)
(* delta contains.  `tombstone_at` only serves the hourly purge and is     *)
(* left out.                                                               *)
(***************************************************************************)
EXTENDS Naturals

NoValue == [status |-> "", contact |-> 0, created |-> 0, updated |-> 0]

Absent == [kind |-> "absent", value |-> NoValue, added |-> 0, gen |-> 0]

(* OrMap::upsert: replaces whatever is there, a tombstone too. *)
Upsert(value, ts, gen) == [kind |-> "live", value |-> value, added |-> ts, gen |-> gen]

(* OrMap::remove: the value is kept, a tombstone stays as it is. *)
Remove(e, ts, gen) ==
  CASE e.kind = "absent" -> [kind |-> "tomb", value |-> NoValue, added |-> ts, gen |-> gen]
    [] e.kind = "live"   -> [e EXCEPT !.kind = "tomb", !.gen = gen]
    [] e.kind = "tomb"   -> e

(* Mutant: the entry received last wins. *)
MutMergeEntry(e, other, gen) ==
  IF other.kind = "absent" \/ (e.kind = "tomb" /\ other.kind = "live") THEN e
  ELSE [other EXCEPT !.gen = gen]

(* Merge for OrMap, one key.  An entry that changes gets generation gen. *)
MergeEntry(e, other, gen) ==
  CASE e.kind = "absent" /\ other.kind # "absent" -> [other EXCEPT !.gen = gen]
    [] e.kind = "live" /\ other.kind = "tomb" -> [e EXCEPT !.kind = "tomb", !.gen = gen]
    [] e.kind = "live" /\ other.kind = "live" /\ other.added > e.added -> [other EXCEPT !.gen = gen]
    [] OTHER -> e

(* delta_since, delta_range, as sent: generations are not serialised. *)
DeltaRange(map, since, until) ==
  [k \in DOMAIN map |-> IF map[k].gen > since /\ map[k].gen <= until
                        THEN [map[k] EXCEPT !.gen = 0] ELSE Absent]

(* A clone of the map, as sent. *)
Full(map) == [k \in DOMAIN map |-> [map[k] EXCEPT !.gen = 0]]
=============================================================================
