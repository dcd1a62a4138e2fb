---------------------------- MODULE ModifierCache ----------------------------
(***************************************************************************)
(* The cache of vault clients (Modifier.go) for one environment and        *)
(* address: a channel of modifiers that NewModifier takes from and Release *)
(* puts into.  A modifier carries the token it was made with; the key of   *)
(* the cache does not, and NewModifier gives a cached one its new caller's *)
(* environment but leaves the token.  Each operation is a step; a count    *)
(* that follows the channel is its length here.                            *)
(***************************************************************************)
EXTENDS Naturals, Sequences

CONSTANTS
  CacheRoom,    \* modifiers the channel holds (20)
  CacheLimit    \* above which it is pruned (10)

ASSUME CacheAssumption == CacheRoom \in Nat /\ CacheLimit \in 1..(CacheRoom - 1)

VARIABLE cache  \* the tokens of the modifiers in the channel

CacheInit == cache = <<>>

\* cleanCacheHelper closes up to limit modifiers, but none when there is only
\* one.
Cleaned(c, limit) ==
  IF Len(c) > 1 THEN SubSeq(c, (IF limit < Len(c) THEN limit ELSE Len(c)) + 1, Len(c)) ELSE c

\* PruneCache, which NewModifier calls first.
Pruned(c) == IF Len(c) > CacheLimit THEN Cleaned(c, CacheLimit) ELSE c

\* NewModifier with the cache: the token of the modifier it returns.  With an
\* empty channel it waits 200 ms and makes a new one.
NewModifier(token) == IF cache # <<>> THEN Pruned(cache)[1] ELSE token
Taken == IF cache # <<>> THEN Tail(Pruned(cache)) ELSE cache

\* A full cache is cleaned first, its modifier closed with the others.
Released(c, m) == Append(IF Len(c) > CacheLimit THEN Cleaned(c, CacheLimit) ELSE c, m)

\* ResetModifier takes a modifier, closes it, and then cleans.
\* Mutant of ResetModifier: what the last tool released stays.
KeepModifiers(c) == c
ResetModifier(c) == Cleaned(IF c # <<>> THEN Tail(Pruned(c)) ELSE c, CacheRoom)
=============================================================================
