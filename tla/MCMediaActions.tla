-------------------------- MODULE MCMediaActions --------------------------
(* Two pairs of commands, made for the first revision of the connection: a *)
(* playlist and a mark that share an idempotency key, one repeatable and   *)
(* one not, and a favourite that is set and taken back under two keys.     *)
EXTENDS MediaActions, TLC

CONSTANTS playlist, watched, like, unlike, k1, k2

OneKey == [m \in Commands |-> k1]
TwoKeys == [m \in Commands |-> IF m = like THEN k1 ELSE k2]

Independent == [m \in Commands |-> {}]
Opposite == [m \in Commands |-> Commands \ {m}]

FirstRevision == [m \in Commands |-> 0]

Symmetric == Permutations(Callers)

(* The two opposite commands may change places, with their keys. *)
Swap == (like :> unlike) @@ (unlike :> like) @@ (k1 :> k2) @@ (k2 :> k1)
SymmetricPair == Symmetric \cup {p @@ Swap : p \in Symmetric}
=============================================================================
