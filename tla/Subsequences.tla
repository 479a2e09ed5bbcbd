---------------------------- MODULE Subsequences ----------------------------
(***************************************************************************)
(* Sequences from which a program leaves elements out and keeps the order  *)
(* of the rest.  The positions that stay are a set: unlike a filter that   *)
(* is computed element by element, it can be reasoned about.               *)
(***************************************************************************)
EXTENDS Integers, Sequences, FiniteSets

Elems(s) == {s[i] : i \in DOMAIN s}

(* The k-th position of K, and the elements of s at the positions of K.    *)
Rank(K, i) == Cardinality({j \in K : j <= i})
Nth(K, k) == CHOOSE i \in K : Rank(K, i) = k
Pick(s, K) == [k \in 1..Cardinality(K) |-> s[Nth(K, k)]]

(* Where an element stands for the first time.                             *)
Firsts(s) == {i \in DOMAIN s : \A j \in 1..(i - 1) : s[j] # s[i]}
=============================================================================
