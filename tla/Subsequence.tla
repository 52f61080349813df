---------------------------- MODULE Subsequence ----------------------------
(***************************************************************************)
(* Subsequences of a sequence, written without recursion so that the       *)
(* provers can reason about them: element k of the result is found at the  *)
(* k-th of the selected positions.  They are what the list comprehensions, *)
(* the collecting loops and the unlinking loops of the Python code leave.  *)
(***************************************************************************)
EXTENDS Integers, Sequences, FiniteSets

(* The set of elements of s. *)
Elems(s) == {s[i] : i \in 1..Len(s)}

(* No element occurs twice in s. *)
Distinct(s) == \A i, j \in 1..Len(s) : s[i] = s[j] => i = j

(* The member of I (a finite set of positions) that has rank k in I. *)
Kth(I, k) == CHOOSE i \in I : Cardinality(I \cap 1..i) = k

(* The elements of s at the positions I, in the order of s. *)
Select(s, I) == [k \in 1..Cardinality(I) |-> s[Kth(I, k)]]

(* s without the elements of S. *)
Drop(s, S) == Select(s, {i \in 1..Len(s) : s[i] \notin S})

(* The last of the positions I at which s has each of its elements. *)
LastOf(s, I) == {i \in I : \A j \in I : s[j] = s[i] => j <= i}

(* The elements of S that occur in s, ordered by last occurrence. *)
KeepLast(s, S) == Select(s, LastOf(s, {i \in 1..Len(s) : s[i] \in S}))

(* How often e occurs in s. *)
Occurrences(s, e) == Cardinality({i \in 1..Len(s) : s[i] = e})

(* s read backwards, as Python's reversed(s) does. *)
Reversed(s) == [i \in 1..Len(s) |-> s[Len(s) + 1 - i]]
=============================================================================
