-------------------------------- MODULE Lists --------------------------------
(***************************************************************************)
(* JavaScript's filter and findIndex on the lists of the pages.            *)
(* Sequences' SelectSeq takes an operator, which the provers cannot reason *)
(* about; the elements that go are a set here, and the recursion is that   *)
(* of a function.  An index is found among those that match.               *)
(***************************************************************************)
EXTENDS Naturals, Sequences

Without(s, out) ==
    LET kept[n \in 0 .. Len(s)] ==
            IF n = 0 THEN <<>>
            ELSE IF s[n] \in out THEN kept[n - 1] ELSE Append(kept[n - 1], s[n])
    IN  kept[Len(s)]

FirstOf(at) == IF at = {} THEN 0 ELSE CHOOSE i \in at : \A j \in at : i <= j

\* No element is in the list twice.
Distinct(s) == \A i, j \in 1 .. Len(s) : s[i] = s[j] => i = j

=============================================================================
