----------------------------- MODULE MCAuditChain -----------------------------
(* Instances of AuditChain for TLC: three or four requests of two tenants. *)
EXTENDS AuditChain, TLC

CONSTANTS e1, e2, e3, e4, tA, tB

Three == {e1, e2, e3}
Four  == {e1, e2, e3, e4}
Both  == {tA, tB}

\* e1 to e3 append to one chain, so a third request waits behind two others;
\* e4 appends to another.
OwnerOfThree == [e \in Three |-> tA]
OwnerOfFour  == [e \in Four |-> IF e = e4 THEN tB ELSE tA]
OwnerMixed   == [e \in Three |-> IF e = e3 THEN tB ELSE tA]

\* Requests of one tenant are interchangeable.
Interchangeable == Permutations(Three)
=============================================================================
