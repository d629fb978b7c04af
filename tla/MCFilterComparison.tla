-------------------------- MODULE MCFilterComparison --------------------------
(* Operands: Nothing, a logical, a node list, and JSON values of every type. *)
EXTENDS FilterComparison

MCValues ==
    {Null, JSONNull, NotNumber, Bool(TRUE), Bool(FALSE), Str(0), Str(1),
     Num(0, "signed"), Num(0, "decimal"), Num(1, "signed"), Num(1, "float"), Num(1, "decimal"),
     Num(2, "unsigned"),
     Arr(<<>>), Arr(<<Num(1, "float")>>), Arr(<<Num(1, "decimal")>>), Arr(<<Null, Str(0)>>),
     Obj(<<>>), Obj(1 :> Num(1, "signed")), Obj(1 :> Num(1, "decimal")), Obj(2 :> Null)}

MCDepth == [v \in MCValues |-> IF v.t \in {"arr", "obj"} THEN 1 ELSE 0]

MCOperands == {JSON(v) : v \in MCValues} \cup {Nothing, Logical(TRUE), Nodes(<<Null>>)}
=============================================================================
