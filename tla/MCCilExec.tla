----------------------------- MODULE MCCilExec -----------------------------
(***************************************************************************)
(* Instances of CilExec: one local variable, one static field, one field   *)
(* of objects, a function with a value and one without.                    *)
(***************************************************************************)
EXTENDS CilExec

Op(op, arg) == [op |-> op, arg |-> arg, n |-> 0, returns |-> FALSE]
CallOp(op, f, n, r) == [op |-> op, arg |-> f, n |-> n, returns |-> r]

AllInstructions ==
  {Op("ldloc", 1), Op("stloc", 1), Op("ldc", 1), Op("dup", 0), Op("pop", 0), Op("sub", 0),
   Op("ldsfld", 1), Op("stsfld", 1), Op("ldfld", 2), Op("stfld", 2),
   Op("newarr", 0), Op("ldlen", 0), Op("ldelem", 0), Op("stelem", 0), Op("ret", 0),
   CallOp("call", 1, 0, TRUE), CallOp("call", 2, 2, FALSE), CallOp("call", 6, 2, TRUE),
   CallOp("callinst", 3, 2, TRUE), CallOp("callvirt", 4, 1, TRUE), CallOp("newobj", 5, 1, FALSE)}
  \cup {Op("brtrue", l) : l \in 1..MaxCode}
  \cup {Op("br", 1), Op("br", MaxCode), Op("brfalse", MaxCode - 1), Op("beq", 1), Op("beq", MaxCode)}

=============================================================================
