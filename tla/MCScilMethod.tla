---------------------------- MODULE MCScilMethod ----------------------------
(* Instance of ScilMethod for TLC: every operation, short programs. *)
EXTENDS ScilMethod

CONSTANTS vx, vs, lk, lkl, sf, sg, VT

MCValueTypes == {VT}
MCVariables == {vx, vs}
MCVarType == [v \in MCVariables |-> IF v = vx THEN "int32" ELSE VT]
MCLiterals == {lk, lkl}
MCLitType == [l \in MCLiterals |-> IF l = lk THEN "int8" ELSE "int64"]
MCLitCil == [l \in MCLiterals |-> IF l = lk THEN "i4" ELSE "i8"]
\* Every type but bool and char has a conv instruction.
MCConvTypes == (IntTypes \ {"bool", "char"}) \cup FloatTypes
MCSignatures == {sf, sg}
MCSigParams == [h \in MCSignatures |-> IF h = sf THEN <<"int16", "pointer">> ELSE <<>>]
MCSigResult == [h \in MCSignatures |-> IF h = sf THEN "int16" ELSE "void"]
MCPrecision == [t \in StackTypes |->
                  CASE t = "int8" -> 8 [] t = "int16" -> 16 [] t = "int32" -> 32
                    [] t = "pointer" -> 32 [] OTHER -> 64]
AllOps == {"push", "push_integer", "push_address", "dup", "pop", "pop_into",
           "push_field", "push_field_address", "pop_into_field",
           "push_virtual_method", "unop", "binop", "binop_un", "compare",
           "compare_un", "convert", "call", "call_indirect", "newobj",
           "new_static_delegate", "branch", "branch_true", "branch_false",
           "branch_compare", "branch_compare_un", "ret"}

=============================================================================
