----------------------------- MODULE MCTenants -----------------------------
(***************************************************************************)
(* Instances of Tenants for TLC: r1, r2 and r3 form a chain of rivals (r1  *)
(* and r2 want one name, r2 and r3 one slug), r4 wants the name of one     *)
(* default tenant and the slug of another, r5 repeats r3.                  *)
(***************************************************************************)
EXTENDS Tenants, TLC

CONSTANTS r1, r2, r3, r4, r5

Row(n, s) == [name |-> n, slug |-> s]
MCDefaults == {Row("Downtown", "downtown"), Row("Westside", "westside")}
MCBody == r1 :> Row("Alpha", "alpha") @@ r2 :> Row("Alpha", "beta")
            @@ r3 :> Row("Beta", "beta") @@ r4 :> Row("Downtown", "westside")
            @@ r5 :> Row("Beta", "beta")
=============================================================================
