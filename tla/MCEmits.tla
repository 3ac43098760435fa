------------------------------- MODULE MCEmits -------------------------------
(* Three versions: one with interned models, one that differs from it in some of  *)
(* the files, one without and one that is refused.                                  *)
EXTENDS Emits, TLC

Names == {"schema_auto.sql", "schema.sql", "generated.rs", "generated.go", "intern_auto.rs",
          "ops_auto.rs", "ops.rs", "user_auto.h", "user_auto.c"}
MCBodyOf == [p \in 1..4 |-> [f \in Names |->
                IF f \in {"user_auto.h", "intern_auto.rs", "ops_auto.rs"} THEN 1 ELSE p]]
MCLoaded == {{"sqlx", "rust", "c"}, {"rusqlite", "c"}, {"binding-core", "rust"}, {"rusqlite", "sqlx"}}
MCRoutes == "ops.rs" :> "src/ops.rs" @@ "ops_auto.rs" :> "src/ops_auto.rs"
=============================================================================
