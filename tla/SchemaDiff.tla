---------------------------- MODULE SchemaDiff -----------------------------
(***************************************************************************)
(* The schema vocabulary (orm), the differ and the dialects (migratediff)  *)
(* and the inverse of an operation (makemigrations.go), as operators.      *)
(*                                                                         *)
(* Tables, columns and modules are natural numbers: all the code asks of   *)
(* their names is equality and the order they sort in.  A model is a       *)
(* function from its columns to fields (the declared order of the fields   *)
(* reaches the text of a CREATE TABLE only), and a snapshot a function     *)
(* from its tables to [module, fields].  What a database does with a       *)
(* statement (Exec) is external: it is stated from what PostgreSQL and     *)
(* SQLite do to a schema, so that the operations can be run.               *)
(***************************************************************************)
EXTENDS Integers, Sequences, FiniteSets, SequencesExt

(* orm.Field; maxLen 0 is unbounded. *)
Field == [type : {"string", "int", "int64", "float", "bool", "time", "bytes"},
          maxLen : Nat, nullable : BOOLEAN, primaryKey : BOOLEAN,
          unique : BOOLEAN, index : BOOLEAN]

(* orm.validate, over one model's fields. *)
ValidField(f) ==
    /\ f.maxLen # 0 => f.type = "string"
    /\ f.primaryKey => ~(f.nullable \/ f.unique \/ f.index)
    /\ ~(f.unique /\ f.index)

Valid(fields) ==
    /\ DOMAIN fields # {}
    /\ \A c \in DOMAIN fields : fields[c] \in Field /\ ValidField(fields[c])
    /\ Cardinality({c \in DOMAIN fields : fields[c].primaryKey}) = 1

Empty == [t \in {} |-> t]

(* The snapshot without the owners: what a database holds. *)
Schema(snapshot) == [t \in DOMAIN snapshot |-> snapshot[t].fields]

(* NewSnapshot: every model is valid; a table is claimed once by the shape. *)
ValidSnapshot(snapshot) == \A t \in DOMAIN snapshot : Valid(snapshot[t].fields)

(* The members of a set of numbers in ascending order. *)
Sorted(S) ==
    LET from[T \in SUBSET S] ==
          IF T = {} THEN <<>>
          ELSE LET x == CHOOSE x \in T : \A y \in T : x =< y
               IN <<x>> \o from[T \ {x}]
    IN from[S]

(* Constructors of migratediff.Operation. *)
CreateTable(t, fields) == [kind |-> "CreateTable", table |-> t, fields |-> fields]
DropTable(t) == [kind |-> "DropTable", table |-> t]
AddColumn(t, c, f) == [kind |-> "AddColumn", table |-> t, column |-> c, field |-> f]
RenameColumn(t, c, to) == [kind |-> "RenameColumn", table |-> t, column |-> c, to |-> to]
ChangeType(t, c, f) ==
    [kind |-> "ChangeType", table |-> t, column |-> c, type |-> f.type, maxLen |-> f.maxLen]
ChangeNullability(t, c, null) ==
    [kind |-> "ChangeNullability", table |-> t, column |-> c, nullable |-> null]
ColumnOp(kind, t, c) == [kind |-> kind, table |-> t, column |-> c]

(* What Describe names, and the file's slug is made of. *)
Describe(op) ==
    IF op.kind \in {"CreateTable", "DropTable"} THEN <<op.kind, op.table>>
    ELSE IF op.kind = "RenameColumn" THEN <<op.kind, op.table, op.column, op.to>>
    ELSE <<op.kind, op.table, op.column>>

(***************************************************************************)
(* Diff.  The alterations of one surviving table carry the rank that       *)
(* orders them: constraints and indexes go before the columns they stand   *)
(* on, and come back after the columns they need.                          *)
(***************************************************************************)
Ranks == [DropIndex |-> 0, DropUnique |-> 1, DropPrimaryKey |-> 2, DropColumn |-> 3,
          ChangeType |-> 4, ChangeNullability |-> 5, AddColumn |-> 6,
          AddPrimaryKey |-> 7, AddUnique |-> 8, AddIndex |-> 9]

(* Mutant of Alters: flags are not compared. *)
AltersBlind(t, was, now) ==
    LET kept == DOMAIN was \cap DOMAIN now
    IN {AddColumn(t, c, now[c]) : c \in DOMAIN now \ kept}
         \cup {ColumnOp("DropColumn", t, c) : c \in DOMAIN was \ kept}
         \cup {ChangeType(t, c, now[c]) : c \in {d \in kept :
                 \/ was[d].type # now[d].type
                 \/ was[d].maxLen # now[d].maxLen}}

(* The operations, before they are put in order. *)
Alters(t, was, now) ==
    LET kept == DOMAIN was \cap DOMAIN now
        Flag(on, off, F(_)) ==
            {ColumnOp(off, t, c) : c \in {d \in kept : F(was[d]) /\ ~F(now[d])}}
              \cup {ColumnOp(on, t, c) : c \in {d \in kept : ~F(was[d]) /\ F(now[d])}}
    IN Flag("AddIndex", "DropIndex", LAMBDA f : f.index)
         \cup Flag("AddUnique", "DropUnique", LAMBDA f : f.unique)
         \cup Flag("AddPrimaryKey", "DropPrimaryKey", LAMBDA f : f.primaryKey)
         \cup {ChangeType(t, c, now[c]) : c \in {d \in kept :
                 was[d].type # now[d].type \/ was[d].maxLen # now[d].maxLen}}
         \cup {ChangeNullability(t, c, now[c].nullable) : c \in {d \in kept :
                 was[d].nullable # now[d].nullable}}
         \cup {AddColumn(t, c, now[c]) : c \in DOMAIN now \ kept}
         \cup {ColumnOp("DropColumn", t, c) : c \in DOMAIN was \ kept}

(* By rank, then by column; a rank and a column name at most one operation. *)
InOrder(alters) ==
    LET Runs(r) == {op \in alters : Ranks[op.kind] = r}
        Columns(r) == Sorted({op.column : op \in Runs(r)})
        Ranked(r) == [i \in DOMAIN Columns(r) |->
                        CHOOSE op \in Runs(r) : op.column = Columns(r)[i]]
    IN FlattenSeq([r \in 1..10 |-> Ranked(r - 1)])

Diff(before, after) ==
    LET new == Sorted(DOMAIN after \ DOMAIN before)
        kept == Sorted(DOMAIN after \cap DOMAIN before)
        gone == Sorted(DOMAIN before \ DOMAIN after)
    IN [i \in DOMAIN new |-> CreateTable(new[i], after[new[i]].fields)]
         \o FlattenSeq([i \in DOMAIN kept |->
              InOrder(Alters(kept[i], before[kept[i]].fields, after[kept[i]].fields))])
         \o [i \in DOMAIN gone |-> DropTable(gone[i])]

(***************************************************************************)
(* What a dialect renders.  PostgreSQL renders every operation; SQLite     *)
(* refuses what its ALTER TABLE cannot do in place.                        *)
(***************************************************************************)
PostgresRenders(op) == op.kind \in DOMAIN Ranks \cup {"CreateTable", "DropTable", "RenameColumn"}

SQLiteRenders(op) ==
    \/ op.kind \in {"CreateTable", "DropTable", "RenameColumn", "AddIndex", "DropIndex"}
    \/ op.kind = "AddColumn" /\ op.field.nullable /\ ~op.field.primaryKey /\ ~op.field.unique

(* dialectFor: the driver of the configured database picks the dialect. *)
Renders(dialect, op) ==
    IF dialect = "postgres" THEN PostgresRenders(op) ELSE SQLiteRenders(op)

(* invert: the operation that undoes op, from the recorded state before it. *)
Invert(op, before) ==
    LET was == before[op.table].fields
        Other == [AddUnique |-> "DropUnique", DropUnique |-> "AddUnique",
                  AddIndex |-> "DropIndex", DropIndex |-> "AddIndex",
                  AddPrimaryKey |-> "DropPrimaryKey", DropPrimaryKey |-> "AddPrimaryKey"]
    IN CASE op.kind = "CreateTable" -> DropTable(op.table)
         [] op.kind = "DropTable" -> CreateTable(op.table, was)
         [] op.kind = "AddColumn" -> ColumnOp("DropColumn", op.table, op.column)
         [] op.kind = "DropColumn" -> AddColumn(op.table, op.column, was[op.column])
         [] op.kind = "RenameColumn" -> RenameColumn(op.table, op.to, op.column)
         [] op.kind = "ChangeType" -> ChangeType(op.table, op.column, was[op.column])
         [] op.kind = "ChangeNullability" ->
              ChangeNullability(op.table, op.column, was[op.column].nullable)
         [] OTHER -> ColumnOp(Other[op.kind], op.table, op.column)

(* rawInverse: a refused inverse is still written out when it drops a       *)
(* column the migration added.                                             *)
Reverses(dialect, op, before) ==
    Renders(dialect, Invert(op, before)) \/ op.kind = "AddColumn"

(***************************************************************************)
(* The database (external).  s is [ok, tables]; a statement whose object   *)
(* is missing, or already there, fails and so does everything after it.    *)
(* SQLite drops no column that an index, a UNIQUE or a key stands on.      *)
(***************************************************************************)

(* ALTER COLUMN ... TYPE is written without USING, so PostgreSQL converts   *)
(* by the casts it applies on assignment, rows or no rows: between the      *)
(* numeric types, and to a string from anything.  SQLite is given none.     *)
Converts(from, to) ==
    \/ from = to
    \/ to = "string"
    \/ {from, to} \subseteq {"int", "int64", "float"}

Runnable(dialect, tables, op) ==
    LET here == op.table \in DOMAIN tables
        fields == tables[op.table]
        has == op.column \in DOMAIN fields
        f == fields[op.column]
        keyed == \E c \in DOMAIN fields : fields[c].primaryKey
    IN CASE op.kind = "CreateTable" -> ~here
         [] op.kind = "DropTable" -> here
         [] op.kind = "AddColumn" -> here /\ ~has /\ (op.field.primaryKey => ~keyed)
         [] op.kind = "DropColumn" ->
              here /\ has /\ (dialect = "sqlite" => ~(f.index \/ f.unique \/ f.primaryKey))
         [] op.kind = "RenameColumn" -> here /\ has /\ op.to \notin DOMAIN fields
         [] op.kind = "ChangeType" -> here /\ has /\ Converts(f.type, op.type)
         [] op.kind = "ChangeNullability" -> here /\ has /\ (op.nullable => ~f.primaryKey)
         [] op.kind = "AddUnique" -> here /\ has /\ ~f.unique
         [] op.kind = "DropUnique" -> here /\ has /\ f.unique
         [] op.kind = "AddIndex" -> here /\ has /\ ~f.index
         [] op.kind = "DropIndex" -> here /\ has /\ f.index
         [] op.kind = "AddPrimaryKey" -> here /\ has /\ ~keyed
         [] op.kind = "DropPrimaryKey" -> here /\ has /\ f.primaryKey

Altered(fields, op) ==
    LET c == op.column
    IN CASE op.kind = "AddColumn" ->
              [d \in DOMAIN fields \cup {c} |-> IF d = c THEN op.field ELSE fields[d]]
         [] op.kind = "DropColumn" -> [d \in DOMAIN fields \ {c} |-> fields[d]]
         [] op.kind = "RenameColumn" ->
              [d \in (DOMAIN fields \ {c}) \cup {op.to} |->
                 IF d = op.to THEN fields[c] ELSE fields[d]]
         [] op.kind = "ChangeType" ->
              [fields EXCEPT ![c].type = op.type, ![c].maxLen = op.maxLen]
         [] op.kind = "ChangeNullability" -> [fields EXCEPT ![c].nullable = op.nullable]
         [] op.kind \in {"AddUnique", "DropUnique"} ->
              [fields EXCEPT ![c].unique = (op.kind = "AddUnique")]
         [] op.kind \in {"AddIndex", "DropIndex"} ->
              [fields EXCEPT ![c].index = (op.kind = "AddIndex")]
         [] op.kind = "AddPrimaryKey" ->
              [fields EXCEPT ![c].primaryKey = TRUE, ![c].nullable = FALSE]
         [] op.kind = "DropPrimaryKey" -> [fields EXCEPT ![c].primaryKey = FALSE]

Exec(dialect, s, op) ==
    LET T == DOMAIN s.tables
    IN IF ~s.ok \/ ~Runnable(dialect, s.tables, op)
       THEN [s EXCEPT !.ok = FALSE]
       ELSE [s EXCEPT !.tables =
               CASE op.kind = "CreateTable" ->
                      [t \in T \cup {op.table} |->
                         IF t = op.table THEN op.fields ELSE s.tables[t]]
                 [] op.kind = "DropTable" -> [t \in T \ {op.table} |-> s.tables[t]]
                 [] OTHER -> [s.tables EXCEPT ![op.table] = Altered(@, op)]]

(* Executing a list of operations, in order. *)
ExecAll(dialect, s, ops) == FoldLeft(LAMBDA r, op : Exec(dialect, r, op), s, ops)
=============================================================================
