---------------------------- MODULE MCSchemaEditor ----------------------------
(***************************************************************************)
(* An instance of SchemaEditor for TLC.                                    *)
(***************************************************************************)
EXTENDS SchemaEditor, TLC

Nothing == [tables |-> {}, columns |-> {}, constraints |-> {}, indexes |-> {},
            rows |-> {}]

(* "a" has a key that "b" may refer to; "b" has an index and two rows.     *)
TwoTables ==
  [tables |-> {"a", "b"},
   columns |-> {[table |-> "a", column |-> "x", type |-> "int"],
                [table |-> "b", column |-> "x", type |-> "int"]},
   constraints |-> {[kind |-> "key", name |-> "pkey", table |-> "a",
                     column |-> "x"]},
   indexes |-> {[name |-> "n", table |-> "b", column |-> "x"]},
   rows |-> {[id |-> i, table |-> "b", column |-> "x"] : i \in {1, 2}}]

BothCatalogs == {Nothing, TwoTables}

Typed(do, t, c, type) == [do |-> do, table |-> t, column |-> c, type |-> type]
Create(t, type, key, ifNotExists) ==
  [do |-> "create_table", table |-> t, column |-> "x", type |-> type,
   key |-> key, ifNotExists |-> ifNotExists]
Refer == [do |-> "add_foreign_key", name |-> "f", table |-> "b",
          column |-> "x", to |-> "a", toColumn |-> "x"]
DropOfTable(t, cascade) ==
  [do |-> "drop_table", table |-> t, cascade |-> cascade]
DropOfColumn(t, cascade) ==
  [do |-> "drop_column", table |-> t, column |-> "x", cascade |-> cascade]
Named(do, n, t) == [do |-> do, name |-> n, table |-> t]
OnColumn(do, n, t) ==
  [do |-> do, name |-> n, table |-> t, column |-> "x"]
Data(t, offset, limit) ==
  [do |-> "get_project_table_data", table |-> t, offset |-> offset,
   limit |-> limit]
Structure(t) == [do |-> "get_table_structure", table |-> t]

(* Around a foreign key from "b" to "a".                                   *)
ReferenceCommands ==
  {Refer, DropOfTable("a", FALSE), DropOfTable("a", TRUE),
   DropOfColumn("a", FALSE), Create("a", "int", TRUE, FALSE), Structure("b"),
   Named("drop_constraint", "f", "b")}

AllCommands ==
  ReferenceCommands \union
  {Create("a", "text", FALSE, TRUE), Create("b", "int", FALSE, FALSE),
   DropOfTable("b", FALSE), DropOfColumn("a", TRUE), DropOfColumn("b", FALSE),
   [do |-> "rename_table", table |-> "a", new |-> "c"],
   Structure("a"),
   Typed("add_column", "b", "y", "int"),
   Typed("alter_column_type", "a", "x", "text"),
   Typed("alter_column_type", "b", "x", "text"),
   [do |-> "rename_column", table |-> "a", column |-> "x", new |-> "y"],
   Named("drop_constraint", "pkey", "a"),
   OnColumn("add_check_constraint", "k", "b"),
   OnColumn("create_index", "n", "a"),
   [do |-> "drop_index", name |-> "n"],
   [do |-> "list_project_tables"], Data("b", 0, 1), Data("b", 1, 3),
   [do |-> "delete_project_row", table |-> "b", column |-> "x", id |-> 1]}

SchemaSymmetry == Permutations(Requests)
===============================================================================
