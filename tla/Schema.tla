------------------------------- MODULE Schema -------------------------------
(* A relational schema and the statements that change it, as far as the
   migrations under services/api/alembic/versions and the ORM models of
   study_agent/infrastructure/db/models use them: a table is the columns that
   must and may be NULL, its unique keys and its foreign keys.  Column types,
   defaults, plain indexes and constraint names are left out; a check
   constraint is no part of a table, but adding one to a table that already has
   rows is a statement, for the rows may not satisfy it.  What PostgreSQL
   refuses is part of the model (Fits). *)
EXTENDS Integers, FiniteSets, SequencesExt

(* What a foreign key does when the row it refers to is deleted. *)
Cascade  == "CASCADE"
Restricted == "RESTRICT"
SetNull  == "SET NULL"
NoAction == "NO ACTION"
Deferred == "NO ACTION DEFERRED"

Ref(cols, parent, key, rule) ==
  [cols |-> cols, parent |-> parent, key |-> key, rule |-> rule]
To(col, parent, rule) == Ref(<<col>>, parent, <<"id">>, rule)
OfCourse(rule) ==
  Ref(<<"course_id", "user_id">>, "courses", <<"id", "user_id">>, rule)

(* A reference that also compares course and owner: the row it refers to is in
   the same course. *)
Scoped(cols, parent, key, rule) ==
  LET scope == <<"course_id", "user_id">>
  IN  Ref(cols \o scope, parent, key \o scope, rule)

Key(on) == [on |-> on, when |-> "always"]
Partial(on, when) == [on |-> on, when |-> when]
Unique(sets) == {Key(on) : on \in sets}

Table(must, may, keys, refs) ==
  [must |-> must, may |-> may, keys |-> keys, refs |-> refs]
Columns(table) == table.must \cup table.may

(* The statements of a migration script. *)
Create(t, table)      == [op |-> "create", table |-> t, def |-> table]
Drop(t)               == [op |-> "drop", table |-> t]
AddColumn(t, c, kind) == [op |-> "add column", table |-> t, column |-> c, kind |-> kind]
DropColumn(t, c)      == [op |-> "drop column", table |-> t, column |-> c]
Require(t, c)         == [op |-> "require", table |-> t, column |-> c]
AddRef(t, r)          == [op |-> "add ref", table |-> t, ref |-> r]
DropRef(t, r)         == [op |-> "drop ref", table |-> t, ref |-> r]
AddKey(t, k)          == [op |-> "add key", table |-> t, key |-> k]
DropKey(t, k)         == [op |-> "drop key", table |-> t, key |-> k]
Fill(t, c)            == [op |-> "fill", table |-> t, column |-> c]
Clear(t, c)           == [op |-> "clear", table |-> t, column |-> c]
KeepNewest(t)         == [op |-> "keep newest", table |-> t]
AddCheck(t, check)    == [op |-> "add check", table |-> t, check |-> check]

Optional  == "NULL"
Defaulted == "NOT NULL with a server default"

(* The columns a reference needs exist, and it refers to a key of its parent. *)
RefFits(schema, own, r) ==
  /\ Range(r.cols) \subseteq Columns(own)
  /\ r.parent \in DOMAIN schema
  /\ Key(Range(r.key)) \in schema[r.parent].keys

(* PostgreSQL's conditions on a statement that only look at the schema. *)
SchemaFits(schema, s) ==
  IF s.op = "create"
  THEN /\ s.table \notin DOMAIN schema
       /\ \A k \in s.def.keys : k.on \subseteq Columns(s.def)
       /\ \A r \in s.def.refs :
             RefFits([t \in DOMAIN schema \cup {s.table} |->
                        IF t = s.table THEN s.def ELSE schema[t]], s.def, r)
  ELSE /\ s.table \in DOMAIN schema
       /\ LET own == schema[s.table] IN
          CASE s.op = "drop" ->
                 \A t \in DOMAIN schema \ {s.table} :
                    \A r \in schema[t].refs : r.parent # s.table
            [] s.op = "add column"  -> s.column \notin Columns(own)
            [] s.op = "drop column" -> s.column \in Columns(own)
            [] s.op \in {"require", "fill"} -> s.column \in Columns(own)
            [] s.op = "clear" -> s.column \in own.may
            [] s.op = "add ref"  -> RefFits(schema, own, s.ref)
            [] s.op = "drop ref" -> s.ref \in own.refs
            [] s.op = "add key"  -> s.key \notin own.keys /\ s.key.on \subseteq Columns(own)
            [] s.op = "drop key" ->
                 /\ s.key \in own.keys
                 /\ \A t \in DOMAIN schema : \A r \in schema[t].refs :
                       ~ (r.parent = s.table /\ Key(Range(r.key)) = s.key)
            [] OTHER -> TRUE

(* A dropped column takes the keys and references that use it with it. *)
WithoutColumn(table, c) ==
  [must |-> table.must \ {c}, may |-> table.may \ {c},
   keys |-> {k \in table.keys : c \notin k.on},
   refs |-> {r \in table.refs : c \notin Range(r.cols)}]

(* The schema after a statement. *)
Changed(schema, s) ==
  CASE s.op = "create" ->
         [t \in DOMAIN schema \cup {s.table} |-> IF t = s.table THEN s.def ELSE schema[t]]
    [] s.op = "drop" -> [t \in DOMAIN schema \ {s.table} |-> schema[t]]
    [] s.op = "add column" /\ s.kind = Optional ->
         [schema EXCEPT ![s.table].may = @ \cup {s.column}]
    [] s.op = "add column" /\ s.kind = Defaulted ->
         [schema EXCEPT ![s.table].must = @ \cup {s.column}]
    [] s.op = "drop column" -> [schema EXCEPT ![s.table] = WithoutColumn(@, s.column)]
    [] s.op = "require" ->
         [schema EXCEPT ![s.table].must = @ \cup {s.column},
                        ![s.table].may = @ \ {s.column}]
    [] s.op = "add ref"  -> [schema EXCEPT ![s.table].refs = @ \cup {s.ref}]
    [] s.op = "drop ref" -> [schema EXCEPT ![s.table].refs = @ \ {s.ref}]
    [] s.op = "add key"  -> [schema EXCEPT ![s.table].keys = @ \cup {s.key}]
    [] s.op = "drop key" -> [schema EXCEPT ![s.table].keys = @ \ {s.key}]
    [] OTHER -> schema
=============================================================================
