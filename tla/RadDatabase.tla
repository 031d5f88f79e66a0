------------------------------ MODULE RadDatabase ------------------------------
(***************************************************************************)
(* radlib's database interface: the row descriptions of raddatabase.c and  *)
(* the two engines behind one header, postgresql (pg_database.c) and mysql *)
(* (my_database.c).  One client holds one connection, edits one row        *)
(* description and issues the table calls of raddatabase.h.  A query is    *)
(* what the code prints into its query buffer, as records; the server is   *)
(* external, and a call that fails may fail after the server has done its  *)
(* part.  INT, BIGINT, DOUBLE and CHAR columns are modelled; DATETIME is   *)
(* CHAR with another flag, and FLOAT prints like DOUBLE.                   *)
(*                                                                         *)
(* What the code prints need not be read as what it means.  A text in      *)
(* double quotes is a column's name to postgresql.  A text with a quote or *)
(* a backslash in it, a text that its column is too short for and a number *)
(* that %f rounds are refused or taken for another value: Reads.  Not      *)
(* modelled: a text whose quotes make SQL of the rest of it, a statement   *)
(* longer than the query buffer, and blanks at the end of a CHAR.          *)
(***************************************************************************)
EXTENDS Integers, Sequences, FiniteSets, SequencesExt, FiniteSetsExt, Functions

CONSTANTS
    DbEngines,              \* {"pg", "my"}
    TableDescrs,            \* row descriptions tried with raddatabaseTableCreate
    DbVals,                 \* values of the columns: small positive numbers
    TextOf,                 \* what a value is as a text
    Reads,                  \* what the server takes the literal of a text or a DOUBLE for
    Lengths,                \* lengths of the CHAR values the client sets
    SetIds,                 \* addresses of result sets
    MaxDbOps                \* bound on the calls of a behaviour

\* A field of a row description: what FIELD_ID points to.
\* llvalue is the dvalue of a DOUBLE.
Traits == {"INT", "BIGINT", "DOUBLE", "STRING", "NOT_NULL", "PRI_KEY", "UNIQUE_INDEX", "INDEX",
           "IS_NULL", "DISPLAY"}
Field == [name : STRING, type : SUBSET Traits, ivalue : Int, llvalue : Int, cvalue : Int,
          room : Nat, cvalLength : Nat]

Unreadable == -3            \* a literal that makes the statement an error

ASSUME DbAssumption ==
    /\ TableDescrs \subseteq Seq(Field)
    /\ DbEngines \subseteq {"pg", "my"}
    /\ DbVals \subseteq Nat \ {0} /\ Lengths \subseteq Nat \ {0}
    /\ TextOf \in [DbVals -> STRING] /\ Reads \in [DbVals -> SUBSET (DbVals \cup {Unreadable})]
    /\ MaxDbOps \in Nat

VARIABLES
    engine,                 \* which xx_database.c is linked
    conn,                   \* the connection is open
    table,                  \* server: <<>> or [cols, rows] as a one-element sequence
    resSet,                 \* id->resSet: an element of SetIds or NoResults
    sets,                   \* live result sets: id -> [names, where, rows, wanted]
    held,                   \* result sets the client got and has not released
    intended,               \* history: the values the client means the row to have, and their kinds
    userRow,                \* the client's row description: a sequence of fields
    overrun,                \* a strcpy went past its buffer or through NULL
    staleWhere,             \* what the stack left in where[] by the last call
    dbLast,                 \* the last table call: what it was given and what it returned
    dbOps

dbVars == <<engine, conn, table, resSet, sets, held, intended, userRow, overrun, staleWhere, dbLast, dbOps>>

NoResults == 0
SqlNull == -1               \* SQL NULL
NullText == -2              \* the text "(null)" that printf makes of a NULL pointer
NullValue == [val |-> SqlNull, kind |-> "NULL"]
NoCall == [op |-> "none", ret |-> "OK", row |-> <<>>, before |-> {}]

Rows == IF table = <<>> THEN {} ELSE table[1].rows
Columns == IF table = <<>> THEN <<>> ELSE table[1].cols
Names(cols) == [c \in DOMAIN cols |-> cols[c].name]

-----------------------------------------------------------------------------
(* Fields: raddatabase.c *)

Kinds == {"INT", "BIGINT", "DOUBLE", "STRING"}

\* FIELD_TYPE_CLEAR keeps the high byte only, so that the traits go as well.
HighByte == {"IS_NULL", "DISPLAY"}
SetType(f, kind) == [f EXCEPT !.type = (@ \cap HighByte) \cup {kind}]

FieldSetIntValue(f, v) ==
    SetType([f EXCEPT !.ivalue = v, !.type = @ \ {"IS_NULL"}], "INT")
FieldSetWide(f, v, kind) ==
    SetType([f EXCEPT !.llvalue = v, !.type = @ \ {"IS_NULL"}], kind)
FieldSetBigIntValue(f, v) == FieldSetWide(f, v, "BIGINT")
FieldSetDoubleValue(f, v) == FieldSetWide(f, v, "DOUBLE")

\* The buffer grows only when the recorded length is too short.
Room(f, len) == IF f.cvalLength < len THEN len + 1 ELSE f.room
StrcpyFits(f, len) == Room(f, len) > len
FieldSetCharValue(f, v, len) ==
    SetType([f EXCEPT !.cvalue = v, !.type = @ \ {"IS_NULL"}, !.cvalLength = len,
                      !.room = Room(f, len)], "STRING")

FieldSetToNull(f) == [f EXCEPT !.type = @ \cup {"IS_NULL"}]

IsNull(f) == "IS_NULL" \in f.type
\* What the printf of a field's value writes: the chain of ifs on its type.
PrintedAs(f) == IF "INT" \in f.type THEN "INT"
                ELSE IF "BIGINT" \in f.type THEN "BIGINT"
                ELSE IF "DOUBLE" \in f.type THEN "DOUBLE" ELSE "STRING"
Printed(f) == CASE PrintedAs(f) = "INT" -> f.ivalue
                [] PrintedAs(f) \in {"BIGINT", "DOUBLE"} -> f.llvalue
                [] OTHER -> IF f.room = 0 THEN NullText ELSE f.cvalue

NewField(name, type, len) ==
    [name |-> name, type |-> type, ivalue |-> 0, llvalue |-> 0, cvalue |-> NullText,
     room |-> 0, cvalLength |-> len]

-----------------------------------------------------------------------------
(* The server, as the code uses it: external.  A clause is what a call      *)
(* prints for a column: a value of a kind, a STRING in double quotes.       *)

\* What the literal of a clause may be taken for.
ReadAs(c) == IF c.kind \in {"INT", "BIGINT"} \/ c.val \notin DbVals THEN {c.val} ELSE Reads[c.val]
Readings(clauses) ==
    {m \in [{c.col : c \in clauses} -> UNION {ReadAs(c) : c \in clauses}] :
        \A c \in clauses : m[c.col] \in ReadAs(c)}

\* postgresql takes "text" for a column, which must be one of the same sort.
ReadsColumn(c) == engine = "pg" /\ c.kind = "STRING"
IsNumber(col) == col.type \cap {"INT", "BIGINT", "DOUBLE"} # {}
Named(c) == {n \in DOMAIN Columns : /\ c.val \in DbVals /\ Columns[n].name = TextOf[c.val]
                                    /\ IsNumber(Columns[n]) = IsNumber(Columns[c.col])}
Accepts(clauses, m) ==
    table # <<>> /\ \A c \in clauses : IF ReadsColumn(c) THEN Named(c) # {} ELSE m[c.col] # Unreadable

\* What a clause gives for a row, and which rows a condition takes.
ValueFor(r, c, m) == IF ReadsColumn(c) THEN r[CHOOSE n \in Named(c) : TRUE] ELSE m[c.col]
RowMatches(r, conds, m) == \A c \in conds : r[c.col] # SqlNull /\ r[c.col] = ValueFor(r, c, m)

\* A NULL for a NOT NULL column is an error.
Refused(r) == \E c \in DOMAIN r : r[c] = SqlNull /\ "NOT_NULL" \in (Columns[c]).type

-----------------------------------------------------------------------------
(* raddatabaseQuery, once per engine: the outcomes of one call.  answers is *)
(* what the server may make of the statement, the table after it and <<>>   *)
(* or the rows of a result; none if it refuses the statement.               *)

Outcome(t, r, ss, ret) == [table |-> t, resSet |-> r, sets |-> ss, ret |-> ret]
With(rows) == IF table = <<>> THEN <<>> ELSE <<[table[1] EXCEPT !.rows = rows]>>
Command(t) == [table |-> t, found |-> <<>>]

\* A result set came back and is wanted: malloc, processResults.
KeepResults(t, found) ==
    {Outcome(t, s, [x \in DOMAIN sets \cup {s} |-> IF x = s THEN found ELSE sets[x]], "OK") :
        s \in SetIds \ DOMAIN sets}
    \cup {Outcome(t, NoResults, sets, "ERROR")}

\* What the call makes of an answer; PGRES_COMMAND_OK is one without rows.
Answered(a, createResults) ==
    IF a.found = <<>>
    THEN {Outcome(a.table, NoResults, sets, IF createResults THEN "ERROR" ELSE "OK")}
    ELSE IF ~createResults THEN {Outcome(a.table, NoResults, sets, "OK")}
    ELSE KeepResults(a.table, a.found[1])

PgQuery(answers, createResults) ==
    {Outcome(table, resSet, sets, "ERROR"),                 \* strlen (query): id->resSet stays
     Outcome(table, NoResults, sets, "ERROR")}              \* PQexec, PQresultStatus
    \cup {Outcome(a.table, NoResults, sets, "ERROR") : a \in answers} \* the answer is lost on its way
    \cup UNION {Answered(a, createResults) : a \in answers}

MyQuery(answers, createResults) ==
    {Outcome(table, resSet, sets, "ERROR"),                 \* strlen (query)
     Outcome(table, NoResults, sets, "ERROR")}              \* mysql_query
    \cup {Outcome(a.table, NoResults, sets, "ERROR") : a \in answers} \* its answer, mysql_store_result
    \cup UNION {Answered(a, createResults) : a \in answers}

raddatabaseQuery(answers, createResults) ==
    IF engine = "pg" THEN PgQuery(answers, createResults) ELSE MyQuery(answers, createResults)

\* processResults: the generic row of a server's row, a NULL by its flag only.
PgResultRow(r) ==
    [c \in DOMAIN r |->
        LET f == NewField(Columns[c].name, {}, 0) IN
        IF r[c] = SqlNull THEN [f EXCEPT !.type = {"IS_NULL"} \cup (Columns[c].type \cap Kinds)]
        ELSE IF "INT" \in Columns[c].type THEN FieldSetIntValue(f, r[c])
        ELSE IF "BIGINT" \in Columns[c].type THEN FieldSetBigIntValue(f, r[c])
        ELSE IF "DOUBLE" \in Columns[c].type THEN FieldSetDoubleValue(f, r[c])
        ELSE FieldSetCharValue(f, r[c], 1)]

\* mysql's takes everything that is no number for a string.
MyResultRow(r) ==
    [c \in DOMAIN r |->
        LET f == NewField(Columns[c].name, {}, 0)
            number == Columns[c].type \cap {"INT", "BIGINT", "DOUBLE"}
            kind == IF number = {} THEN {"STRING"} ELSE number
        IN  IF r[c] = SqlNull THEN [f EXCEPT !.type = {"IS_NULL"} \cup kind]
            ELSE IF kind = {"INT"} THEN FieldSetIntValue(f, r[c])
            ELSE IF kind = {"BIGINT"} THEN FieldSetBigIntValue(f, r[c])
            ELSE IF kind = {"DOUBLE"} THEN FieldSetDoubleValue(f, r[c])
            ELSE FieldSetCharValue(f, r[c], 1)]

ResultRow(r) == IF engine = "pg" THEN PgResultRow(r) ELSE MyResultRow(r)

-----------------------------------------------------------------------------
(* The clauses the table calls print from a row description *)

Clause(row, c) == [col |-> c, val |-> Printed(row[c]), kind |-> PrintedAs(row[c])]

\* One condition per field whose value is not NULL.
ConditionsOnAll(row) == {Clause(row, c) : c \in DOMAIN row}
Conditions(row) == {Clause(row, c) : c \in {i \in DOMAIN row : ~IsNull(row[i])}}

\* raddatabaseTableModifyRows knows INT and prints the string of the rest.
ModifyConditions(row) ==
    {[col |-> c, kind |-> IF "INT" \in row[c].type THEN "INT" ELSE "STRING",
      val |-> IF "INT" \in row[c].type THEN row[c].ivalue
              ELSE IF row[c].room = 0 THEN 0 ELSE row[c].cvalue] :   \* "(null)" is the number 0
        c \in {i \in DOMAIN row : ~IsNull(row[i])}}

\* What UPDATE sets: a NULL field is set to NULL and then to its value again.
Assignments(row) == {Clause(row, c) : c \in DOMAIN row}
Twice(row) == \E c \in DOMAIN row : IsNull(row[c])

NullForNotNull(row) == \E c \in DOMAIN row : {"NOT_NULL", "IS_NULL"} \subseteq row[c].type
AllNull(row) == \A c \in DOMAIN row : IsNull(row[c])

\* A where[] that nothing is printed into is what the stack holds.
WhereOf(conds) == IF conds = {} THEN staleWhere ELSE conds

\* The rows that a condition takes, in each way that the server may read it;
\* an empty one is a syntax error, one on columns that are not there refused.
Matched(where) ==
    IF where = {} \/ \E c \in where : c.col \notin DOMAIN Columns THEN {}
    ELSE {{r \in Rows : RowMatches(r, where, m)} : m \in {x \in Readings(where) : Accepts(where, x)}}

-----------------------------------------------------------------------------
(* The calls *)

Call == conn /\ dbOps < MaxDbOps /\ dbOps' = dbOps + 1

Apply(o, op) ==
    /\ table' = o.table /\ resSet' = o.resSet /\ sets' = o.sets
    /\ dbLast' = [op |-> op, ret |-> o.ret, row |-> intended, before |-> Rows]

Rejected == Outcome(table, resSet, sets, "ERROR")

\* raddatabaseOpen; postgresql insists on a database name.
PgOpen(dbName) == /\ ~conn /\ dbName /\ conn' \in BOOLEAN
MyOpen(dbName) == /\ ~conn /\ conn' \in BOOLEAN
raddatabaseOpen ==
    /\ dbOps < MaxDbOps /\ dbOps' = dbOps + 1
    /\ \E dbName \in BOOLEAN : \/ engine = "pg" /\ PgOpen(dbName)
                               \/ engine = "my" /\ MyOpen(dbName)
    /\ UNCHANGED <<engine, table, resSet, sets, held, intended, userRow, overrun, staleWhere, dbLast>>

ReleaseSet(s) == /\ sets' = Restrict(sets, DOMAIN sets \ {s})
                 /\ resSet' = NoResults

\* raddatabaseClose releases a result set that the connection still names.
\* The client closes when it has given back what it got.
PgClose == IF resSet # NoResults THEN ReleaseSet(resSet) ELSE UNCHANGED <<sets, resSet>>
MyClose == IF resSet # NoResults THEN ReleaseSet(resSet) ELSE UNCHANGED <<sets, resSet>>
raddatabaseClose ==
    /\ Call /\ held = {}
    /\ conn' = FALSE
    /\ IF engine = "pg" THEN PgClose ELSE MyClose
    /\ UNCHANGED <<engine, table, held, intended, userRow, overrun, staleWhere, dbLast>>

\* raddatabaseTableCreate checks the description before it prints it.
PgColumnsOK(d) ==
    /\ \A c \in DOMAIN d : /\ d[c].name # "" /\ d[c].type # {}
                           /\ "STRING" \in d[c].type => d[c].cvalLength # 0
    /\ Cardinality({c \in DOMAIN d : "PRI_KEY" \in d[c].type}) <= 1
MyColumnsOK(d) ==
    /\ \A c \in DOMAIN d : /\ d[c].name # "" /\ d[c].type # {}
                           /\ "STRING" \in d[c].type => d[c].cvalLength # 0
    /\ Cardinality({c \in DOMAIN d : "PRI_KEY" \in d[c].type}) <= 1

raddatabaseTableCreate(d) ==
    /\ Call
    /\ LET ok == IF engine = "pg" THEN PgColumnsOK(d) ELSE MyColumnsOK(d)
           created == IF table # <<>> THEN {} ELSE {Command(<<[cols |-> d, rows |-> {}]>>)}
       IN  \E o \in IF ok THEN raddatabaseQuery(created, FALSE) ELSE {Rejected} : Apply(o, "create")
    /\ UNCHANGED <<engine, conn, held, intended, userRow, overrun, staleWhere>>

raddatabaseTableDelete ==
    /\ Call
    /\ \E o \in raddatabaseQuery(IF table = <<>> THEN {} ELSE {Command(<<>>)}, FALSE) : Apply(o, "drop")
    /\ UNCHANGED <<engine, conn, held, intended, userRow, overrun, staleWhere>>

raddatabaseTableTruncate ==
    /\ Call
    /\ \E o \in raddatabaseQuery(IF table = <<>> THEN {} ELSE {Command(With({}))}, FALSE) :
         Apply(o, "truncate")
    /\ UNCHANGED <<engine, conn, held, intended, userRow, overrun, staleWhere>>

\* raddatabaseTableDescriptionGet: every value NULL until it is set.
PgDescription == [c \in DOMAIN Columns |->
    NewField(Columns[c].name, (Columns[c].type \cap (Kinds \cup {"NOT_NULL"})) \cup {"IS_NULL"}, 0)]

\* mysql's compares the type with "INT" where servers say "int(11)", and
\* takes for NOT NULL a NULL pointer where servers say "NO".
MyDescription(width) == [c \in DOMAIN Columns |->
    NewField(Columns[c].name,
             {"IS_NULL"} \cup IF width THEN {"STRING"} ELSE Columns[c].type \cap Kinds, 0)]

raddatabaseTableDescriptionGet ==
    /\ Call /\ table # <<>>
    /\ \/ engine = "pg" /\ userRow' = PgDescription /\ resSet' = NoResults
       \/ engine = "my" /\ (\E w \in BOOLEAN : userRow' = MyDescription(w)) /\ UNCHANGED resSet
    /\ intended' = [c \in DOMAIN Columns |-> NullValue]
    /\ UNCHANGED <<engine, conn, table, sets, held, overrun, staleWhere, dbLast>>

-----------------------------------------------------------------------------
(* Row calls: the client gives a description of this table, with values.    *)

Described == userRow # <<>> /\ Names(userRow) = Names(Columns)

RowSays(row) == [c \in DOMAIN row |-> IF IsNull(row[c]) THEN SqlNull ELSE Printed(row[c])]
\* The row that the server makes of the values it reads.
InsertedRow(row, m) == [c \in DOMAIN row |-> IF IsNull(row[c]) THEN SqlNull ELSE m[c]]

Inserted(row) ==
    IF AllNull(row) \/ table = <<>> THEN {}
    ELSE {Command(With(Rows \cup {InsertedRow(row, m)})) :
            m \in {x \in Readings(Conditions(row)) :
                     /\ \A c \in DOMAIN x : x[c] # Unreadable
                     /\ ~Refused(InsertedRow(row, x))}}

\* INSERT INTO t (c, ..) VALUES (v, 's', ..): strings in single quotes.
PgInsertRow(row) ==
    IF NullForNotNull(row) THEN {Rejected} ELSE raddatabaseQuery(Inserted(row), FALSE)

\* INSERT INTO t SET c = v, c = "s", ..
MyInsertRow(row) ==
    IF NullForNotNull(row) THEN {Rejected} ELSE raddatabaseQuery(Inserted(row), FALSE)

raddatabaseTableInsertRow ==
    /\ Call /\ Described
    /\ \E o \in IF engine = "pg" THEN PgInsertRow(userRow) ELSE MyInsertRow(userRow) :
         Apply(o, "insert")
    /\ UNCHANGED <<engine, conn, held, intended, userRow, overrun, staleWhere>>

\* DELETE FROM t WHERE ..
Deleted(where) == {Command(With(Rows \ taken)) : taken \in Matched(where)}
PgDeleteRows(row) == raddatabaseQuery(Deleted(Conditions(row)), FALSE)
MyDeleteRows(row) == raddatabaseQuery(Deleted(Conditions(row)), FALSE)

raddatabaseTableDeleteRows ==
    /\ Call /\ Described
    /\ \E o \in IF engine = "pg" THEN PgDeleteRows(userRow) ELSE MyDeleteRows(userRow) :
         Apply(o, "delete")
    /\ UNCHANGED <<engine, conn, held, intended, userRow, overrun, staleWhere>>

\* SELECT .. WHERE ..; the client gets the result set at once.
ResultSet(names, where, taken) ==
    [names |-> names, where |-> where, wanted |-> taken, rows |-> {ResultRow(r) : r \in taken}]
Selected(names, where) ==
    {[table |-> table, found |-> <<ResultSet(names, where, taken)>>] : taken \in Matched(where)}
PgQueryRow(row) == raddatabaseQuery(Selected(Names(row), WhereOf(Conditions(row))), TRUE)
MyQueryRow(row) == raddatabaseQuery(Selected(Names(row), WhereOf(Conditions(row))), TRUE)

raddatabaseTableQueryRow ==
    /\ Call /\ Described
    /\ \E o \in IF engine = "pg" THEN PgQueryRow(userRow) ELSE MyQueryRow(userRow) :
         /\ Apply(o, "query")
         /\ held' = IF o.ret = "OK" THEN held \cup {o.resSet} ELSE held
    /\ staleWhere' = WhereOf(Conditions(userRow))
    /\ UNCHANGED <<engine, conn, intended, userRow, overrun>>

\* raddatabaseReleaseResults forgets id->resSet whichever set it is given.
raddatabaseReleaseResults(s) ==
    /\ Call /\ s \in held
    /\ ReleaseSet(s) /\ held' = held \ {s}
    /\ UNCHANGED <<engine, conn, table, intended, userRow, overrun, staleWhere, dbLast>>

\* raddatabaseRefreshResults releases the set and runs its query again.
raddatabaseRefreshResults(s) ==
    LET left == Restrict(sets, DOMAIN sets \ {s}) IN
    /\ Call /\ s \in held
    /\ \/ /\ Names(Columns) = sets[s].names
          /\ \E taken \in Matched(sets[s].where) :
               sets' = [x \in DOMAIN left \cup {s} |->
                          IF x # s THEN left[x] ELSE ResultSet(sets[s].names, sets[s].where, taken)]
          /\ resSet' = s /\ UNCHANGED held
       \/ sets' = left /\ resSet' = NoResults /\ held' = held \ {s}
    /\ UNCHANGED <<engine, conn, table, intended, userRow, overrun, staleWhere, dbLast>>

\* UPDATE t SET .. WHERE ..
Updated(r, assigned, m) ==
    [c \in DOMAIN r |-> IF \E a \in assigned : a.col = c
                        THEN ValueFor(r, CHOOSE a \in assigned : a.col = c, m) ELSE r[c]]
Modified(where, assigned) ==
    UNION {{Command(With({IF r \in taken THEN Updated(r, assigned, m) ELSE r : r \in Rows})) :
              m \in {x \in Readings(assigned) :
                       /\ Accepts(assigned, x)
                       /\ \A r \in taken : ~Refused(Updated(r, assigned, x))}} :
           taken \in Matched(where)}
PgModifyRows(match, new) ==
    IF NullForNotNull(new) THEN {Rejected}
    ELSE raddatabaseQuery(IF Twice(new) THEN {}             \* a column assigned twice is refused
                          ELSE Modified(WhereOf(ModifyConditions(match)), Assignments(new)), FALSE)
MyModifyRows(match, new) ==
    IF NullForNotNull(new) THEN {Rejected}
    ELSE raddatabaseQuery(Modified(WhereOf(ModifyConditions(match)), Assignments(new)), FALSE)

\* The client matches on the values it last read and writes the edited row.
raddatabaseTableModifyRows(r) ==
    LET match == ResultRow(r) IN
    /\ Call /\ r \in Rows /\ Described
    /\ \E o \in IF engine = "pg" THEN PgModifyRows(match, userRow) ELSE MyModifyRows(match, userRow) :
         Apply(o, "modify")
    /\ staleWhere' = WhereOf(ModifyConditions(match))
    /\ UNCHANGED <<engine, conn, held, intended, userRow, overrun>>

\* The client sets a value of its row description.
Edit(c, v, kind, f) ==
    /\ Call /\ Described /\ c \in DOMAIN userRow
    /\ userRow' = [userRow EXCEPT ![c] = f]
    /\ intended' = [intended EXCEPT ![c] = [val |-> v, kind |-> kind]]
    /\ UNCHANGED <<engine, conn, table, resSet, sets, held, staleWhere, dbLast>>
EditField(c) ==
    \/ \E v \in DbVals :
         /\ "INT" \in (Columns[c]).type /\ Edit(c, v, "INT", FieldSetIntValue(userRow[c], v))
         /\ UNCHANGED overrun
    \/ \E v \in DbVals :
         /\ "BIGINT" \in (Columns[c]).type /\ Edit(c, v, "BIGINT", FieldSetBigIntValue(userRow[c], v))
         /\ UNCHANGED overrun
    \/ \E v \in DbVals :
         /\ "DOUBLE" \in (Columns[c]).type /\ Edit(c, v, "DOUBLE", FieldSetDoubleValue(userRow[c], v))
         /\ UNCHANGED overrun
    \/ \E v \in DbVals, len \in Lengths :
         /\ "STRING" \in (Columns[c]).type
         /\ Edit(c, v, "STRING", FieldSetCharValue(userRow[c], v, len))
         /\ overrun' = (overrun \/ ~StrcpyFits(userRow[c], len))
    \/ Edit(c, SqlNull, "NULL", FieldSetToNull(userRow[c])) /\ UNCHANGED overrun

-----------------------------------------------------------------------------
DbInit ==
    /\ engine \in DbEngines /\ conn = FALSE /\ table = <<>>
    /\ resSet = NoResults /\ sets = <<>> /\ held = {} /\ userRow = <<>> /\ intended = <<>>
    /\ overrun = FALSE /\ staleWhere = {} /\ dbLast = NoCall /\ dbOps = 0

DbNext ==
    \/ raddatabaseOpen \/ raddatabaseClose
    \/ \E d \in TableDescrs : raddatabaseTableCreate(d)
    \/ raddatabaseTableDelete \/ raddatabaseTableTruncate \/ raddatabaseTableDescriptionGet
    \/ raddatabaseTableInsertRow \/ raddatabaseTableDeleteRows \/ raddatabaseTableQueryRow
    \/ \E s \in held : raddatabaseReleaseResults(s) \/ raddatabaseRefreshResults(s)
    \/ \E r \in Rows : raddatabaseTableModifyRows(r)
    \/ \E c \in DOMAIN Columns : EditField(c)

DbSpec == DbInit /\ [][DbNext]_dbVars

-----------------------------------------------------------------------------
\* What the literals of the values that a client means may be taken for, each
\* NULL or exactly the value where Reads keeps it.
MayMean(i) == IF i.kind \in {"STRING", "DOUBLE"} THEN Reads[i.val] \ {Unreadable} ELSE {i.val}
TakenFor(row) ==
    {t \in [DOMAIN row -> DbVals \cup {SqlNull}] : \A c \in DOMAIN row : t[c] \in MayMean(row[c])}

\* An insert that returned OK put one row into the table, the one that the
\* client meant wherever the literals keep its values, whichever setters and
\* type flags they went through on the way to the query text; one that
\* returned ERROR did that or nothing, on either engine.
InsertStores ==
    dbLast.op = "insert" =>
        \/ dbLast.ret = "ERROR" /\ Rows = dbLast.before
        \/ \E t \in TakenFor(dbLast.row) : Rows = dbLast.before \cup {t}

\* A text that postgresql takes for a column of the table.
NamesColumn(row) ==
    engine = "pg" /\ \E c \in DOMAIN row, n \in DOMAIN Columns :
                       row[c].kind = "STRING" /\ Columns[n].name = TextOf[row[c].val]

\* A delete that returned OK removed the rows that agree with every value the
\* client set, as the literals keep them, and no other ("only the non-NULL
\* fields will be used to match records"); one that returned ERROR did that or
\* nothing, and a description with no value set deletes nothing.  It is not so
\* on postgresql when a text that the client set is the name of a column: then
\* the rows with two equal columns go.
DeleteExact ==
    dbLast.op = "delete" /\ ~NamesColumn(dbLast.row) =>
        \/ dbLast.ret = "ERROR" /\ Rows = dbLast.before
        \/ /\ \E c \in DOMAIN dbLast.row : dbLast.row[c].kind # "NULL"
           /\ \E t \in TakenFor(dbLast.row) :
                Rows = {r \in dbLast.before : \E c \in DOMAIN t : t[c] \notin {SqlNull, r[c]}}

\* The generic rows of a live result set say what the server's rows said when
\* the query ran, NULLs included, through processResults of either engine.
ResultsFaithful ==
    \A s \in DOMAIN sets : sets[s].wanted = {RowSays(g) : g \in sets[s].rows}

\* A client that takes every result set and releases it before it closes has
\* no dangling one, and none is lost: whatever order it releases them in.
SetsOwned == DOMAIN sets = held /\ (resSet # NoResults => resSet \in held)

\* The string setters never copy past the buffer they keep.
StringsFit == ~overrun

\* A call of raddatabase.h does to the table what the client's row description
\* says, as far as its literals say it, and gives it what the table holds, in
\* memory that is its own.
StatementsMeantAndDone ==
    InsertStores /\ DeleteExact /\ ResultsFaithful /\ SetsOwned /\ StringsFit
================================================================================
