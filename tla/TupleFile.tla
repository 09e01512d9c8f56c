------------------------------- MODULE TupleFile -------------------------------
(***************************************************************************)
(* The files of `ofga tuples write --file' and of --failed-file            *)
(* (internal/command/tuple/bulkfile.go): four formats with their shapes,   *)
(* how a format is chosen, what a tuple must look like, and the file of    *)
(* failed tuples that is read again, under any name, by a re-run or by a   *)
(* query.                                                                  *)
(*                                                                         *)
(* A string is the sequence of the characters that matter: the separators  *)
(* ":" and "#", the wildcard, the space, and letters.  A file is what its  *)
(* syntax says: the entries of a document, the lines of a JSONL file or    *)
(* the header and rows of a CSV file.  A context that is an empty object   *)
(* is no context.  Not followed: byte-order marks, limits of sizes, the    *)
(* quoting that the libraries of the formats do and undo, texts of errors. *)
(***************************************************************************)
EXTENDS Naturals, Sequences, FiniteSets, SequencesExt

CONSTANTS
    InputFiles,   \* files that a user may write
    Letters,      \* the characters that only stand for themselves
    NoCondition,  \* a tuple without a condition
    Refused,      \* what a reader makes of a file that it does not accept
    Unread        \* a file that has not been written or read yet

Characters == Letters \cup {":", "#", "*", " ", "{}"}
Strings == Seq(Characters)
Tuples ==
    [user : Strings, relation : Strings, object : Strings,
     condition : {NoCondition} \cup [name : Strings, context : Strings]]

(* An entry is a bare tuple, an entry of a read export ("key", or "stamp"   *)
(* when only its timestamp is there), has an unknown field, or is a blank   *)
(* line.                                                                   *)
Forms == {"bare", "key", "stamp", "odd", "blank"}

ASSUME FileAssumption ==
    /\ Refused \notin Seq(Tuples)
    /\ \A f \in InputFiles :
          IF f.syntax = "csv"
          THEN f.header \in Seq(ToSet(f.header)) /\ f.rows \in Seq(Seq(Strings))
          ELSE f.entries \in Seq([form : Forms, tuple : Tuples])

VARIABLE bulk     \* a run, its failed file and what reads that file

--------------------------------------------------------------------------------
(* Tuples.                                                                 *)

TrimSpace(s) ==
    LET inner == {i \in DOMAIN s : s[i] # " "}
    IN  IF inner = {} THEN <<>> ELSE SubSeq(s, Min(inner), Max(inner))

Cut(s, separator) ==
    LET at == {i \in DOMAIN s : s[i] = separator}
    IN  IF at = {} THEN [before |-> s, after |-> <<>>, found |-> FALSE]
        ELSE [before |-> SubSeq(s, 1, Min(at) - 1),
              after |-> SubSeq(s, Min(at) + 1, Len(s)), found |-> TRUE]

SplitObject(s) == Cut(s, ":")

HasTypeAndID(s) == SplitObject(s).before # <<>> /\ SplitObject(s).after # <<>>

ValidUserShape(user) ==
    LET c == Cut(user, "#")
    IN  /\ HasTypeAndID(c.before)
        /\ c.found => c.after # <<>> /\ "#" \notin ToSet(c.after)

ConcreteObject(object) ==
    /\ HasTypeAndID(object)
    /\ SplitObject(object).after # <<"*">> /\ "#" \notin ToSet(object)

WellFormed(t) == ValidUserShape(t.user) /\ t.relation # <<>> /\ ConcreteObject(t.object)

Trimmed(t) ==
    [user |-> TrimSpace(t.user), relation |-> TrimSpace(t.relation),
     object |-> TrimSpace(t.object),
     condition |-> IF t.condition = NoCondition THEN NoCondition
                   ELSE [t.condition EXCEPT !.name = TrimSpace(@)]]

Acceptable(t, forDelete) ==
    /\ WellFormed(t)
    /\ t.condition # NoCondition => ~forDelete /\ t.condition.name # <<>>

--------------------------------------------------------------------------------
(* Formats.                                                                *)

Formats == {"json", "jsonl", "yaml", "csv"}

ResolveBulkFormat(ext, override) ==
    IF override # "" THEN IF override \in Formats THEN override ELSE Refused
    ELSE CASE ext \in {"jsonl", "ndjson"} -> "jsonl"
           [] ext \in {"yaml", "yml"}     -> "yaml"
           [] ext = "csv"                 -> "csv"
           [] OTHER                       -> "json"

EntriesOf(entries, forms) ==
    IF \A i \in DOMAIN entries : entries[i].form \in forms
    THEN [i \in DOMAIN entries |-> entries[i].tuple] ELSE Refused

(* The first entry tells an export from a list of tuples.                  *)
ArrayIsExport(entries) == entries # <<>> /\ entries[1].form = "key"

ParseDocument(file) ==
    CASE file.shape = "wrapped" -> EntriesOf(file.entries, {"bare"})
      [] file.shape = "array" /\ ArrayIsExport(file.entries) ->
            EntriesOf(file.entries, {"key", "stamp"})
      [] file.shape = "array" /\ ~ArrayIsExport(file.entries) ->
            EntriesOf(file.entries, {"bare"})
      [] OTHER -> Refused

(* The lines that are not blank, in their order.                           *)
Filled(lines) ==
    LET full == {i \in DOMAIN lines : lines[i].form # "blank"}
        nth(k) == CHOOSE i \in full : Cardinality({j \in full : j <= i}) = k
    IN  [k \in 1..Cardinality(full) |-> lines[nth(k)]]

ParseLines(file) == EntriesOf(Filled(file.entries), {"bare", "key"})

--------------------------------------------------------------------------------
(* CSV.                                                                    *)

CsvColumns == <<"user_type", "user_id", "user_relation", "relation",
                "object_type", "object_id", "condition_name", "condition_context">>
CsvRequired == {"user_type", "user_id", "relation", "object_type", "object_id"}

CsvHeaderIsSound(header) ==
    /\ ToSet(header) \subseteq ToSet(CsvColumns)
    /\ \A i, j \in DOMAIN header : header[i] = header[j] => i = j
    /\ CsvRequired \subseteq ToSet(header)

(* The fields of a row by their columns; a column that is not there is     *)
(* empty.                                                                  *)
Fields(header, row) ==
    [name \in ToSet(CsvColumns) |->
        IF name \in ToSet(header)
        THEN TrimSpace(row[CHOOSE i \in DOMAIN header : header[i] = name]) ELSE <<>>]

CsvRowIsSound(f) ==
    /\ \A name \in CsvRequired : f[name] # <<>>
    /\ f["condition_context"] # <<>> => f["condition_name"] # <<>>
    /\ f["condition_context"] \in {<<>>, <<"{}">>}

CsvRow(f) ==
    [user |-> f["user_type"] \o <<":">> \o f["user_id"]
                 \o (IF f["user_relation"] = <<>> THEN <<>> ELSE <<"#">> \o f["user_relation"]),
     relation |-> f["relation"],
     object |-> f["object_type"] \o <<":">> \o f["object_id"],
     condition |-> IF f["condition_name"] = <<>> THEN NoCondition
                   ELSE [name |-> f["condition_name"], context |-> f["condition_context"]]]

ParseCSV(file) ==
    IF /\ CsvHeaderIsSound(file.header)
       /\ \A i \in DOMAIN file.rows :
            /\ Len(file.rows[i]) = Len(file.header)
            /\ CsvRowIsSound(Fields(file.header, file.rows[i]))
    THEN [i \in DOMAIN file.rows |-> CsvRow(Fields(file.header, file.rows[i]))]
    ELSE Refused

--------------------------------------------------------------------------------
(* Reading.  A JSON document is a YAML document; no other file makes sense *)
(* in another format than its own.                                         *)

ParseTupleFile(file, format) ==
    CASE format = "json" /\ file.syntax = "json" -> ParseDocument(file)
      [] format = "yaml" /\ file.syntax \in {"json", "yaml"} -> ParseDocument(file)
      [] format = "jsonl" /\ file.syntax = "jsonl" -> ParseLines(file)
      [] format = "csv" /\ file.syntax = "csv" -> ParseCSV(file)
      [] OTHER -> Refused

LoadTuples(file, format, forDelete) ==
    LET raw == ParseTupleFile(file, format)
    IN  IF raw = Refused THEN Refused
        ELSE LET keys == [i \in DOMAIN raw |-> Trimmed(raw[i])]
             IN  IF keys # <<>> /\ \A i \in DOMAIN keys : Acceptable(keys[i], forDelete)
                 THEN keys ELSE Refused

(* A query that reads tuples from its stdin looks at how they begin.       *)
SniffStdinFormat(file) ==
    IF file.syntax = "json" /\ file.shape \in {"array", "wrapped"} THEN "json" ELSE "jsonl"

--------------------------------------------------------------------------------
(* Writing the failed tuples.                                              *)

SplitUser(user) ==
    LET c == Cut(user, "#")
    IN  <<SplitObject(c.before).before, SplitObject(c.before).after, c.after>>

MutantCsvFields(t) ==
    LET user == SplitUser(t.user)
        object == SplitObject(t.object)
        plain == t.condition = NoCondition \/ t.condition.context = <<>>
    IN  <<user[1], user[2], user[3], t.relation, object.before, object.after,
          IF plain THEN <<>> ELSE t.condition.name,
          IF plain THEN <<>> ELSE t.condition.context>>
CsvFields(t) ==
    LET user == SplitUser(t.user)
        object == SplitObject(t.object)
        plain == t.condition = NoCondition
    IN  <<user[1], user[2], user[3], t.relation, object.before, object.after,
          IF plain THEN <<>> ELSE t.condition.name,
          IF plain THEN <<>> ELSE t.condition.context>>

EncodeTupleFile(keys, format) ==
    LET bare == [i \in DOMAIN keys |-> [form |-> "bare", tuple |-> keys[i]]]
    IN  CASE format \in {"json", "yaml"} ->
                [syntax |-> format, shape |-> "array", entries |-> bare]
          [] format = "jsonl" -> [syntax |-> format, shape |-> "lines", entries |-> bare]
          [] format = "csv" ->
                [syntax |-> format, header |-> CsvColumns,
                 rows |-> [i \in DOMAIN keys |-> CsvFields(keys[i])]]

--------------------------------------------------------------------------------
(* A run over a file of the user's, and what is done with its failed file. *)

FileInit ==
    \E f \in InputFiles, del \in BOOLEAN :
        bulk = [file |-> f, del |-> del, format |-> Unread, keys |-> Unread,
                failed |-> Unread, saved |-> Unread, reader |-> Unread, again |-> Unread]

Extensions == Formats \cup {"ndjson", "yml", "txt"}
Overrides == Formats \cup {"", "xml"}

LoadFile ==
    /\ bulk.keys = Unread
    /\ \E ext \in Extensions, override \in Overrides :
         LET format == ResolveBulkFormat(ext, override)
         IN  bulk' = [bulk EXCEPT !.format = format,
                         !.keys = IF format = Refused THEN Refused
                                  ELSE LoadTuples(bulk.file, format, bulk.del)]

(* The tuples that failed are in the order in which they failed, and a run *)
(* without failures writes an empty file.                                  *)
SaveFailed ==
    /\ bulk.keys \notin {Unread, Refused} /\ bulk.saved = Unread
    /\ \E n \in 0..Len(bulk.keys) :
         \E order \in [1..n -> DOMAIN bulk.keys] :
           /\ \A i, j \in 1..n : order[i] = order[j] => i = j
           /\ LET failed == [i \in 1..n |-> bulk.keys[order[i]]]
              IN  bulk' = [bulk EXCEPT !.failed = failed,
                              !.saved = EncodeTupleFile(failed, bulk.format)]

(* The failed file is the input of another run, under any name.            *)
RunAgain ==
    /\ bulk.saved # Unread /\ bulk.reader = Unread
    /\ \E ext \in Extensions, override \in Overrides :
         LET format == ResolveBulkFormat(ext, override)
         IN  /\ format # Refused
             /\ bulk' = [bulk EXCEPT !.reader = format,
                            !.again = LoadTuples(bulk.saved, format, bulk.del)]

(* Or it goes to the stdin of a query.                                     *)
QueryWith ==
    /\ bulk.saved # Unread /\ bulk.reader = Unread
    /\ bulk' = [bulk EXCEPT !.reader = "stdin",
                   !.again = LoadTuples(bulk.saved, SniffStdinFormat(bulk.saved), FALSE)]

FileNext == LoadFile \/ SaveFailed \/ RunAgain \/ QueryWith

--------------------------------------------------------------------------------
(* What is sent is made of tuples, with no condition on a delete.  "It     *)
(* backs --failed-file, so the output must be directly re-runnable"        *)
(* (encodeTupleFile): read in the format it has, or by a query that sniffs *)
(* JSON or JSONL, the failed file is exactly the tuples that failed; read  *)
(* as anything else, it is refused and never taken for other tuples.       *)
ReadsBack == bulk.again = IF bulk.failed = <<>> THEN Refused ELSE bulk.failed
FailedFileReadsBack ==
    /\ bulk.keys \notin {Unread, Refused} =>
          \A i \in DOMAIN bulk.keys : Acceptable(bulk.keys[i], bulk.del)
    /\ bulk.reader # Unread =>
          \/ ReadsBack
          \/ /\ bulk.again = Refused
             /\ bulk.reader # bulk.format
             /\ bulk.reader = "stdin" => bulk.format \notin {"json", "jsonl"}
================================================================================
