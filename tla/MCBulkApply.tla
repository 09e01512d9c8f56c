----------------------------- MODULE MCBulkApply -----------------------------
(* A small instance of BulkRun.  Requests: windows of one chunk of three    *)
(* tuples, and of two parallel chunks of two, with and without the ignore   *)
(* flag.  Files: every user of at most five characters and every object of  *)
(* at most three, in entries and in rows; pairs of entries in all shapes.   *)
EXTENDS BulkRun, TLC

TwoLayouts ==
    {[chunk |-> l[1], parallel |-> l[2], ignore |-> i] :
        l \in {<<3, 1>>, <<2, 2>>}, i \in BOOLEAN}

(* Whether a field of a row has a space beside a separator that it contains. *)
CONSTANT InnerSpaces
Words(n) == UNION {[1..k -> {"x", ":", "#"}] : k \in 0..n}
Padded(S) == S \cup {<<" ">> \o s \o <<" ">> : s \in S}

Tuple(u, r, o, c) == [user |-> u, relation |-> r, object |-> o, condition |-> c]
Usual == Tuple(<<"x", ":", "x">>, <<"r">>, <<"y", ":", "x">>, NoCondition)
Conditions ==
    {NoCondition} \cup [name : Padded({<<>>, <<"c">>}), context : {<<>>, <<"{}">>}]
SomeTuples ==
    {[Usual EXCEPT !.user = u] : u \in Words(5) \cup {<<"x", ":", "*">>, <<" ", "x", ":", "x", " ">>}}
        \cup {[Usual EXCEPT !.object = o] : o \in Padded(Words(3)) \cup {<<"x", ":", "*">>}}
        \cup {[Usual EXCEPT !.relation = r] : r \in Padded({<<>>, <<"r">>})}
        \cup {[Usual EXCEPT !.condition = c] : c \in Conditions}
FewTuples ==
    {Usual, [Usual EXCEPT !.user = <<"x", ":", "x", "#", "x">>], [Usual EXCEPT !.user = <<"x">>],
     [Usual EXCEPT !.condition = [name |-> <<"c">>, context |-> <<"{}">>]]}

Entry(form, t) == [form |-> form, tuple |-> t]
Nothing == Tuple(<<>>, <<>>, <<>>, NoCondition)
Entries(forms, ts) ==
    {Entry(f, t) : f \in forms \ {"stamp", "blank"}, t \in ts}
        \cup {Entry(f, Nothing) : f \in forms \cap {"stamp", "blank"}}
DocumentForms == Forms \ {"blank"}

Lists(forms) ==
    {<<>>} \cup {<<e>> : e \in Entries({"bare"}, SomeTuples)}
        \cup [1..2 -> Entries(forms, FewTuples)]
Documents ==
    [syntax : {"json", "yaml"}, shape : {"array", "wrapped", "other"}, entries : Lists(DocumentForms)]
LineFiles ==
    [syntax : {"jsonl"}, shape : {"lines"}, entries : Lists(Forms)]

UsualRow == <<<<"x">>, <<"x">>, <<>>, <<"r">>, <<"y">>, <<"x">>, <<>>, <<>>>>
Rows ==
    {[UsualRow EXCEPT ![1] = t, ![2] = i, ![3] = r] :
        t \in Padded(Words(1)) \cup Words(2), i \in Padded(Words(1)) \cup Words(2),
        r \in Padded(Words(1))}
    \cup {[UsualRow EXCEPT ![5] = t, ![6] = i] : t, i \in Padded(Words(1)) \cup Words(2)}
    \cup {[UsualRow EXCEPT ![i] = <<"*">>] : i \in {2, 6}}
    \cup {[UsualRow EXCEPT ![7] = n, ![8] = c] :
            n \in Padded({<<>>, <<"c">>}), c \in {<<>>, <<"{}">>, <<"5">>}}
    \cup (IF InnerSpaces THEN {[UsualRow EXCEPT ![2] = <<"x", " ", "#", "x">>]} ELSE {})
    \cup {[UsualRow EXCEPT ![4] = <<" ">>], Front(UsualRow)}
CsvFile(header, rows) == [syntax |-> "csv", header |-> header, rows |-> rows]
Headers ==
    {CsvColumns, Reverse(CsvColumns), Front(CsvColumns), Tail(CsvColumns),
     CsvColumns \o <<"other">>, CsvColumns \o <<"relation">>}
CsvFiles ==
    {CsvFile(CsvColumns, <<r>>) : r \in Rows}
        \cup {CsvFile(h, rs) : h \in Headers,
                rs \in {<<>>, <<UsualRow>>, <<Reverse(UsualRow)>>, <<Front(UsualRow)>>,
                       <<UsualRow, [UsualRow EXCEPT ![2] = <<"y">>]>>}}

Files == Documents \cup LineFiles \cup CsvFiles
==============================================================================
